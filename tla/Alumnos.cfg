SPECIFICATION Spec
CONSTANTS
    a2 = a2
    a3 = a3
    Alumnos = {h}
    Grados = {a2, a3}
    Ultimos = {a3}
    Siguiente <- SiguienteMC
    Peticiones = {p1, p2}
    Sin = Sin
    MaxTiempo = 2
    MaxEdiciones = 2
    MaxVeces = 2
SYMMETRY Simetria
INVARIANTS
    TypeOK
    PromocionUnaVez
    RegistroFiel
    BajaConExpediente
PROPERTIES
    PurgaDeBaja
CHECK_DEADLOCK FALSE
