SPECIFICATION Spec
CONSTANTS
    h1 = h1
    h2 = h2
    k1 = k1
    k2 = k2
    k3 = k3
    Hijos = {h1, h2}
    Egresados = {h1}
    Cuentas = {k1, k2, k3}
    Tarjetas = {k1, k3}
    HijoDe <- HijoDeMC
    Resoluciones = {r1, r2}
    Montos = {1}
    Peticiones = {p1, p2}
    Sin = Sin
    MaxEdiciones = 1
    Rango <- RangoMC
SYMMETRY Simetria
INVARIANTS
    TypeOK
    AsientoExacto
PROPERTIES
    HaciaCero
    CerradoFirme
CHECK_DEADLOCK FALSE
