SPECIFICATION FairSpec
CONSTANTS
    hijo = hijo
    Hijos = {hijo}
    Envios = {e1, e2}
    Recargas = {}
    Tope = 2
    MaxEdiciones = 0
    Peticiones = {p1, p2}
    HijoDe <- HijoDeMC
    HijoDeRecarga <- HijoDeRecargaMC
    MaxReloj = 2
    Nadie = Nadie
INVARIANTS
    TypeOKCola
    EntregaExacta
PROPERTIES
    VaciadoTermina
CHECK_DEADLOCK FALSE
