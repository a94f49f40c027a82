SPECIFICATION SpecAlmuerzos
CONSTANTS
    hijo = hijo
    hermano = hermano
    Hijos = {hijo, hermano}
    Envios = {e1, e2, e3}
    Recargas = {r1}
    Tope = 1
    MaxEdiciones = 1
    Peticiones = {p1, p2}
    HijoDe <- HijoDeMC
    HijoDeRecarga <- HijoDeRecargaMC
SYMMETRY Simetria
INVARIANTS
    TypeOK
    UnCobroPorDia
    DeshechoRespaldado
    SoloPatchDescuadra
CHECK_DEADLOCK FALSE
