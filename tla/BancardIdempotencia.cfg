SPECIFICATION Spec
CONSTANTS
    recarga = recarga
    corriente = corriente
    Pagos = {recarga, corriente}
    Acreditables = {recarga, corriente}
    Peticiones = {p1, p2}
    Repartos <- RepartosMC
SYMMETRY SimetriaPeticiones
INVARIANTS
    UnSoloCredito
CHECK_DEADLOCK FALSE
