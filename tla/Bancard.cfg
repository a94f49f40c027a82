SPECIFICATION Spec
CONSTANTS
    recarga = recarga
    corriente = corriente
    Pagos = {recarga, corriente}
    Acreditables = {recarga, corriente}
    Peticiones = {p1, p2, p3}
    Repartos <- RepartosMC
SYMMETRY SimetriaPeticiones
INVARIANTS
    TypeOK
    SinSolapeUnCredito
    AprobadoTieneCredito
    ReversoRespaldado
PROPERTIES
    CreditoConCobro
    CicloIdeal
CHECK_DEADLOCK FALSE
