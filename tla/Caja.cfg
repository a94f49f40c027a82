SPECIFICATION Spec
CONSTANTS
    cliente = cliente
    Cajas = {k1, k2}
    Cierres = {c1, c2}
    Origenes = {o1}
    Ventas = {o1}
    Facturas = {f1, f2}
    Manuales = {m1}
    Peticiones = {p1, p2}
    Sin = Sin
    MaxEdiciones = 1
    Iniciales = {0}
    Contados = {0}
    MontoDe <- MontoDeMC
    Efectivo <- EfectivoMC
    ClienteDe <- ClienteDeMC
SYMMETRY Simetria
INVARIANTS
    TypeOK
    FacturacionExacta
    UnaCajaAbierta
    ArqueoCuadra
PROPERTIES
    ConteoIntacto
CHECK_DEADLOCK FALSE
