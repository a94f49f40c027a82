SPECIFICATION Spec
CONSTANTS
    cliente = cliente
    venta = venta
    nota = nota
    pago = pago
    cargo = cargo
    Clientes = {cliente}
    Documentos = {venta, nota, pago, cargo}
    Montos = {1}
    Limite = 1
    MaxEdiciones = 1
    Peticiones = {p1, p2}
    TipoDe <- TipoDeMC
    ClienteDe <- ClienteDeMC
SYMMETRY SimetriaPeticiones
INVARIANTS
    TypeOK
    EfectoExacto
    CadenaCuadra
CHECK_DEADLOCK FALSE
