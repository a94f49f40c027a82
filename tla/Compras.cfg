SPECIFICATION Spec
CONSTANTS
    pan = pan
    jugo = jugo
    v1 = v1
    merma = merma
    c1 = c1
    n1 = n1
    Productos = {pan, jugo}
    ConNegativo = {jugo}
    ConFila = {pan}
    Ventas = {v1}
    Ajustes = {merma}
    Compras = {c1}
    Notas = {n1}
    Inicial = 1
    Total = 2
    Pagos = {1}
    MaxPagado = 2
    Peticiones = {p1, p2}
    ItemsDe <- ItemsDeMC
    TipoAjuste <- TipoAjusteMC
    ProductosDe <- ProductosDeMC
    ProductoDe <- ProductoDeMC
    DevuelveDe <- DevuelveDeMC
SYMMETRY SimetriaPeticiones
INVARIANTS
    TypeOK
    StockCuadra
    AplicadoUnaVez
    PagadaCubierta
CHECK_DEADLOCK FALSE
