SPECIFICATION FairSpec
CONSTANTS
    alumno = alumno
    docente = docente
    c1 = c1
    c2 = c2
    v1 = v1
    v2 = v2
    SinTope = SinTope
    Tarjetas = {alumno}
    Alumnos = {alumno}
    Cargas = {c1}
    Ventas = {v1}
    Topes = {0, SinTope}
    MaxAjustes = 1
    MaxEdiciones = 1
    MontosEditados = {2}
    Peticiones = {p1, p2}
    TarjetaDeCarga <- TarjetaDeCargaMC
    MontoDeCarga <- MontoDeCargaMC
    TarjetaDeVenta <- TarjetaDeVentaMC
    MontoDeVenta <- MontoDeVentaMC
    Ajustes <- AjustesMC
INVARIANTS
    TypeOK
    CargaRespaldada
    VentaCobradaUnaVez
PROPERTIES
    SoloEdicionDescuadra
    MovimientoRecompone
    PendienteSeResuelve
