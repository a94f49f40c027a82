SPECIFICATION Spec
CONSTANTS
    alumno = alumno
    docente = docente
    c1 = c1
    c2 = c2
    v1 = v1
    v2 = v2
    SinTope = SinTope
    Tarjetas = {alumno, docente}
    Alumnos = {alumno}
    Cargas = {c1, c2}
    Ventas = {v1, v2}
    Topes = {0, SinTope}
    MaxAjustes = 1
    MaxEdiciones = 0
    MontosEditados = {2}
    Peticiones = {p1, p2}
    TarjetaDeCarga <- TarjetaDeCargaMC
    MontoDeCarga <- MontoDeCargaMC
    TarjetaDeVenta <- TarjetaDeVentaMC
    MontoDeVenta <- MontoDeVentaMC
    Ajustes <- AjustesMC
INVARIANTS
    AcreditadaUnaVez
