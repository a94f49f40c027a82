--------------------------- MODULE ComprasProofs ---------------------------
(***************************************************************************)
(* Proofs about the stock and the purchases, for every set of products,    *)
(* sales, adjustments, purchases, credit notes and concurrent requests.    *)
(***************************************************************************)
EXTENDS Compras, TLAPS

-----------------------------------------------------------------------------
(* What the requests in progress have read *)

Lecturas == LecturasInventario \cup LecturasCompra

DeCompra == {"confirmar", "editar", "pagar", "aplicar"}
DeAjuste == {"aprobar", "rechazar", "editarAjuste"}

LEMMA LecturaDeOperacion ==
    ASSUME NEW l \in Lecturas
    PROVE  /\ l.op = "venta" => /\ l.venta \in Ventas
                                /\ l.leida \in [Productos -> Int]
                                /\ l.bajoLlave \subseteq Productos
                                /\ l.leidos \subseteq Productos
           /\ l.op = "anularVenta" => l.venta \in Ventas
           /\ l.op \in DeAjuste => l.ajuste \in Ajustes
           /\ l.op \in DeCompra => l.compra \in Compras
           /\ l.op = "editar" => l.fila \in Fila
           /\ l.op = "aplicar" => l.monto \in Nat /\ l.total \in Nat
           /\ l.op = "anularNota" => l.nota \in Notas
  BY DEF Lecturas, LecturasInventario, LecturasCompra, Libre, DeCompra, DeAjuste

LEMMA LibreEsLectura == Libre \in Lecturas /\ Libre.op = "libre"
  BY DEF Lecturas, LecturasInventario, Libre

\* The type invariant in the parts that are proved apart.
TiposStock ==
    /\ filas \subseteq Productos
    /\ existencia \in [Productos -> Int]
    /\ libro \in [Productos -> Int]
    /\ sinCandado \subseteq Productos

TiposAjuste ==
    /\ venta \in [Ventas -> EstadosVenta]
    /\ ajuste \in [Ajustes -> EstadosAjuste]
    /\ aplicado \in [Ajustes -> Nat]
    /\ aMano \subseteq Ajustes

TiposCompra ==
    /\ compra \in [Compras -> Fila]
    /\ ingresos \in [Compras -> Nat]
    /\ egresos \in [Compras -> Nat]
    /\ debe \in [Compras -> Int]
    /\ pagado \in [Compras -> Nat]
    /\ editadas \subseteq Compras

TiposPeticion == peticion \in [Peticiones -> Lecturas]

LEMMA PartesDelTipo ==
    TypeOK <=> /\ TiposStock /\ TiposAjuste /\ TiposCompra /\ TiposPeticion
               /\ nota \in [Notas -> EstadosNota]
  BY DEF TypeOK, TypeOKInventario, TiposStock, TiposAjuste, TiposCompra, TiposPeticion, Lecturas

LEMMA RecordarTipo ==
    ASSUME TiposPeticion, NEW p \in Peticiones, NEW l \in Lecturas, Recordar(p, l)
    PROVE  /\ TiposPeticion'
           /\ peticion'[p] = l
           /\ \A q \in Peticiones \ {p} : peticion'[q] = peticion[q]
  BY DEF Recordar, TiposPeticion

LEMMA ResponderTipo ==
    ASSUME TiposPeticion, NEW p \in Peticiones, Responder(p)
    PROVE  /\ TiposPeticion'
           /\ peticion'[p] = Libre
           /\ \A q \in Peticiones \ {p} : peticion'[q] = peticion[q]
  BY LibreEsLectura DEF Responder, TiposPeticion

-----------------------------------------------------------------------------
(* What a step does, seen from one part of the state at a time *)

\* Who changes the stock: a sale that is written, or a Mover
MueveStock ==
    \/ UNCHANGED varsStock
    \/ \E S \in SUBSET Productos, n \in Int : Mover(S, n)
    \/ \E p \in Peticiones : RegistrarVenta(p)

LEMMA MercaderiaMueve ==
    ASSUME NEW c \in Compras, NEW n \in Int, Mover({ProductoDe[c]}, n)
    PROVE  MueveStock
  <1>1. {ProductoDe[c]} \in SUBSET Productos
    BY ComprasAssumption
  <1> QED BY <1>1 DEF MueveStock

LEMMA PasoDeStock == TypeOK /\ [Next]_vars => MueveStock
  <1> SUFFICES ASSUME TypeOK, [Next]_vars PROVE MueveStock
    OBVIOUS
  <1>0. 1 \in Int /\ -1 \in Int
    OBVIOUS
  <1>1. ASSUME NEW p \in Peticiones, AnularVenta(p) PROVE MueveStock
    <2>1. ItemsDe[peticion[p].venta] \in SUBSET Productos
      BY <1>1, LecturaDeOperacion, InventarioAssumption, PartesDelTipo
      DEF AnularVenta, TiposPeticion
    <2> QED BY <1>0, <1>1, <2>1 DEF AnularVenta, MueveStock
  <1>2. ASSUME NEW p \in Peticiones, Aprobar(p) PROVE MueveStock
    <2> DEFINE a == peticion[p].ajuste
               n == IF TipoAjuste[a] = "AUMENTO" THEN 1 ELSE -1
    <2>1. ProductosDe[a] \in SUBSET Productos /\ n \in Int
      BY <1>2, LecturaDeOperacion, InventarioAssumption, PartesDelTipo
      DEF Aprobar, TiposPeticion, DeAjuste
    <2>2. Mover(ProductosDe[a], n)
      BY <1>2 DEF Aprobar
    <2> HIDE DEF n, a
    <2> QED BY <2>1, <2>2 DEF MueveStock
  <1>3. ASSUME NEW c \in Compras, NEW tipo \in TiposPago, RegistrarCompra(c, tipo)
        PROVE  MueveStock
    BY <1>0, <1>3, MercaderiaMueve DEF RegistrarCompra, IngresarMercaderia, MueveStock
  <1>4. ASSUME NEW p \in Peticiones, ConfirmarCompra(p) PROVE MueveStock
    <2>1. peticion[p].compra \in Compras
      BY <1>4, LecturaDeOperacion, PartesDelTipo DEF ConfirmarCompra, TiposPeticion, DeCompra
    <2> QED BY <1>0, <1>4, <2>1, MercaderiaMueve DEF ConfirmarCompra, IngresarMercaderia
  <1>5. ASSUME NEW c \in Compras, AnularCompra(c) PROVE MueveStock
    <2>1. -ingresos[c] \in Int
      BY DEF TypeOK
    <2> QED BY <1>5, <2>1, MercaderiaMueve DEF AnularCompra, MueveStock
  <1>6. ASSUME NEW n \in Notas, EmitirNota(n) PROVE MueveStock
    <2>1. DevuelveDe[n] \in SUBSET Productos
      BY ComprasAssumption
    <2> QED BY <1>0, <1>6, <2>1 DEF EmitirNota, MueveStock
  <1>7. ASSUME NEW p \in Peticiones, AnularNota(p) PROVE MueveStock
    <2>1. DevuelveDe[peticion[p].nota] \in SUBSET Productos
      BY <1>7, LecturaDeOperacion, ComprasAssumption, PartesDelTipo
      DEF AnularNota, TiposPeticion
    <2> QED BY <1>0, <1>7, <2>1 DEF AnularNota, MueveStock
  <1>8. NextCompras => MueveStock
    <2>1. ASSUME NEW c \in Compras, EliminarPagos(c) \/ EliminarCompra(c)
          PROVE  UNCHANGED varsStock
      BY <2>1 DEF EliminarPagos, EliminarCompra, varsInventario
    <2>2. ASSUME NEW p \in Peticiones, NEW c \in Compras,
                 LeerConfirmar(p, c) \/ LeerPagar(p, c) \/ LeerEditar(p, c)
          PROVE  UNCHANGED varsStock
      BY <2>2 DEF LeerConfirmar, LeerPagar, LeerEditar, varsInventario
    <2>3. ASSUME NEW p \in Peticiones, NEW monto \in Pagos,
                 AplicarPago(p, monto) \/ TerminarPago(p) \/ EditarCompra(p)
          PROVE  UNCHANGED varsStock
      BY <2>3 DEF AplicarPago, TerminarPago, EditarCompra, varsInventario
    <2>4. ASSUME NEW p \in Peticiones, TerminarPago(p) \/ EditarCompra(p)
          PROVE  UNCHANGED varsStock
      BY <2>4 DEF TerminarPago, EditarCompra, varsInventario
    <2>5. ASSUME NEW p \in Peticiones, NEW n \in Notas, LeerAnularNota(p, n)
          PROVE  UNCHANGED varsStock
      BY <2>5 DEF LeerAnularNota, varsInventario
    <2>6. UNCHANGED varsStock => MueveStock
      BY DEF MueveStock
    <2> QED BY <1>3, <1>4, <1>5, <1>6, <1>7, <2>1, <2>2, <2>3, <2>4, <2>5, <2>6
        DEF NextCompras
  <1>9. NextInventario => MueveStock
    <2>1. ASSUME NEW p \in Peticiones, NEW v \in Ventas,
                 EmpezarVenta(p, v) \/ LeerAnularVenta(p, v)
          PROVE  UNCHANGED varsStock
      BY <2>1 DEF EmpezarVenta, LeerAnularVenta
    <2>2. ASSUME NEW p \in Peticiones,
                 LeerFilaAjena(p) \/ Rechazar(p) \/ EditarAjuste(p) \/ Deshacer(p)
          PROVE  UNCHANGED varsStock
      BY <2>2 DEF LeerFilaAjena, Rechazar, EditarAjuste, Deshacer
    <2>3. ASSUME NEW p \in Peticiones, NEW a \in Ajustes, NEW op \in DeAjuste,
                 LeerAjuste(p, a, op)
          PROVE  UNCHANGED varsStock
      BY <2>3 DEF LeerAjuste
    <2>4. ASSUME NEW a \in Ajustes, CrearAjuste(a) \/ EliminarAjuste(a)
          PROVE  UNCHANGED varsStock
      BY <2>4 DEF CrearAjuste, EliminarAjuste
    <2>5. UNCHANGED varsStock => MueveStock
      BY DEF MueveStock
    <2>6. \A p \in Peticiones : RegistrarVenta(p) => MueveStock
      BY DEF MueveStock
    <2> QED BY <1>1, <1>2, <2>1, <2>2, <2>3, <2>4, <2>5, <2>6 DEF NextInventario, DeAjuste
  <1>10. UNCHANGED vars => MueveStock
    BY DEF vars, varsInventario, MueveStock
  <1> QED BY <1>8, <1>9, <1>10 DEF Next

\* Who changes the requests: one is answered, or remembers what it read
MuevePeticion ==
    \/ UNCHANGED peticion
    \/ \E p \in Peticiones : Responder(p)
    \/ \E p \in Peticiones, l \in Lecturas :
          Recordar(p, l) /\ l.op \notin {"venta", "aplicar"}
    \/ \E p \in Peticiones, v \in Ventas : EmpezarVenta(p, v)
    \/ \E p \in Peticiones : LeerFilaAjena(p)
    \/ \E p \in Peticiones, monto \in Pagos : AplicarPago(p, monto)

LEMMA PasoDePeticion == TypeOK /\ [Next]_vars => MuevePeticion
  <1> SUFFICES ASSUME TypeOK, [Next]_vars PROVE MuevePeticion
    OBVIOUS
  <1>1. ASSUME NEW p \in Peticiones, NEW l \in Lecturas, Recordar(p, l),
               l.op \notin {"venta", "aplicar"}
        PROVE  MuevePeticion
    BY <1>1 DEF MuevePeticion
  <1>2. ASSUME NEW p \in Peticiones, Responder(p) PROVE MuevePeticion
    BY <1>2 DEF MuevePeticion
  <1>3. UNCHANGED peticion => MuevePeticion
    BY DEF MuevePeticion
  <1>4. ASSUME NEW p \in Peticiones, NEW v \in Ventas, LeerAnularVenta(p, v)
        PROVE  MuevePeticion
    <2>1. [op |-> "anularVenta", venta |-> v] \in Lecturas
      BY DEF Lecturas, LecturasInventario
    <2> QED BY <1>1, <1>4, <2>1 DEF LeerAnularVenta
  <1>5. ASSUME NEW p \in Peticiones, NEW a \in Ajustes, NEW op \in DeAjuste,
               LeerAjuste(p, a, op)
        PROVE  MuevePeticion
    <2>1. [op |-> op, ajuste |-> a] \in Lecturas /\ op \notin {"venta", "aplicar"}
      BY DEF Lecturas, LecturasInventario, DeAjuste
    <2> QED BY <1>1, <1>5, <2>1 DEF LeerAjuste
  <1>6. ASSUME NEW p \in Peticiones, NEW c \in Compras,
               LeerConfirmar(p, c) \/ LeerPagar(p, c) \/ LeerEditar(p, c)
        PROVE  MuevePeticion
    <2>1. /\ [op |-> "confirmar", compra |-> c] \in Lecturas
          /\ [op |-> "pagar", compra |-> c] \in Lecturas
          /\ [op |-> "editar", compra |-> c, fila |-> compra[c]] \in Lecturas
      BY DEF Lecturas, LecturasCompra, TypeOK
    <2>2. LeerConfirmar(p, c) => MuevePeticion
      BY <1>1, <2>1 DEF LeerConfirmar
    <2>3. LeerPagar(p, c) => MuevePeticion
      BY <1>1, <2>1 DEF LeerPagar
    <2>4. LeerEditar(p, c) => MuevePeticion
      BY <1>1, <2>1 DEF LeerEditar
    <2> QED BY <1>6, <2>2, <2>3, <2>4
  <1>7. ASSUME NEW p \in Peticiones, NEW n \in Notas, LeerAnularNota(p, n)
        PROVE  MuevePeticion
    <2>1. [op |-> "anularNota", nota |-> n] \in Lecturas
      BY DEF Lecturas, LecturasCompra
    <2> QED BY <1>1, <1>7, <2>1 DEF LeerAnularNota
  <1>8. NextCompras => MuevePeticion
    <2>1. ASSUME NEW c \in Compras, NEW tipo \in TiposPago,
                 \/ RegistrarCompra(c, tipo) \/ AnularCompra(c)
                 \/ EliminarPagos(c) \/ EliminarCompra(c)
          PROVE  UNCHANGED peticion
      BY <2>1 DEF RegistrarCompra, AnularCompra, EliminarPagos, EliminarCompra
    <2>2. ASSUME NEW c \in Compras, AnularCompra(c) \/ EliminarPagos(c) \/ EliminarCompra(c)
          PROVE  UNCHANGED peticion
      BY <2>2 DEF AnularCompra, EliminarPagos, EliminarCompra
    <2>3. ASSUME NEW n \in Notas, EmitirNota(n) PROVE UNCHANGED peticion
      BY <2>3 DEF EmitirNota
    <2>4. ASSUME NEW p \in Peticiones,
                 ConfirmarCompra(p) \/ TerminarPago(p) \/ EditarCompra(p) \/ AnularNota(p)
          PROVE  Responder(p)
      BY <2>4 DEF ConfirmarCompra, TerminarPago, EditarCompra, AnularNota
    <2>5. \A p \in Peticiones, monto \in Pagos : AplicarPago(p, monto) => MuevePeticion
      BY DEF MuevePeticion
    <2> QED BY <1>2, <1>3, <1>6, <1>7, <2>1, <2>2, <2>3, <2>4, <2>5 DEF NextCompras
  <1>9. NextInventario => MuevePeticion
    <2>1. ASSUME NEW p \in Peticiones,
                 \/ RegistrarVenta(p) \/ AnularVenta(p) \/ Aprobar(p) \/ Rechazar(p)
                 \/ EditarAjuste(p) \/ Deshacer(p)
          PROVE  Responder(p)
      BY <2>1 DEF RegistrarVenta, AnularVenta, Aprobar, Rechazar, EditarAjuste, Deshacer
    <2>2. ASSUME NEW a \in Ajustes, CrearAjuste(a) \/ EliminarAjuste(a)
          PROVE  UNCHANGED peticion
      BY <2>2 DEF CrearAjuste, EliminarAjuste
    <2>3. ASSUME NEW p \in Peticiones, LeerFilaAjena(p) PROVE MuevePeticion
      BY <2>3 DEF MuevePeticion
    <2>4. ASSUME NEW p \in Peticiones, NEW v \in Ventas, EmpezarVenta(p, v)
          PROVE  MuevePeticion
      BY <2>4 DEF MuevePeticion
    <2> QED BY <1>2, <1>3, <1>4, <1>5, <2>1, <2>2, <2>3, <2>4 DEF NextInventario, DeAjuste
  <1>10. UNCHANGED vars => MuevePeticion
    BY <1>3 DEF vars
  <1> QED BY <1>8, <1>9, <1>10 DEF Next

\* Who changes the purchases
MueveCompra ==
    \/ UNCHANGED varsCompra
    \/ \E c \in Compras :
          \/ \E tipo \in TiposPago : RegistrarCompra(c, tipo)
          \/ AnularCompra(c) \/ EliminarPagos(c) \/ EliminarCompra(c)
    \/ \E p \in Peticiones : ConfirmarCompra(p) \/ TerminarPago(p) \/ EditarCompra(p)

LEMMA PasoDeCompra == [Next]_vars => MueveCompra
  <1> SUFFICES ASSUME [Next]_vars PROVE MueveCompra
    OBVIOUS
  <1>1. NextCompras => MueveCompra
    <2>1. ASSUME NEW n \in Notas, EmitirNota(n) PROVE UNCHANGED varsCompra
      BY <2>1 DEF EmitirNota
    <2>2. ASSUME NEW p \in Peticiones, NEW c \in Compras,
                 LeerConfirmar(p, c) \/ LeerPagar(p, c) \/ LeerEditar(p, c)
          PROVE  UNCHANGED varsCompra
      BY <2>2 DEF LeerConfirmar, LeerPagar, LeerEditar
    <2>3. ASSUME NEW p \in Peticiones, NEW monto \in Pagos, AplicarPago(p, monto)
          PROVE  UNCHANGED varsCompra
      BY <2>3 DEF AplicarPago
    <2>4. ASSUME NEW p \in Peticiones, NEW n \in Notas, LeerAnularNota(p, n)
          PROVE  UNCHANGED varsCompra
      BY <2>4 DEF LeerAnularNota
    <2>5. ASSUME NEW p \in Peticiones, AnularNota(p) PROVE UNCHANGED varsCompra
      BY <2>5 DEF AnularNota
    <2> QED BY <2>1, <2>2, <2>3, <2>4, <2>5 DEF NextCompras, MueveCompra
  <1> QED BY <1>1 DEF Next, vars, MueveCompra

\* Who changes the adjustments
MueveAjuste ==
    \/ UNCHANGED varsAjuste
    \/ \E a \in Ajustes : CrearAjuste(a) \/ EliminarAjuste(a)
    \/ \E p \in Peticiones : Aprobar(p) \/ Rechazar(p) \/ EditarAjuste(p)

LEMMA PasoDeAjuste == [Next]_vars => MueveAjuste
  <1> SUFFICES ASSUME [Next]_vars PROVE MueveAjuste
    OBVIOUS
  <1>1. NextCompras => MueveAjuste
    <2>1. ASSUME NEW c \in Compras, AnularCompra(c) \/ EliminarPagos(c) \/ EliminarCompra(c)
          PROVE  UNCHANGED varsAjuste
      BY <2>1 DEF AnularCompra, EliminarPagos, EliminarCompra, varsInventario
    <2>2. ASSUME NEW c \in Compras, NEW tipo \in TiposPago, RegistrarCompra(c, tipo)
          PROVE  UNCHANGED varsAjuste
      BY <2>2 DEF RegistrarCompra
    <2>3. ASSUME NEW n \in Notas, EmitirNota(n) PROVE UNCHANGED varsAjuste
      BY <2>3 DEF EmitirNota
    <2>4. ASSUME NEW p \in Peticiones, NEW c \in Compras,
                 LeerConfirmar(p, c) \/ LeerPagar(p, c) \/ LeerEditar(p, c)
          PROVE  UNCHANGED varsAjuste
      BY <2>4 DEF LeerConfirmar, LeerPagar, LeerEditar, varsInventario
    <2>5. ASSUME NEW p \in Peticiones, NEW monto \in Pagos, AplicarPago(p, monto)
          PROVE  UNCHANGED varsAjuste
      BY <2>5 DEF AplicarPago, varsInventario
    <2>6. ASSUME NEW p \in Peticiones, NEW n \in Notas, LeerAnularNota(p, n)
          PROVE  UNCHANGED varsAjuste
      BY <2>6 DEF LeerAnularNota, varsInventario
    <2>7. ASSUME NEW p \in Peticiones,
                 ConfirmarCompra(p) \/ TerminarPago(p) \/ EditarCompra(p) \/ AnularNota(p)
          PROVE  UNCHANGED varsAjuste
      BY <2>7 DEF ConfirmarCompra, TerminarPago, EditarCompra, AnularNota, varsInventario
    <2> QED BY <2>1, <2>2, <2>3, <2>4, <2>5, <2>6, <2>7 DEF NextCompras, MueveAjuste
  <1>2. NextInventario => MueveAjuste
    <2>1. ASSUME NEW p \in Peticiones, NEW v \in Ventas,
                 EmpezarVenta(p, v) \/ LeerAnularVenta(p, v)
          PROVE  UNCHANGED varsAjuste
      BY <2>1 DEF EmpezarVenta, LeerAnularVenta
    <2>2. ASSUME NEW p \in Peticiones,
                 LeerFilaAjena(p) \/ RegistrarVenta(p) \/ AnularVenta(p) \/ Deshacer(p)
          PROVE  UNCHANGED varsAjuste
      BY <2>2 DEF LeerFilaAjena, RegistrarVenta, AnularVenta, Deshacer
    <2>3. ASSUME NEW p \in Peticiones, NEW a \in Ajustes, NEW op \in DeAjuste,
                 LeerAjuste(p, a, op)
          PROVE  UNCHANGED varsAjuste
      BY <2>3 DEF LeerAjuste
    <2> QED BY <2>1, <2>2, <2>3 DEF NextInventario, MueveAjuste, DeAjuste
  <1> QED BY <1>1, <1>2 DEF Next, vars, varsInventario, MueveAjuste

-----------------------------------------------------------------------------
(* Types *)

LEMMA MoverTipo ==
    ASSUME TiposStock, NEW S \in SUBSET Productos, NEW n \in Int, Mover(S, n)
    PROVE  TiposStock'
  <1>1. \A pr \in Productos : /\ existencia[pr] + (IF pr \in S THEN n ELSE 0) \in Int
                              /\ libro[pr] + (IF pr \in S THEN n ELSE 0) \in Int
    BY DEF TiposStock
  <1> QED BY <1>1 DEF TiposStock, Mover

LEMMA StockTipo == TypeOK /\ MueveStock => TiposStock'
  <1> SUFFICES ASSUME TypeOK, MueveStock PROVE TiposStock'
    OBVIOUS
  <1>1. TiposStock /\ TiposPeticion
    BY PartesDelTipo
  <1>2. UNCHANGED varsStock => TiposStock'
    BY <1>1 DEF TiposStock, varsStock
  <1>3. ASSUME NEW p \in Peticiones, RegistrarVenta(p) PROVE TiposStock'
    <2> DEFINE pide == peticion[p]
               items == ItemsDe[pide.venta]
    <2>1. /\ pide.leida \in [Productos -> Int] /\ pide.leidos \subseteq Productos
          /\ items \subseteq Productos
      BY <1>1, <1>3, LecturaDeOperacion, InventarioAssumption DEF RegistrarVenta, TiposPeticion
    <2>2. /\ filas' = filas \cup items
          /\ existencia' = [pr \in Productos |->
                               IF pr \in items THEN pide.leida[pr] - 1 ELSE existencia[pr]]
          /\ libro' = [pr \in Productos |-> libro[pr] - IF pr \in items THEN 1 ELSE 0]
          /\ sinCandado' = sinCandado \cup pide.leidos
      BY <1>3 DEF RegistrarVenta
    <2> HIDE DEF items, pide
    <2>3. existencia' \in [Productos -> Int]
      BY <1>1, <2>1, <2>2 DEF TiposStock
    <2>4. libro' \in [Productos -> Int]
      BY <1>1, <2>2 DEF TiposStock
    <2> QED BY <1>1, <2>1, <2>2, <2>3, <2>4 DEF TiposStock
  <1> QED BY <1>1, <1>2, <1>3, MoverTipo DEF MueveStock

\* Beginning a sale, reading the row another request created, applying a payment:
\* what is remembered is a reading.
LEMMA LecturaNueva ==
    /\ TypeOK => \A p \in Peticiones, v \in Ventas : EmpezarVenta(p, v) =>
          /\ [op |-> "venta", venta |-> v, leida |-> existencia,
              bajoLlave |-> ItemsDe[v] \cap filas, leidos |-> {}] \in Lecturas
    /\ TypeOK => \A p \in Peticiones, monto \in Pagos : AplicarPago(p, monto) =>
          /\ [op |-> "aplicar", compra |-> peticion[p].compra, monto |-> monto,
              total |-> pagado[peticion[p].compra] + monto] \in Lecturas
  <1>1. ASSUME TypeOK, NEW p \in Peticiones, NEW v \in Ventas
        PROVE  [op |-> "venta", venta |-> v, leida |-> existencia,
                bajoLlave |-> ItemsDe[v] \cap filas, leidos |-> {}] \in Lecturas
    BY <1>1, InventarioAssumption DEF Lecturas, LecturasInventario, TypeOK, TypeOKInventario
  <1>2. ASSUME TypeOK, NEW p \in Peticiones, NEW monto \in Pagos, AplicarPago(p, monto)
        PROVE  [op |-> "aplicar", compra |-> peticion[p].compra, monto |-> monto,
                total |-> pagado[peticion[p].compra] + monto] \in Lecturas
    <2>1. peticion[p].compra \in Compras
      BY <1>2, LecturaDeOperacion, PartesDelTipo DEF AplicarPago, TiposPeticion, DeCompra
    <2>2. monto \in Nat /\ pagado[peticion[p].compra] + monto \in Nat
      BY <1>2, <2>1, ComprasAssumption DEF TypeOK
    <2> QED BY <2>1, <2>2 DEF Lecturas, LecturasCompra
  <1> QED BY <1>1, <1>2

\* The row that get_or_create found is one more of those read without a lock
LEMMA FilaAjenaEfecto ==
    ASSUME TypeOK, NEW p \in Peticiones, LeerFilaAjena(p)
    PROVE  /\ TiposPeticion'
           /\ UNCHANGED <<filas, existencia, libro, sinCandado>>
           /\ peticion[p].op = "venta"
           /\ \A q \in Peticiones \ {p} : peticion'[q] = peticion[q]
           /\ \E pr \in Productos \ (peticion[p].bajoLlave \cup peticion[p].leidos) :
                 /\ peticion'[p].op = "venta" /\ peticion'[p].venta = peticion[p].venta
                 /\ peticion'[p].bajoLlave = peticion[p].bajoLlave
                 /\ peticion'[p].leidos = peticion[p].leidos \cup {pr}
                 /\ peticion'[p].leida = [peticion[p].leida EXCEPT ![pr] = existencia[pr]]
  <1> DEFINE pide == peticion[p]
  <1>1. pide \in [op : {"venta"}, venta : Ventas, leida : [Productos -> Int],
                  bajoLlave : SUBSET Productos, leidos : SUBSET Productos]
    BY DEF LeerFilaAjena, TypeOK, LecturasInventario, LecturasCompra, Libre
  <1>2. PICK pr \in ItemsDe[pide.venta] \ (pide.bajoLlave \cup pide.leidos) :
               peticion' = [peticion EXCEPT ![p].leidos = @ \cup {pr},
                                            ![p].leida[pr] = existencia[pr]]
    BY DEF LeerFilaAjena
  <1>3. pr \in Productos /\ existencia[pr] \in Int
    BY <1>1, <1>2, InventarioAssumption DEF TypeOK, TypeOKInventario
  <1> DEFINE nuevo == [pide EXCEPT !.leidos = @ \cup {pr}, !.leida[pr] = existencia[pr]]
  <1>4. /\ nuevo \in [op : {"venta"}, venta : Ventas, leida : [Productos -> Int],
                      bajoLlave : SUBSET Productos, leidos : SUBSET Productos]
        /\ nuevo.venta = pide.venta /\ nuevo.bajoLlave = pide.bajoLlave
        /\ nuevo.leidos = pide.leidos \cup {pr}
        /\ nuevo.leida = [pide.leida EXCEPT ![pr] = existencia[pr]]
    BY <1>1, <1>3
  <1>5. peticion' = [peticion EXCEPT ![p] = nuevo]
    BY <1>2 DEF TypeOK
  <1>6. peticion \in [Peticiones -> Lecturas] /\ nuevo \in Lecturas
    BY <1>4, PartesDelTipo DEF TiposPeticion, Lecturas, LecturasInventario
  <1>7. /\ TiposPeticion' /\ peticion'[p] = nuevo
        /\ \A q \in Peticiones \ {p} : peticion'[q] = peticion[q]
    BY <1>5, <1>6 DEF TiposPeticion
  <1>8. UNCHANGED <<filas, existencia, libro, sinCandado>> /\ pide.op = "venta"
    BY DEF LeerFilaAjena, varsStock
  <1> HIDE DEF nuevo
  <1>9. nuevo.op = "venta"
    BY <1>4
  <1> QED BY <1>2, <1>3, <1>4, <1>7, <1>8, <1>9

LEMMA PeticionTipo == TypeOK /\ MuevePeticion => TiposPeticion'
  <1> SUFFICES ASSUME TypeOK, MuevePeticion PROVE TiposPeticion'
    OBVIOUS
  <1>1. TiposPeticion
    BY PartesDelTipo
  <1>2. UNCHANGED peticion => TiposPeticion'
    BY <1>1 DEF TiposPeticion
  <1>3. ASSUME NEW p \in Peticiones, NEW v \in Ventas, EmpezarVenta(p, v)
        PROVE  TiposPeticion'
    BY <1>1, <1>3, LecturaNueva, RecordarTipo DEF EmpezarVenta
  <1>4. ASSUME NEW p \in Peticiones, NEW monto \in Pagos, AplicarPago(p, monto)
        PROVE  TiposPeticion'
    BY <1>1, <1>4, LecturaNueva, RecordarTipo DEF AplicarPago
  <1> QED BY <1>1, <1>2, <1>3, <1>4, RecordarTipo, ResponderTipo, FilaAjenaEfecto
      DEF MuevePeticion

LEMMA AjusteTipo == TypeOK /\ MueveAjuste => ajuste' \in [Ajustes -> EstadosAjuste]
                                            /\ aplicado' \in [Ajustes -> Nat]
                                            /\ aMano' \subseteq Ajustes
  <1> SUFFICES ASSUME TypeOK, MueveAjuste
               PROVE  /\ ajuste' \in [Ajustes -> EstadosAjuste]
                      /\ aplicado' \in [Ajustes -> Nat]
                      /\ aMano' \subseteq Ajustes
    OBVIOUS
  <1>1. /\ ajuste \in [Ajustes -> EstadosAjuste] /\ aplicado \in [Ajustes -> Nat]
        /\ aMano \subseteq Ajustes
    BY DEF TypeOK, TypeOKInventario
  <1>2. {"NINGUNO", "PENDIENTE", "APROBADO", "RECHAZADO", "BORRADO"} = EstadosAjuste
    BY DEF EstadosAjuste
  <1>3. ASSUME NEW a \in Ajustes, CrearAjuste(a) \/ EliminarAjuste(a)
        PROVE  /\ ajuste' \in [Ajustes -> EstadosAjuste]
               /\ aplicado' \in [Ajustes -> Nat]
               /\ aMano' \subseteq Ajustes
    BY <1>1, <1>2, <1>3 DEF CrearAjuste, EliminarAjuste
  <1>4. ASSUME NEW p \in Peticiones, Aprobar(p) \/ Rechazar(p) \/ EditarAjuste(p)
        PROVE  /\ ajuste' \in [Ajustes -> EstadosAjuste]
               /\ aplicado' \in [Ajustes -> Nat]
               /\ aMano' \subseteq Ajustes
    <2>1. peticion[p].ajuste \in Ajustes
      BY <1>4, LecturaDeOperacion, PartesDelTipo
      DEF Aprobar, Rechazar, EditarAjuste, TiposPeticion, DeAjuste
    <2>2. CASE Aprobar(p)
      BY <1>1, <1>2, <2>1, <2>2 DEF Aprobar
    <2>3. CASE Rechazar(p)
      BY <1>1, <1>2, <2>1, <2>3 DEF Rechazar
    <2>4. CASE EditarAjuste(p)
      BY <1>1, <1>2, <2>1, <2>4 DEF EditarAjuste
    <2> QED BY <1>4, <2>2, <2>3, <2>4
  <1> QED BY <1>1, <1>3, <1>4 DEF MueveAjuste, varsAjuste

LEMMA VentaTipo == TypeOK /\ [Next]_vars => venta' \in [Ventas -> EstadosVenta]
  <1> SUFFICES ASSUME TypeOK, [Next]_vars PROVE venta' \in [Ventas -> EstadosVenta]
    OBVIOUS
  <1>1. venta \in [Ventas -> EstadosVenta]
    BY DEF TypeOK, TypeOKInventario
  <1>2. ASSUME NEW p \in Peticiones, RegistrarVenta(p) \/ AnularVenta(p)
        PROVE  venta' \in [Ventas -> EstadosVenta]
    <2>1. peticion[p].venta \in Ventas
      BY <1>2, LecturaDeOperacion, PartesDelTipo DEF RegistrarVenta, AnularVenta, TiposPeticion
    <2> QED BY <1>1, <1>2, <2>1 DEF RegistrarVenta, AnularVenta, EstadosVenta
  <1>3. NextCompras => UNCHANGED venta
    BY DEF NextCompras, RegistrarCompra, AnularCompra, EliminarPagos, EliminarCompra, EmitirNota,
           LeerConfirmar, LeerPagar, LeerEditar, ConfirmarCompra, AplicarPago, TerminarPago,
           EditarCompra, LeerAnularNota, AnularNota, varsInventario
  <1>4. NextInventario => UNCHANGED venta \/ \E p \in Peticiones : RegistrarVenta(p) \/ AnularVenta(p)
    BY DEF NextInventario, EmpezarVenta, LeerAnularVenta, LeerFilaAjena, LeerAjuste, Aprobar,
           Rechazar, EditarAjuste, Deshacer, CrearAjuste, EliminarAjuste
  <1> QED BY <1>1, <1>2, <1>3, <1>4 DEF Next, vars, varsInventario

\* estado_pago or estado_entrega of one purchase is written
LEMMA FilaEscrita ==
    ASSUME compra \in [Compras -> Fila], NEW c \in Compras
    PROVE  /\ \A x \in EstadosPago \cup {"NINGUNA", "BORRADA"} :
                 [compra EXCEPT ![c].pago = x] \in [Compras -> Fila]
           /\ \A x \in EstadosEntrega : [compra EXCEPT ![c].entrega = x] \in [Compras -> Fila]
           /\ \A f \in Fila : [compra EXCEPT ![c] = f] \in [Compras -> Fila]
           /\ \A f \in Fila, t \in TiposPago : [f EXCEPT !.tipo = t] \in Fila
  BY DEF Fila

LEMMA CompraTipo == TypeOK /\ MueveCompra => TiposCompra'
  <1> SUFFICES ASSUME TypeOK, MueveCompra PROVE TiposCompra'
    OBVIOUS
  <1>1. TiposCompra /\ TiposPeticion
    BY PartesDelTipo
  <1>2. UNCHANGED varsCompra => TiposCompra'
    BY <1>1 DEF TiposCompra, varsCompra
  <1>3. ASSUME NEW c \in Compras, NEW tipo \in TiposPago, RegistrarCompra(c, tipo)
        PROVE  TiposCompra'
    <2>1. /\ [tipo |-> tipo, pago |-> "PAGADO", entrega |-> "RECIBIDA"] \in Fila
          /\ [tipo |-> tipo, pago |-> "PENDIENTE", entrega |-> "PENDIENTE"] \in Fila
      BY DEF Fila, EstadosPago, EstadosEntrega
    <2>2. compra' \in [Compras -> Fila]
      BY <1>1, <1>3, <2>1, FilaEscrita DEF RegistrarCompra, TiposCompra
    <2> QED BY <1>1, <1>3, <2>2, ComprasAssumption
        DEF RegistrarCompra, IngresarMercaderia, TiposCompra
  <1>4. ASSUME NEW c \in Compras, AnularCompra(c) PROVE TiposCompra'
    <2>1. compra' \in [Compras -> Fila]
      BY <1>1, <1>4, FilaEscrita DEF AnularCompra, TiposCompra, EstadosPago
    <2>2. egresos' \in [Compras -> Nat]
      BY <1>1, <1>4 DEF AnularCompra, TiposCompra
    <2>3. debe' \in [Compras -> Int]
      BY <1>1, <1>4, ComprasAssumption DEF AnularCompra, TiposCompra
    <2> QED BY <1>1, <1>4, <2>1, <2>2, <2>3 DEF AnularCompra, TiposCompra
  <1>5. ASSUME NEW c \in Compras, EliminarPagos(c) PROVE TiposCompra'
    BY <1>1, <1>5 DEF EliminarPagos, TiposCompra
  <1>6. ASSUME NEW c \in Compras, EliminarCompra(c) PROVE TiposCompra'
    <2>1. compra' \in [Compras -> Fila]
      BY <1>1, <1>6, FilaEscrita DEF EliminarCompra, TiposCompra
    <2> QED BY <1>1, <1>6, <2>1 DEF EliminarCompra, TiposCompra
  <1>7. ASSUME NEW p \in Peticiones, ConfirmarCompra(p) PROVE TiposCompra'
    <2>1. peticion[p].compra \in Compras
      BY <1>1, <1>7, LecturaDeOperacion DEF ConfirmarCompra, TiposPeticion, DeCompra
    <2>2. compra' \in [Compras -> Fila]
      BY <1>1, <1>7, <2>1, FilaEscrita DEF ConfirmarCompra, TiposCompra, EstadosEntrega
    <2> QED BY <1>1, <1>7, <2>1, <2>2 DEF ConfirmarCompra, IngresarMercaderia, TiposCompra
  <1>8. ASSUME NEW p \in Peticiones, TerminarPago(p) PROVE TiposCompra'
    <2>1. peticion[p].compra \in Compras /\ peticion[p].monto \in Nat
      BY <1>1, <1>8, LecturaDeOperacion DEF TerminarPago, TiposPeticion, DeCompra
    <2>2. EstadoSegun(peticion[p].total) \in EstadosPago
      BY DEF EstadoSegun, EstadosPago
    <2>3. compra' \in [Compras -> Fila]
      BY <1>1, <1>8, <2>1, <2>2, FilaEscrita DEF TerminarPago, TiposCompra
    <2>4. pagado' \in [Compras -> Nat]
      BY <1>1, <1>8, <2>1 DEF TerminarPago, TiposCompra
    <2> QED BY <1>1, <1>8, <2>3, <2>4 DEF TerminarPago, TiposCompra
  <1>9. ASSUME NEW p \in Peticiones, EditarCompra(p) PROVE TiposCompra'
    <2>1. peticion[p].compra \in Compras /\ peticion[p].fila \in Fila
      BY <1>1, <1>9, LecturaDeOperacion DEF EditarCompra, TiposPeticion, DeCompra
    <2>2. compra' \in [Compras -> Fila]
      BY <1>1, <1>9, <2>1, FilaEscrita DEF EditarCompra, TiposCompra
    <2> QED BY <1>1, <1>9, <2>1, <2>2 DEF EditarCompra, TiposCompra
  <1> QED BY <1>2, <1>3, <1>4, <1>5, <1>6, <1>7, <1>8, <1>9 DEF MueveCompra

LEMMA NotaTipo == TypeOK /\ [Next]_vars => nota' \in [Notas -> EstadosNota]
  <1> SUFFICES ASSUME TypeOK, [Next]_vars PROVE nota' \in [Notas -> EstadosNota]
    OBVIOUS
  <1>1. nota \in [Notas -> EstadosNota] /\ {"EMITIDA", "ANULADA"} \subseteq EstadosNota
    BY DEF TypeOK, EstadosNota
  <1>2. ASSUME NEW n \in Notas, EmitirNota(n) PROVE nota' \in [Notas -> EstadosNota]
    BY <1>1, <1>2 DEF EmitirNota
  <1>3. ASSUME NEW p \in Peticiones, AnularNota(p) PROVE nota' \in [Notas -> EstadosNota]
    BY <1>1, <1>3 DEF AnularNota
  <1>4. NextCompras => \/ UNCHANGED nota
                       \/ \E n \in Notas : EmitirNota(n)
                       \/ \E p \in Peticiones : AnularNota(p)
    BY DEF NextCompras, RegistrarCompra, AnularCompra, EliminarPagos, EliminarCompra,
           LeerConfirmar, LeerPagar, LeerEditar, ConfirmarCompra, AplicarPago, TerminarPago,
           EditarCompra, LeerAnularNota
  <1> QED BY <1>1, <1>2, <1>3, <1>4 DEF Next, vars

LEMMA TypeInicial == Init => TypeOK
  <1> SUFFICES ASSUME Init PROVE TypeOK
    OBVIOUS
  <1>1. TiposStock
    BY InventarioAssumption DEF Init, InitInventario, TiposStock
  <1>2. TiposAjuste
    BY DEF Init, InitInventario, TiposAjuste, EstadosVenta, EstadosAjuste
  <1>3. TiposCompra
    BY DEF Init, TiposCompra, Fila, TiposPago, EstadosEntrega
  <1>4. TiposPeticion /\ nota \in [Notas -> EstadosNota]
    BY LibreEsLectura DEF Init, InitInventario, TiposPeticion, EstadosNota
  <1> QED BY <1>1, <1>2, <1>3, <1>4, PartesDelTipo

LEMMA TypePaso == TypeOK /\ [Next]_vars => TypeOK'
  <1> SUFFICES ASSUME TypeOK, [Next]_vars PROVE TypeOK'
    OBVIOUS
  <1>1. MueveStock /\ MuevePeticion /\ MueveCompra /\ MueveAjuste
    BY PasoDeStock, PasoDePeticion, PasoDeCompra, PasoDeAjuste
  <1>2. TiposStock' /\ TiposCompra' /\ TiposPeticion'
    BY <1>1, StockTipo, CompraTipo, PeticionTipo
  <1>3. TiposAjuste'
    BY <1>1, AjusteTipo, VentaTipo DEF TiposAjuste
  <1>4. nota' \in [Notas -> EstadosNota]
    BY NotaTipo
  <1> QED BY <1>2, <1>3, <1>4
      DEF TypeOK, TypeOKInventario, TiposStock, TiposAjuste, TiposCompra, TiposPeticion, Lecturas

\* Every row, counter and reading of a request has its type.
THEOREM Tipos == Spec => []TypeOK
  BY TypeInicial, TypePaso, PTL DEF Spec

-----------------------------------------------------------------------------
(* The stock.  A sale in progress writes what it read less one, so what it *)
(* read must still be true: of the rows it has locked, because nobody else *)
(* has them; of those that did not exist, because nobody has created them. *)

Vendiendo(q) == peticion[q].op = "venta"

LeidoVigente ==
    \A q \in Peticiones : Vendiendo(q) =>
        LET pide == peticion[q]
        IN  /\ \A pr \in pide.bajoLlave : pide.leida[pr] = existencia[pr]
            /\ \A pr \in ItemsDe[pide.venta] \ (pide.bajoLlave \cup pide.leidos) :
                  pide.leida[pr] = 0

LlavesAparte ==
    \A q, s \in Peticiones :
        Vendiendo(q) /\ Vendiendo(s) /\ q # s =>
            peticion[q].bajoLlave \cap peticion[s].bajoLlave = {}

SinFilaVacia ==
    \A pr \in Productos \ filas : existencia[pr] = 0 /\ libro[pr] = 0

StockInv == LibroCuadra /\ StockNoNegativo /\ LeidoVigente /\ LlavesAparte /\ SinFilaVacia

\* The requests keep the sales in progress as they are, or drop them
VentasViejas ==
    \A q \in Peticiones : peticion'[q].op = "venta" => peticion'[q] = peticion[q]

LEMMA VentasQueSiguen ==
    ASSUME TypeOK, MuevePeticion
    PROVE  \/ VentasViejas
           \/ \E p \in Peticiones, v \in Ventas : EmpezarVenta(p, v)
           \/ \E p \in Peticiones : LeerFilaAjena(p)
  <1>0. TiposPeticion
    BY PartesDelTipo
  <1>1. ASSUME UNCHANGED peticion PROVE VentasViejas
    BY <1>1 DEF VentasViejas
  <1>2. ASSUME NEW p \in Peticiones, Responder(p) PROVE VentasViejas
    BY <1>0, <1>2, ResponderTipo, LibreEsLectura DEF VentasViejas
  <1>3. ASSUME NEW p \in Peticiones, NEW l \in Lecturas, Recordar(p, l), l.op # "venta"
        PROVE  VentasViejas
    BY <1>0, <1>3, RecordarTipo DEF VentasViejas
  <1>4. ASSUME NEW p \in Peticiones, NEW monto \in Pagos, AplicarPago(p, monto)
        PROVE  VentasViejas
    <2> DEFINE l == [op |-> "aplicar", compra |-> peticion[p].compra, monto |-> monto,
                     total |-> pagado[peticion[p].compra] + monto]
    <2>1. l \in Lecturas /\ l.op # "venta" /\ Recordar(p, l)
      BY <1>4, LecturaNueva DEF AplicarPago
    <2> QED BY <1>3, <2>1
  <1> QED BY <1>1, <1>2, <1>3, <1>4 DEF MuevePeticion

\* Rows nobody has locked change, and their movements with them.
LEMMA MoverStock ==
    ASSUME TypeOK, StockInv, NEW S \in SUBSET Productos, NEW n \in Int, Mover(S, n)
    PROVE  /\ LibroCuadra' /\ StockNoNegativo' /\ SinFilaVacia'
           /\ \A q \in Peticiones : Vendiendo(q) =>
                 \A pr \in peticion[q].bajoLlave : existencia'[pr] = existencia[pr]
  <1>1. /\ filas' = filas \cup S /\ sinCandado' = sinCandado
        /\ \A pr \in S : /\ existencia'[pr] = existencia[pr] + n
                         /\ libro'[pr] = libro[pr] + n
                         /\ ~Bloqueado(pr)
                         /\ n < 0 => Admite(pr, existencia[pr] + n)
        /\ \A pr \in Productos \ S : existencia'[pr] = existencia[pr] /\ libro'[pr] = libro[pr]
    BY DEF Mover, TypeOK, TypeOKInventario
  <1>2. \A pr \in Productos : existencia[pr] \in Int /\ libro[pr] \in Int
    BY DEF TypeOK, TypeOKInventario
  <1>3. LibroCuadra'
    BY <1>1, <1>2 DEF StockInv, LibroCuadra
  <1>4. StockNoNegativo'
    BY <1>1, <1>2 DEF StockInv, StockNoNegativo, Admite
  <1>5. SinFilaVacia'
    BY <1>1 DEF StockInv, SinFilaVacia
  <1>6. ASSUME NEW q \in Peticiones, Vendiendo(q), NEW pr \in peticion[q].bajoLlave
        PROVE  existencia'[pr] = existencia[pr]
    <2>1. pr \in Productos
      BY <1>6, LecturaDeOperacion, PartesDelTipo DEF Vendiendo, TiposPeticion
    <2> QED BY <1>1, <1>6, <2>1 DEF Bloqueado, Vendiendo
  <1> QED BY <1>3, <1>4, <1>5, <1>6

\* A sale is written: what it read of the rows it locked, and of those that
\* are not there, is still true.
LEMMA RegistrarStock ==
    ASSUME TypeOK, StockInv, NEW p \in Peticiones, RegistrarVenta(p)
    PROVE  /\ LibroCuadra' /\ StockNoNegativo' /\ SinFilaVacia'
           /\ \A q \in Peticiones \ {p} : Vendiendo(q) =>
                 \A pr \in peticion[q].bajoLlave : existencia'[pr] = existencia[pr]
  <1> DEFINE pide == peticion[p]
             items == ItemsDe[pide.venta]
  <1>1. /\ Vendiendo(p)
        /\ (items \ (pide.bajoLlave \cup pide.leidos)) \cap filas = {}
        /\ \A pr \in items \ pide.bajoLlave : ~Bloqueado(pr)
        /\ \A pr \in items : Admite(pr, pide.leida[pr] - 1)
        /\ filas' = filas \cup items
        /\ existencia' = [pr \in Productos |->
                             IF pr \in items THEN pide.leida[pr] - 1 ELSE existencia[pr]]
        /\ libro' = [pr \in Productos |-> libro[pr] - IF pr \in items THEN 1 ELSE 0]
        /\ sinCandado' = sinCandado \cup pide.leidos
    BY DEF RegistrarVenta, Vendiendo
  <1>2. /\ items \subseteq Productos
        /\ pide.bajoLlave \subseteq Productos
        /\ pide.leida \in [Productos -> Int]
    BY <1>1, LecturaDeOperacion, PartesDelTipo, InventarioAssumption DEF Vendiendo, TiposPeticion
  <1>3. /\ \A pr \in pide.bajoLlave : pide.leida[pr] = existencia[pr]
        /\ \A pr \in items \ (pide.bajoLlave \cup pide.leidos) : pide.leida[pr] = 0
    BY <1>1 DEF StockInv, LeidoVigente
  <1>4. \A pr \in Productos : existencia[pr] \in Int /\ libro[pr] \in Int
    BY DEF TypeOK, TypeOKInventario
  <1>5. LibroCuadra /\ StockNoNegativo /\ SinFilaVacia /\ LlavesAparte
    BY DEF StockInv
  <1>6. ASSUME NEW q \in Peticiones \ {p}, Vendiendo(q), NEW pr \in peticion[q].bajoLlave
        PROVE  existencia'[pr] = existencia[pr]
    <2>1. pr \in Productos
      BY <1>6, LecturaDeOperacion, PartesDelTipo DEF Vendiendo, TiposPeticion
    <2>2. pr \notin pide.bajoLlave
      BY <1>1, <1>5, <1>6 DEF LlavesAparte
    <2>3. pr \notin items
      BY <1>1, <1>6, <2>2 DEF Bloqueado, Vendiendo
    <2> QED BY <1>1, <2>1, <2>3
  <1> HIDE DEF items, pide
  <1>7. ASSUME NEW pr \in Productos \ sinCandado' PROVE existencia'[pr] = libro'[pr]
    <2>1. CASE pr \notin items
      BY <1>1, <1>4, <1>5, <1>7, <2>1 DEF LibroCuadra
    <2>2. CASE pr \in pide.bajoLlave /\ pr \in items
      BY <1>1, <1>3, <1>4, <1>5, <1>7, <2>2 DEF LibroCuadra
    <2>3. CASE pr \in items \ (pide.bajoLlave \cup pide.leidos)
      BY <1>1, <1>3, <1>4, <1>5, <2>3 DEF SinFilaVacia
    <2> QED BY <1>1, <1>7, <2>1, <2>2, <2>3
  <1>8. LibroCuadra'
    BY <1>7 DEF LibroCuadra
  <1>9. StockNoNegativo'
    BY <1>1, <1>4, <1>5 DEF StockNoNegativo, Admite
  <1>10. SinFilaVacia'
    BY <1>1, <1>4, <1>5 DEF SinFilaVacia
  <1> QED BY <1>6, <1>8, <1>9, <1>10

\* A sale begins: the rows that exist are locked by nobody, and from now on by it.
LEMMA EmpezarStock ==
    ASSUME TypeOK, StockInv, NEW p \in Peticiones, NEW v \in Ventas, EmpezarVenta(p, v)
    PROVE  StockInv'
  <1> DEFINE l == [op |-> "venta", venta |-> v, leida |-> existencia,
                   bajoLlave |-> ItemsDe[v] \cap filas, leidos |-> {}]
  <1>1. /\ UNCHANGED varsStock /\ Recordar(p, l)
        /\ \A pr \in ItemsDe[v] : ~Bloqueado(pr)
    BY DEF EmpezarVenta
  <1>2. /\ peticion'[p] = l
        /\ \A q \in Peticiones \ {p} : peticion'[q] = peticion[q]
    BY <1>1, LecturaNueva, RecordarTipo, PartesDelTipo
  <1>3. LibroCuadra' /\ StockNoNegativo' /\ SinFilaVacia'
    BY <1>1 DEF StockInv, LibroCuadra, StockNoNegativo, SinFilaVacia, varsStock
  <1>4. /\ peticion'[p].venta = v /\ peticion'[p].leida = existencia
        /\ peticion'[p].bajoLlave = ItemsDe[v] \cap filas /\ peticion'[p].leidos = {}
    BY <1>2
  <1> HIDE DEF l
  <1>5. LeidoVigente'
    <2>1. \A pr \in ItemsDe[v] \ filas : existencia[pr] = 0
      BY InventarioAssumption DEF StockInv, SinFilaVacia
    <2> QED BY <1>1, <1>2, <1>4, <2>1 DEF StockInv, LeidoVigente, Vendiendo, varsStock
  <1>6. LlavesAparte'
    <2>1. ASSUME NEW q \in Peticiones \ {p}, Vendiendo(q)
          PROVE  peticion[q].bajoLlave \cap (ItemsDe[v] \cap filas) = {}
      BY <1>1, <2>1 DEF Bloqueado, Vendiendo
    <2> QED BY <1>2, <1>4, <2>1 DEF StockInv, LlavesAparte, Vendiendo
  <1> QED BY <1>3, <1>5, <1>6 DEF StockInv

LEMMA LeerFilaStock ==
    ASSUME TypeOK, StockInv, NEW p \in Peticiones, LeerFilaAjena(p)
    PROVE  StockInv'
  <1>1. PICK pr \in Productos \ (peticion[p].bajoLlave \cup peticion[p].leidos) :
              /\ peticion'[p].op = "venta" /\ peticion'[p].venta = peticion[p].venta
              /\ peticion'[p].bajoLlave = peticion[p].bajoLlave
              /\ peticion'[p].leidos = peticion[p].leidos \cup {pr}
              /\ peticion'[p].leida = [peticion[p].leida EXCEPT ![pr] = existencia[pr]]
    BY FilaAjenaEfecto
  <1>2. /\ UNCHANGED <<filas, existencia, libro, sinCandado>>
        /\ Vendiendo(p)
        /\ \A q \in Peticiones \ {p} : peticion'[q] = peticion[q]
    BY FilaAjenaEfecto DEF Vendiendo
  <1>3. /\ peticion[p].leida \in [Productos -> Int]
        /\ peticion[p].bajoLlave \subseteq Productos
        /\ ItemsDe[peticion[p].venta] \subseteq Productos
    BY <1>2, LecturaDeOperacion, PartesDelTipo, InventarioAssumption
    DEF Vendiendo, TiposPeticion
  <1>4. \A x \in Productos : x # pr => peticion'[p].leida[x] = peticion[p].leida[x]
    BY <1>1, <1>3
  <1>5. LeidoVigente'
    BY <1>1, <1>2, <1>3, <1>4 DEF StockInv, LeidoVigente, Vendiendo
  <1>6. LlavesAparte'
    BY <1>1, <1>2 DEF StockInv, LlavesAparte, Vendiendo
  <1>7. LibroCuadra' /\ StockNoNegativo' /\ SinFilaVacia'
    BY <1>2 DEF StockInv, LibroCuadra, StockNoNegativo, SinFilaVacia
  <1> QED BY <1>5, <1>6, <1>7 DEF StockInv

LEMMA StockPaso == TypeOK /\ StockInv /\ [Next]_vars => StockInv'
  <1> SUFFICES ASSUME TypeOK, StockInv, [Next]_vars PROVE StockInv'
    OBVIOUS
  <1>1. MueveStock /\ MuevePeticion
    BY PasoDeStock, PasoDePeticion
  <1>2. ASSUME VentasViejas,
               LibroCuadra', StockNoNegativo', SinFilaVacia',
               \A q \in Peticiones : peticion'[q].op = "venta" =>
                  \A pr \in peticion[q].bajoLlave : existencia'[pr] = existencia[pr]
        PROVE  StockInv'
    <2>1. LeidoVigente'
      BY <1>2 DEF StockInv, LeidoVigente, Vendiendo, VentasViejas
    <2>2. LlavesAparte'
      BY <1>2 DEF StockInv, LlavesAparte, Vendiendo, VentasViejas
    <2> QED BY <1>2, <2>1, <2>2 DEF StockInv
  <1>3. ASSUME VentasViejas PROVE StockInv'
    <2>1. \A q \in Peticiones : peticion'[q].op = "venta" => Vendiendo(q)
      BY <1>3 DEF VentasViejas, Vendiendo
    <2>2. CASE UNCHANGED varsStock
      <3>1. LibroCuadra' /\ StockNoNegativo' /\ SinFilaVacia'
        BY <2>2 DEF StockInv, LibroCuadra, StockNoNegativo, SinFilaVacia, varsStock
      <3> QED BY <1>2, <1>3, <2>2, <3>1 DEF varsStock
    <2>3. ASSUME NEW S \in SUBSET Productos, NEW n \in Int, Mover(S, n) PROVE StockInv'
      BY <1>2, <1>3, <2>1, <2>3, MoverStock
    <2>4. ASSUME NEW p \in Peticiones, RegistrarVenta(p) PROVE StockInv'
      <3>1. peticion'[p] = Libre
        BY <2>4, ResponderTipo, PartesDelTipo DEF RegistrarVenta
      <3> QED BY <1>2, <1>3, <2>1, <2>4, <3>1, RegistrarStock, LibreEsLectura
    <2> QED BY <1>1, <2>2, <2>3, <2>4 DEF MueveStock
  <1> QED BY <1>1, <1>3, VentasQueSiguen, EmpezarStock, LeerFilaStock

\* The shelf holds what the movements say, and nothing that may not go below
\* zero does, whatever sales, annulments, adjustments, purchases and credit
\* notes overlap; products whose first row appeared during a sale apart.
THEOREM StockSeguro == Spec => []StockCuadra
  <1>1. Init => StockInv
    <2> SUFFICES ASSUME Init PROVE StockInv
      OBVIOUS
    <2>1. \A q \in Peticiones : ~Vendiendo(q)
      BY DEF Init, InitInventario, Vendiendo, Libre
    <2>2. LibroCuadra /\ StockNoNegativo /\ SinFilaVacia
      BY InventarioAssumption
      DEF Init, InitInventario, LibroCuadra, StockNoNegativo, SinFilaVacia
    <2> QED BY <2>1, <2>2 DEF StockInv, LeidoVigente, LlavesAparte
  <1>2. StockInv => StockCuadra
    BY DEF StockInv, StockCuadra
  <1> QED BY <1>1, <1>2, Tipos, StockPaso, PTL DEF Spec

-----------------------------------------------------------------------------
(* Adjustments *)

AjusteInv ==
    /\ AjusteAplicadoUnaVez
    /\ \A a \in Ajustes \ aMano : ajuste[a] = "NINGUNO" => aplicado[a] = 0

LEMMA AjustePaso == TypeOK /\ AjusteInv /\ [Next]_vars => AjusteInv'
  <1> SUFFICES ASSUME TypeOK, AjusteInv, [Next]_vars PROVE AjusteInv'
    OBVIOUS
  <1>1. MueveAjuste
    BY PasoDeAjuste
  <1>2. /\ ajuste \in [Ajustes -> EstadosAjuste] /\ aplicado \in [Ajustes -> Nat]
    BY DEF TypeOK, TypeOKInventario
  <1>3. UNCHANGED varsAjuste => AjusteInv'
    BY DEF AjusteInv, AjusteAplicadoUnaVez, varsAjuste
  <1>4. ASSUME NEW a \in Ajustes, CrearAjuste(a) \/ EliminarAjuste(a) PROVE AjusteInv'
    BY <1>2, <1>4 DEF AjusteInv, AjusteAplicadoUnaVez, CrearAjuste, EliminarAjuste
  <1>5. ASSUME NEW p \in Peticiones, Aprobar(p) \/ Rechazar(p) \/ EditarAjuste(p)
        PROVE  AjusteInv'
    <2>1. peticion[p].ajuste \in Ajustes
      BY <1>5, LecturaDeOperacion, PartesDelTipo
      DEF Aprobar, Rechazar, EditarAjuste, TiposPeticion, DeAjuste
    <2>2. CASE Aprobar(p)
      BY <1>2, <2>1, <2>2 DEF AjusteInv, AjusteAplicadoUnaVez, Aprobar, SiguePendiente
    <2>3. CASE Rechazar(p)
      BY <1>2, <2>1, <2>3 DEF AjusteInv, AjusteAplicadoUnaVez, Rechazar
    <2>4. CASE EditarAjuste(p)
      BY <1>2, <2>1, <2>4 DEF AjusteInv, AjusteAplicadoUnaVez, EditarAjuste
    <2> QED BY <1>5, <2>2, <2>3, <2>4
  <1> QED BY <1>1, <1>3, <1>4, <1>5 DEF MueveAjuste

-----------------------------------------------------------------------------
(* Purchases *)

\* What a purchase nobody has written by hand has brought in, sent out and owes
CompraEnOrden(c) ==
    /\ egresos[c] <= ingresos[c]
    /\ ingresos[c] <= 1
    /\ egresos[c] = 1 => debe[c] = 0
    /\ debe[c] \in {0, Total}
    /\ compra[c].pago = "NINGUNA" =>
          /\ ingresos[c] = 0 /\ debe[c] = 0 /\ pagado[c] = 0
          /\ compra[c].entrega = "PENDIENTE"
    /\ compra[c].entrega = "PENDIENTE" => ingresos[c] = 0
    /\ Existe(c) /\ Anulable(c) =>
          /\ egresos[c] = 0
          /\ debe[c] = IF compra[c].tipo = "CREDITO" THEN Total ELSE 0
    /\ compra[c].pago = "PAGADO" /\ compra[c].tipo = "CREDITO" => pagado[c] >= Total

\* What a payment in progress is going to add
PagosEnOrden ==
    \A q \in Peticiones : peticion[q].op = "aplicar" =>
        LET c == peticion[q].compra
        IN  /\ peticion[q].monto > 0
            /\ c \notin editadas => peticion[q].total <= pagado[c] + peticion[q].monto

CompraInv == PagosEnOrden /\ \A c \in Compras \ editadas : CompraEnOrden(c)

\* What has been paid only shrinks by hand, and a purchase written by hand stays so.
LEMMA PagadoCrece ==
    ASSUME TypeOK, MueveCompra
    PROVE  /\ editadas \subseteq editadas'
           /\ \A c \in Compras \ editadas' : pagado'[c] >= pagado[c]
  <1>1. TiposPeticion /\ pagado \in [Compras -> Nat]
    BY PartesDelTipo DEF TiposCompra
  <1>2. CASE UNCHANGED varsCompra
    BY <1>1, <1>2 DEF varsCompra
  <1>3. ASSUME NEW c \in Compras, NEW tipo \in TiposPago,
               RegistrarCompra(c, tipo) \/ AnularCompra(c)
        PROVE  UNCHANGED <<pagado, editadas>>
    BY <1>3 DEF RegistrarCompra, AnularCompra
  <1>4. ASSUME NEW c \in Compras, AnularCompra(c) PROVE UNCHANGED <<pagado, editadas>>
    BY <1>4 DEF AnularCompra
  <1>5. ASSUME NEW c \in Compras, EliminarPagos(c) \/ EliminarCompra(c)
        PROVE  /\ editadas \subseteq editadas'
               /\ \A k \in Compras \ editadas' : pagado'[k] >= pagado[k]
    BY <1>1, <1>5 DEF EliminarPagos, EliminarCompra
  <1>6. ASSUME NEW p \in Peticiones, ConfirmarCompra(p) PROVE UNCHANGED <<pagado, editadas>>
    BY <1>6 DEF ConfirmarCompra
  <1>7. ASSUME NEW p \in Peticiones, EditarCompra(p)
        PROVE  pagado' = pagado /\ editadas \subseteq editadas'
    BY <1>7 DEF EditarCompra
  <1>8. ASSUME NEW p \in Peticiones, TerminarPago(p)
        PROVE  editadas' = editadas /\ \A k \in Compras : pagado'[k] >= pagado[k]
    <2>1. peticion[p].compra \in Compras /\ peticion[p].monto \in Nat
      BY <1>1, <1>8, LecturaDeOperacion DEF TerminarPago, TiposPeticion, DeCompra
    <2> QED BY <1>1, <1>8, <2>1 DEF TerminarPago
  <1> QED BY <1>1, <1>2, <1>3, <1>4, <1>5, <1>6, <1>7, <1>8 DEF MueveCompra

LEMMA PagosPaso == TypeOK /\ PagosEnOrden /\ [Next]_vars => PagosEnOrden'
  <1> SUFFICES ASSUME TypeOK, PagosEnOrden, [Next]_vars,
                      NEW q \in Peticiones, peticion'[q].op = "aplicar"
               PROVE  /\ peticion'[q].monto > 0
                      /\ peticion'[q].compra \notin editadas' =>
                            peticion'[q].total <= pagado'[peticion'[q].compra] + peticion'[q].monto
    BY DEF PagosEnOrden
  <1>0. TiposPeticion /\ MuevePeticion /\ MueveCompra
    BY PartesDelTipo, PasoDePeticion, PasoDeCompra
  <1>1. CASE peticion'[q] = peticion[q]
    <2> PICK c \in Compras : c = peticion[q].compra
      BY <1>0, <1>1, LecturaDeOperacion DEF TiposPeticion, DeCompra
    <2>1. /\ peticion[q].monto > 0 /\ peticion[q].monto \in Nat /\ peticion[q].total \in Nat
          /\ c \notin editadas => peticion[q].total <= pagado[c] + peticion[q].monto
      BY <1>0, <1>1, LecturaDeOperacion DEF PagosEnOrden, TiposPeticion
    <2>2. /\ editadas \subseteq editadas'
          /\ c \notin editadas' => pagado'[c] >= pagado[c]
      BY <1>0, PagadoCrece
    <2>3. pagado[c] \in Nat /\ pagado'[c] \in Nat
      BY <1>0, CompraTipo, PartesDelTipo DEF TiposCompra
    <2> QED BY <1>1, <2>1, <2>2, <2>3
  <1>2. ASSUME NEW monto \in Pagos, AplicarPago(q, monto)
        PROVE  /\ peticion'[q].monto > 0
               /\ peticion'[q].total <= pagado'[peticion'[q].compra] + peticion'[q].monto
    <2> PICK c \in Compras : c = peticion[q].compra
      BY <1>0, <1>2, LecturaDeOperacion DEF AplicarPago, TiposPeticion, DeCompra
    <2>1. /\ Recordar(q, [op |-> "aplicar", compra |-> c, monto |-> monto,
                          total |-> pagado[c] + monto])
          /\ pagado' = pagado
      BY <1>2 DEF AplicarPago, varsCompra
    <2>2. /\ peticion'[q].monto = monto /\ peticion'[q].compra = c
          /\ peticion'[q].total = pagado[c] + monto
      BY <1>0, <2>1 DEF Recordar, TiposPeticion
    <2>3. monto \in Nat /\ monto > 0 /\ pagado[c] \in Nat
      BY ComprasAssumption DEF TypeOK
    <2> QED BY <2>1, <2>2, <2>3
  <1>3. \/ peticion'[q] = peticion[q]
        \/ \E monto \in Pagos : AplicarPago(q, monto)
    <2>1. ASSUME NEW p \in Peticiones, Responder(p) PROVE peticion'[q] = peticion[q]
      BY <1>0, <2>1, ResponderTipo, LibreEsLectura
    <2>2. ASSUME NEW p \in Peticiones, NEW l \in Lecturas, Recordar(p, l), l.op # "aplicar"
          PROVE  peticion'[q] = peticion[q]
      BY <1>0, <2>2, RecordarTipo
    <2>3. ASSUME NEW p \in Peticiones, NEW v \in Ventas, EmpezarVenta(p, v)
          PROVE  peticion'[q] = peticion[q]
      <3> DEFINE l == [op |-> "venta", venta |-> v, leida |-> existencia,
                       bajoLlave |-> ItemsDe[v] \cap filas, leidos |-> {}]
      <3>1. l \in Lecturas /\ l.op # "aplicar" /\ Recordar(p, l)
        BY <2>3, LecturaNueva DEF EmpezarVenta
      <3> QED BY <2>2, <3>1
    <2>4. ASSUME NEW p \in Peticiones, LeerFilaAjena(p) PROVE peticion'[q] = peticion[q]
      BY <2>4, FilaAjenaEfecto
    <2>5. ASSUME NEW p \in Peticiones, NEW monto \in Pagos, AplicarPago(p, monto)
          PROVE  p = q \/ peticion'[q] = peticion[q]
      BY <1>0, <2>5, RecordarTipo, LecturaNueva DEF AplicarPago
    <2> QED BY <1>0, <2>1, <2>2, <2>3, <2>4, <2>5 DEF MuevePeticion
  <1> QED BY <1>1, <1>2, <1>3

LEMMA CompraPaso ==
    TypeOK /\ CompraInv /\ [Next]_vars => \A c \in Compras \ editadas' : CompraEnOrden(c)'
  <1> SUFFICES ASSUME TypeOK, CompraInv, [Next]_vars, NEW c \in Compras, c \notin editadas'
               PROVE  CompraEnOrden(c)'
    OBVIOUS
  <1>0. TiposPeticion /\ TiposCompra /\ MueveCompra
    BY PartesDelTipo, PasoDeCompra
  <1>1. c \notin editadas /\ CompraEnOrden(c)
    BY <1>0, PagadoCrece DEF CompraInv
  <1>2. /\ ingresos[c] \in Nat /\ egresos[c] \in Nat /\ pagado[c] \in Nat /\ debe[c] \in Int
        /\ compra[c] \in Fila /\ Total \in Nat /\ Total > 0
    BY <1>0, ComprasAssumption DEF TiposCompra
  <1>3. ASSUME compra'[c] = compra[c], ingresos'[c] = ingresos[c], egresos'[c] = egresos[c],
               debe'[c] = debe[c], pagado'[c] = pagado[c]
        PROVE  CompraEnOrden(c)'
    BY <1>1, <1>3 DEF CompraEnOrden, Existe, Anulable
  <1>4. ASSUME NEW k \in Compras, NEW tipo \in TiposPago, RegistrarCompra(k, tipo)
        PROVE  CompraEnOrden(c)'
    <2>1. CASE k # c
      BY <1>0, <1>3, <1>4, <2>1 DEF RegistrarCompra, IngresarMercaderia, TiposCompra
    <2>2. CASE k = c /\ tipo = "CONTADO"
      <3>1. /\ compra'[c] = [tipo |-> "CONTADO", pago |-> "PAGADO", entrega |-> "RECIBIDA"]
            /\ ingresos'[c] = ingresos[c] + 1 /\ debe'[c] = debe[c]
            /\ egresos'[c] = egresos[c] /\ pagado'[c] = pagado[c]
            /\ compra[c].pago = "NINGUNA"
        BY <1>0, <1>4, <2>2 DEF RegistrarCompra, IngresarMercaderia, TiposCompra
      <3> QED BY <1>1, <1>2, <3>1 DEF CompraEnOrden, Existe, Anulable, EstadosPago
    <2>3. CASE k = c /\ tipo = "CREDITO"
      <3>1. /\ compra'[c] = [tipo |-> "CREDITO", pago |-> "PENDIENTE", entrega |-> "PENDIENTE"]
            /\ ingresos'[c] = ingresos[c] /\ debe'[c] = debe[c] + Total
            /\ egresos'[c] = egresos[c] /\ pagado'[c] = pagado[c]
            /\ compra[c].pago = "NINGUNA"
        BY <1>0, <1>2, <1>4, <2>3 DEF RegistrarCompra, TiposCompra
      <3> QED BY <1>1, <1>2, <3>1 DEF CompraEnOrden, Existe, Anulable, EstadosPago
    <2> QED BY <2>1, <2>2, <2>3 DEF TiposPago
  <1>5. ASSUME NEW k \in Compras, AnularCompra(k) PROVE CompraEnOrden(c)'
    <2>1. CASE k # c
      <3>1. /\ compra'[c] = compra[c] /\ ingresos'[c] = ingresos[c] /\ pagado'[c] = pagado[c]
            /\ debe'[c] = debe[c]
        BY <1>0, <1>5, <2>1 DEF AnularCompra, TiposCompra
      <3>2. egresos'[c] = egresos[c]
        BY <1>0, <1>5, <2>1 DEF AnularCompra, TiposCompra
      <3> QED BY <1>3, <3>1, <3>2
    <2>2. CASE k = c
      <3>1. /\ compra'[c] = [compra[c] EXCEPT !.pago = "ANULADA"]
            /\ ingresos'[c] = ingresos[c] /\ pagado'[c] = pagado[c] /\ Existe(c) /\ Anulable(c)
            /\ debe'[c] = IF compra[c].tipo = "CREDITO" THEN debe[c] - Total ELSE debe[c]
        BY <1>0, <1>5, <2>2 DEF AnularCompra, TiposCompra
      <3>2. egresos'[c] = IF compra[c].tipo = "CONTADO" \/ compra[c].entrega = "RECIBIDA"
                          THEN egresos[c] + ingresos[c] ELSE egresos[c]
        BY <1>0, <1>5, <2>2 DEF AnularCompra, TiposCompra
      <3>3. compra'[c].pago = "ANULADA" /\ compra'[c].tipo = compra[c].tipo
            /\ compra'[c].entrega = compra[c].entrega
        BY <1>2, <3>1 DEF Fila
      <3>4. egresos[c] = 0 /\ debe[c] = IF compra[c].tipo = "CREDITO" THEN Total ELSE 0
        BY <1>1, <3>1 DEF CompraEnOrden
      <3>5. debe'[c] = 0 /\ egresos'[c] \in {0, ingresos[c]}
        BY <1>2, <3>1, <3>2, <3>4
      <3> QED BY <1>1, <1>2, <3>1, <3>3, <3>5 DEF CompraEnOrden, Existe, Anulable
    <2> QED BY <2>1, <2>2
  <1>6. ASSUME NEW k \in Compras, EliminarPagos(k) PROVE CompraEnOrden(c)'
    BY <1>0, <1>3, <1>6 DEF EliminarPagos, TiposCompra
  <1>7. ASSUME NEW k \in Compras, EliminarCompra(k) PROVE CompraEnOrden(c)'
    BY <1>0, <1>3, <1>7 DEF EliminarCompra, TiposCompra
  <1>8. ASSUME NEW p \in Peticiones, ConfirmarCompra(p) PROVE CompraEnOrden(c)'
    <2> PICK k \in Compras : k = peticion[p].compra
      BY <1>0, <1>8, LecturaDeOperacion DEF ConfirmarCompra, TiposPeticion, DeCompra
    <2>1. CASE k # c
      BY <1>0, <1>3, <1>8, <2>1 DEF ConfirmarCompra, IngresarMercaderia, TiposCompra
    <2>2. CASE k = c
      <3>1. /\ compra'[c] = [compra[c] EXCEPT !.entrega = "RECIBIDA"]
            /\ ingresos'[c] = ingresos[c] + 1 /\ debe'[c] = debe[c]
            /\ egresos'[c] = egresos[c] /\ pagado'[c] = pagado[c]
            /\ Existe(c) /\ compra[c].entrega = "PENDIENTE"
        BY <1>0, <1>8, <2>2
        DEF ConfirmarCompra, IngresarMercaderia, PorRecibir, TiposCompra
      <3>2. compra'[c].pago = compra[c].pago /\ compra'[c].tipo = compra[c].tipo
            /\ compra'[c].entrega = "RECIBIDA"
        BY <1>2, <3>1 DEF Fila
      <3> QED BY <1>1, <1>2, <3>1, <3>2 DEF CompraEnOrden, Existe, Anulable, EstadosPago
    <2> QED BY <2>1, <2>2
  <1>9. ASSUME NEW p \in Peticiones, TerminarPago(p) PROVE CompraEnOrden(c)'
    <2> PICK k \in Compras : k = peticion[p].compra
      BY <1>0, <1>9, LecturaDeOperacion DEF TerminarPago, TiposPeticion, DeCompra
    <2>1. CASE k # c
      BY <1>0, <1>3, <1>9, <2>1 DEF TerminarPago, TiposCompra
    <2>2. CASE k = c
      <3>1. /\ peticion[p].op = "aplicar"
            /\ compra'[c] = [compra[c] EXCEPT !.pago = EstadoSegun(peticion[p].total)]
            /\ ingresos'[c] = ingresos[c] /\ debe'[c] = debe[c] /\ egresos'[c] = egresos[c]
            /\ pagado'[c] = pagado[c] + peticion[p].monto /\ Existe(c)
        BY <1>0, <1>9, <2>2 DEF TerminarPago, TiposCompra
      <3>2. /\ peticion[p].monto \in Nat /\ peticion[p].monto > 0 /\ peticion[p].total \in Nat
            /\ peticion[p].total <= pagado[c] + peticion[p].monto
        BY <1>0, <1>1, <2>2, <3>1, LecturaDeOperacion DEF CompraInv, PagosEnOrden, TiposPeticion
      <3>3. /\ compra'[c].pago = EstadoSegun(peticion[p].total)
            /\ compra'[c].tipo = compra[c].tipo /\ compra'[c].entrega = compra[c].entrega
        BY <1>2, <3>1 DEF Fila
      <3>4. /\ compra'[c].pago # "NINGUNA" /\ pagado'[c] # 0
            /\ compra'[c].pago = "PAGADO" => pagado'[c] >= Total
        BY <1>2, <3>1, <3>2, <3>3 DEF EstadoSegun
      <3> QED BY <1>1, <1>2, <3>1, <3>3, <3>4 DEF CompraEnOrden, Existe, Anulable
    <2> QED BY <2>1, <2>2
  <1>10. ASSUME NEW p \in Peticiones, EditarCompra(p) PROVE CompraEnOrden(c)'
    <2>1. peticion[p].compra \in Compras
      BY <1>0, <1>10, LecturaDeOperacion DEF EditarCompra, TiposPeticion, DeCompra
    <2> QED BY <1>0, <1>3, <1>10, <2>1 DEF EditarCompra, TiposCompra
  <1>11. UNCHANGED varsCompra => CompraEnOrden(c)'
    BY <1>3 DEF varsCompra
  <1> QED BY <1>0, <1>4, <1>5, <1>6, <1>7, <1>8, <1>9, <1>10, <1>11 DEF MueveCompra

LEMMA CompraInicial == Init => AjusteInv /\ CompraInv
  <1> SUFFICES ASSUME Init PROVE AjusteInv /\ CompraInv
    OBVIOUS
  <1>1. AjusteInv
    BY DEF Init, InitInventario, AjusteInv, AjusteAplicadoUnaVez
  <1>2. PagosEnOrden
    BY DEF Init, InitInventario, PagosEnOrden, Libre
  <1>3. \A c \in Compras : CompraEnOrden(c)
    BY ComprasAssumption DEF Init, CompraEnOrden, Existe, EstadosPago
  <1> QED BY <1>1, <1>2, <1>3 DEF CompraInv

LEMMA ComprasInvariante == Spec => [](TypeOK /\ AjusteInv /\ CompraInv)
  <1>1. TypeOK /\ CompraInv /\ [Next]_vars => CompraInv'
    BY PagosPaso, CompraPaso DEF CompraInv
  <1> QED BY <1>1, CompraInicial, Tipos, AjustePaso, PTL DEF Spec

\* No approval, reception or annulment is applied twice to the stock, and what
\* has gone out again is not owed any more, by any number of them at once.
THEOREM AplicadoSeguro == Spec => []AplicadoUnaVez
  <1>1. AjusteInv /\ CompraInv => AplicadoUnaVez
    BY DEF AjusteInv, CompraInv, CompraEnOrden, AplicadoUnaVez, MercaderiaUnaVez
  <1> QED BY <1>1, ComprasInvariante, PTL

\* A credit purchase that says PAGADO has been paid, whatever payments overlap.
THEOREM PagadaSegura == Spec => []PagadaCubierta
  <1>1. CompraInv => PagadaCubierta
    BY DEF CompraInv, CompraEnOrden, PagadaCubierta
  <1> QED BY <1>1, ComprasInvariante, PTL
=============================================================================
