----------------------- MODULE CuentaCorrienteProofs -----------------------
(***************************************************************************)
(* Proofs about the current account, for every set of clients, documents,  *)
(* amounts and concurrent requests.                                        *)
(***************************************************************************)
EXTENDS CuentaCorriente, TLAPS

-----------------------------------------------------------------------------
(* Types *)

\* What a leaf needs to know of a request in progress.
LEMMA LecturaDeOperacion ==
    ASSUME NEW p \in Peticiones, peticion[p] \in Lecturas
    PROVE  /\ peticion[p].op \in PorFila \cup PorCliente
                => /\ peticion[p].doc \in Documentos
                   /\ peticion[p].fila \in Fila
                   /\ peticion[p].anterior \in Int
           /\ peticion[p].op = "convenido"
                => peticion[p].doc \in Documentos /\ peticion[p].fila \in Fila
           /\ peticion[p].op = "anular" => peticion[p].doc \in Documentos
           /\ peticion[p].op = "editar"
                => peticion[p].doc \in Documentos /\ peticion[p].fila \in Fila
  BY DEF Lecturas, Libre, PorFila, PorCliente

\* The sign of a document is 1 or -1.
LEMMA SignoEntero ==
    ASSUME NEW tipo, NEW monto \in Int
    PROVE  /\ Signo(tipo) \in {1, -1}
           /\ Signo(tipo) * monto \in Int
  BY DEF Signo

\* A row of the account: the client's sums grow by delta, the chain goes on
\* from the balance the request held, every other client is untouched.
LEMMA AsentarEfecto ==
    ASSUME TypeOK, NEW d \in Documentos, NEW origen \in Origenes,
           NEW delta \in Int, NEW anterior \in Int,
           Asentar(d, origen, delta, anterior)
    PROVE  /\ saldo' \in [Clientes -> [Origenes -> Int]]
           /\ ultimo' \in [Clientes -> Int]
           /\ efecto' = [efecto EXCEPT ![d] = efecto[d] + delta]
           /\ efecto' \in [Documentos -> Int]
           /\ ClienteDe[d] \in Clientes
           /\ ultimo'[ClienteDe[d]] = anterior + delta
           /\ Deuda(ClienteDe[d])' = Deuda(ClienteDe[d]) + delta
           /\ \A c \in Clientes \ {ClienteDe[d]} :
                 ultimo'[c] = ultimo[c] /\ Deuda(c)' = Deuda(c)
  <1> DEFINE k == ClienteDe[d]
  <1>1. k \in Clientes
    BY CuentaAssumption
  <1>2. /\ saldo' = [saldo EXCEPT ![k] = [saldo[k] EXCEPT ![origen] = saldo[k][origen] + delta]]
        /\ ultimo' = [ultimo EXCEPT ![k] = anterior + delta]
        /\ efecto' = [efecto EXCEPT ![d] = efecto[d] + delta]
    BY DEF Asentar
  <1>3. saldo[k] \in [Origenes -> Int] /\ efecto[d] \in Int
    BY <1>1 DEF TypeOK
  <1>4. saldo' \in [Clientes -> [Origenes -> Int]]
    BY <1>1, <1>2, <1>3 DEF TypeOK
  <1>5. ultimo' \in [Clientes -> Int] /\ efecto' \in [Documentos -> Int]
    BY <1>1, <1>2, <1>3 DEF TypeOK
  <1>6. saldo'[k] = [saldo[k] EXCEPT ![origen] = saldo[k][origen] + delta]
    BY <1>1, <1>2 DEF TypeOK
  <1>7. Deuda(k)' = Deuda(k) + delta
    BY <1>3, <1>6 DEF Deuda, Origenes
  <1>8. ultimo'[k] = anterior + delta
    BY <1>1, <1>2 DEF TypeOK
  <1>9. \A c \in Clientes \ {k} : ultimo'[c] = ultimo[c] /\ saldo'[c] = saldo[c]
    BY <1>2 DEF TypeOK
  <1>10. \A c \in Clientes \ {k} : Deuda(c)' = Deuda(c)
    BY <1>9 DEF Deuda
  <1> QED BY <1>1, <1>2, <1>4, <1>5, <1>7, <1>8, <1>9, <1>10

LEMMA TypeInicial == Init => TypeOK
  BY CuentaAssumption
  DEF Init, TypeOK, Fila, Estados, Origenes, Lecturas, Libre

\* Remembering a well-formed reading, or answering, keeps the type.
LEMMA TipoDePeticion ==
    ASSUME TypeOK, NEW p \in Peticiones, NEW l \in Lecturas,
           peticion' = [peticion EXCEPT ![p] = l]
    PROVE  peticion' \in [Peticiones -> Lecturas]
  BY DEF TypeOK

LEMMA TipoDeUltimo ==
    ASSUME TypeOK, NEW p \in Peticiones, NEW op \in PorFila \cup PorCliente,
           NEW d \in Documentos, NEW fila \in Fila, LeerUltimo(p, op, d, fila)
    PROVE  peticion' \in [Peticiones -> Lecturas] /\ cruzada' \subseteq Clientes
  <1>1. ClienteDe[d] \in Clientes /\ ultimo[ClienteDe[d]] \in Int
    BY CuentaAssumption DEF TypeOK
  <1> DEFINE l == [op |-> op, doc |-> d, fila |-> fila, anterior |-> ultimo[ClienteDe[d]]]
  <1>2. l \in Lecturas
    BY <1>1 DEF Lecturas
  <1>3. peticion' = [peticion EXCEPT ![p] = l]
    BY DEF LeerUltimo, Recordar
  <1>4. peticion' \in [Peticiones -> Lecturas]
    <2> HIDE DEF l
    <2> QED BY <1>2, <1>3, TipoDePeticion
  <1>5. cruzada' \subseteq Clientes
    BY <1>1 DEF LeerUltimo, TypeOK
  <1> QED BY <1>4, <1>5

LEMMA FilaVigente ==
    ASSUME NEW monto \in Montos, NEW origen \in Origenes
    PROVE  Vigente(monto, origen) \in Fila
  BY CuentaAssumption DEF Vigente, Fila, Estados

\* Inserting a document with its row
LEMMA IngresarEfecto ==
    ASSUME TypeOK, NEW p \in Peticiones,
           peticion[p].op \in {"venta", "nota", "cobro"},
           Ingresar(p, peticion[p].doc)
    PROVE  LET d == peticion[p].doc
               delta == Signo(TipoDe[d]) * peticion[p].fila.monto
           IN  /\ TypeOK'
               /\ d \in Documentos
               /\ peticion[p].fila \in Fila
               /\ delta \in Int
               /\ peticion[p].anterior \in Int
               /\ doc' = [doc EXCEPT ![d] = peticion[p].fila]
               /\ Asentar(d, peticion[p].fila.origen, delta, peticion[p].anterior)
               /\ peticion[p].fila.origen \in Origenes
               /\ peticion' = [peticion EXCEPT ![p] = Libre]
               /\ UNCHANGED <<ediciones, cruzada>>
  <1> DEFINE d == peticion[p].doc
             fila == peticion[p].fila
             delta == Signo(TipoDe[d]) * fila.monto
  <1>1. /\ d \in Documentos /\ fila \in Fila /\ peticion[p].anterior \in Int
    BY LecturaDeOperacion DEF TypeOK, PorFila, PorCliente
  <1>2. fila.monto \in Int /\ fila.origen \in Origenes
    BY <1>1 DEF Fila
  <1>3. delta \in Int
    BY <1>2, SignoEntero
  <1>4. /\ doc' = [doc EXCEPT ![d] = fila]
        /\ Asentar(d, fila.origen, delta, peticion[p].anterior)
        /\ peticion' = [peticion EXCEPT ![p] = Libre]
        /\ UNCHANGED <<ediciones, cruzada>>
    BY DEF Ingresar, Responder
  <1>5. /\ saldo' \in [Clientes -> [Origenes -> Int]]
        /\ ultimo' \in [Clientes -> Int]
        /\ efecto' \in [Documentos -> Int]
    <2> HIDE DEF d, fila, delta
    <2> QED BY <1>1, <1>2, <1>3, <1>4, AsentarEfecto DEF d
  <1>6. doc' \in [Documentos -> Fila]
    BY <1>1, <1>4 DEF TypeOK
  <1>7. peticion' \in [Peticiones -> Lecturas]
    BY <1>4, TipoDePeticion DEF Lecturas
  <1> QED BY <1>1, <1>2, <1>3, <1>4, <1>5, <1>6, <1>7 DEF TypeOK

\* Undoing a document
LEMMA RevertirEfecto ==
    ASSUME TypeOK, NEW p \in Peticiones, Revertir(p)
    PROVE  LET d == peticion[p].doc
               delta == -(Signo(TipoDe[d]) * peticion[p].fila.monto)
           IN  /\ TypeOK'
               /\ d \in Documentos
               /\ peticion[p].op = "revertir"
               /\ peticion[p].fila \in Fila
               /\ delta \in Int
               /\ peticion[p].anterior \in Int
               /\ doc' = [doc EXCEPT ![d].estado = "ANULADO"]
               /\ Asentar(d, "CANTINA", delta, peticion[p].anterior)
               /\ peticion' = [peticion EXCEPT ![p] = Libre]
               /\ UNCHANGED <<ediciones, cruzada>>
  <1> DEFINE d == peticion[p].doc
             fila == peticion[p].fila
             delta == -(Signo(TipoDe[d]) * fila.monto)
  <1>1. /\ d \in Documentos /\ fila \in Fila /\ peticion[p].anterior \in Int
        /\ peticion[p].op = "revertir"
    BY LecturaDeOperacion DEF TypeOK, PorFila, Revertir
  <1>2. fila.monto \in Int
    BY <1>1 DEF Fila
  <1>3. delta \in Int
    BY <1>2, SignoEntero
  <1>4. /\ doc' = [doc EXCEPT ![d].estado = "ANULADO"]
        /\ Asentar(d, "CANTINA", delta, peticion[p].anterior)
        /\ peticion' = [peticion EXCEPT ![p] = Libre]
        /\ UNCHANGED <<ediciones, cruzada>>
    BY DEF Revertir, Responder
  <1>5. /\ saldo' \in [Clientes -> [Origenes -> Int]]
        /\ ultimo' \in [Clientes -> Int]
        /\ efecto' \in [Documentos -> Int]
    <2> "CANTINA" \in Origenes
      BY DEF Origenes
    <2> HIDE DEF d, fila, delta
    <2> QED BY <1>1, <1>3, <1>4, AsentarEfecto DEF d
  <1>6. doc' \in [Documentos -> Fila]
    BY <1>1, <1>4 DEF TypeOK, Fila, Estados
  <1>7. peticion' \in [Peticiones -> Lecturas]
    BY <1>4, TipoDePeticion DEF Lecturas
  <1> QED BY <1>1, <1>3, <1>4, <1>5, <1>6, <1>7 DEF TypeOK

LEMMA TypePaso == TypeOK /\ [Next]_vars => TypeOK'
  <1> SUFFICES ASSUME TypeOK, [Next]_vars PROVE TypeOK'
    OBVIOUS
  <1> USE CuentaAssumption
  <1>1. ASSUME NEW p \in Peticiones, NEW d \in Documentos, NEW monto \in Montos,
               EmpezarVenta(p, d, monto) \/ EmpezarNota(p, d, monto)
        PROVE  TypeOK'
    <2>1. Vigente(monto, "CANTINA") \in Fila
      BY FilaVigente DEF Origenes
    <2>2. \/ LeerUltimo(p, "venta", d, Vigente(monto, "CANTINA"))
          \/ LeerUltimo(p, "nota", d, Vigente(monto, "CANTINA"))
      BY <1>1 DEF EmpezarVenta, EmpezarNota
    <2>3. peticion' \in [Peticiones -> Lecturas] /\ cruzada' \subseteq Clientes
      BY <2>1, <2>2, TipoDeUltimo DEF PorFila
    <2> QED BY <1>1, <2>3 DEF EmpezarVenta, EmpezarNota, TypeOK, cuenta
  <1>2. ASSUME NEW p \in Peticiones, NEW d \in Documentos, NEW monto \in Montos,
               NEW origen \in Origenes,
               ConvenirPago(p, d, monto, origen) \/ ConvenirCargo(p, d, monto, origen)
        PROVE  TypeOK'
    <2> DEFINE l == [op |-> "convenido", doc |-> d, fila |-> Vigente(monto, origen)]
    <2>1. l \in Lecturas
      BY FilaVigente DEF Lecturas
    <2>2. peticion' \in [Peticiones -> Lecturas]
      BY <1>2, <2>1, TipoDePeticion DEF ConvenirPago, ConvenirCargo, Recordar
    <2> QED BY <1>2, <2>2 DEF ConvenirPago, ConvenirCargo, TypeOK, cuenta
  <1>3. ASSUME NEW p \in Peticiones, NEW d \in Documentos, NEW tipo,
               LeerAnular(p, d, tipo) \/ LeerEditar(p, d)
        PROVE  TypeOK'
    <2>1. doc[d] \in Fila
      BY DEF TypeOK
    <2>2. [op |-> "anular", doc |-> d] \in Lecturas
          /\ [op |-> "editar", doc |-> d, fila |-> doc[d]] \in Lecturas
      BY <2>1 DEF Lecturas
    <2>3. peticion' \in [Peticiones -> Lecturas]
      BY <1>3, <2>2, TipoDePeticion DEF LeerAnular, LeerEditar, Recordar
    <2> QED BY <1>3, <2>3 DEF LeerAnular, LeerEditar, TypeOK, cuenta
  <1>4. ASSUME NEW p \in Peticiones, RegistrarVenta(p) \/ EmitirNota(p) \/ AsentarCobro(p)
        PROVE  TypeOK'
    BY <1>4, IngresarEfecto DEF RegistrarVenta, EmitirNota, AsentarCobro
  <1>5. ASSUME NEW p \in Peticiones, BloquearAnular(p) PROVE TypeOK'
    <2>1. peticion[p].doc \in Documentos /\ doc[peticion[p].doc] \in Fila
      BY <1>5, LecturaDeOperacion DEF BloquearAnular, TypeOK
    <2>2. LeerUltimo(p, "revertir", peticion[p].doc, doc[peticion[p].doc])
      BY <1>5 DEF BloquearAnular
    <2>3. peticion' \in [Peticiones -> Lecturas] /\ cruzada' \subseteq Clientes
      BY <2>1, <2>2, TipoDeUltimo DEF PorFila
    <2> QED BY <1>5, <2>3 DEF BloquearAnular, TypeOK, cuenta
  <1>6. ASSUME NEW p \in Peticiones, Revertir(p) PROVE TypeOK'
    BY <1>6, RevertirEfecto
  <1>7. ASSUME NEW p \in Peticiones, BloquearCliente(p) PROVE TypeOK'
    <2>1. peticion[p].doc \in Documentos /\ peticion[p].fila \in Fila
      BY <1>7, LecturaDeOperacion DEF BloquearCliente, TypeOK
    <2>2. LeerUltimo(p, "cobro", peticion[p].doc, peticion[p].fila)
      BY <1>7 DEF BloquearCliente
    <2>3. peticion' \in [Peticiones -> Lecturas] /\ cruzada' \subseteq Clientes
      BY <2>1, <2>2, TipoDeUltimo DEF PorCliente
    <2> QED BY <1>7, <2>3 DEF BloquearCliente, TypeOK, cuenta
  <1>8. ASSUME NEW p \in Peticiones, GuardarEdicion(p) PROVE TypeOK'
    <2>1. peticion[p].doc \in Documentos /\ peticion[p].fila \in Fila
      BY <1>8, LecturaDeOperacion DEF GuardarEdicion, TypeOK
    <2>2. PICK estado \in {"VIGENTE", "ANULADO"}, monto \in Montos :
             LET fila == [peticion[p].fila EXCEPT !.estado = estado, !.monto = monto]
             IN  /\ doc' = [doc EXCEPT ![peticion[p].doc] = fila]
                 /\ ediciones' = [ediciones EXCEPT ![peticion[p].doc] =
                                      IF fila = doc[peticion[p].doc] THEN @ ELSE @ + 1]
      BY <1>8 DEF GuardarEdicion
    <2>4. [peticion[p].fila EXCEPT !.estado = estado, !.monto = monto] \in Fila
      BY <2>1 DEF Fila, Estados
    <2>5. doc' \in [Documentos -> Fila]
      BY <2>1, <2>2, <2>4 DEF TypeOK
    <2>6. ediciones' \in [Documentos -> Nat]
      BY <2>1, <2>2 DEF TypeOK
    <2>3. peticion' \in [Peticiones -> Lecturas]
      BY <1>8, TipoDePeticion DEF GuardarEdicion, Responder, Lecturas
    <2> QED BY <1>8, <2>3, <2>5, <2>6 DEF GuardarEdicion, TypeOK, cuenta
  <1>9. ASSUME NEW p \in Peticiones, Deshacer(p) PROVE TypeOK'
    <2>1. peticion' \in [Peticiones -> Lecturas]
      BY <1>9, TipoDePeticion DEF Deshacer, Responder, Lecturas
    <2> QED BY <1>9, <2>1 DEF Deshacer, TypeOK, cuenta
  <1>10. ASSUME NEW d \in Documentos, Eliminar(d) PROVE TypeOK'
    <2>1. [doc[d] EXCEPT !.estado = "BORRADO"] \in Fila
      BY DEF TypeOK, Fila, Estados
    <2>2. doc' \in [Documentos -> Fila]
      BY <1>10, <2>1 DEF Eliminar, TypeOK
    <2>3. ediciones' \in [Documentos -> Nat]
      BY <1>10 DEF Eliminar, TypeOK
    <2> QED BY <1>10, <2>2, <2>3 DEF Eliminar, TypeOK, cuenta
  <1>11. CASE UNCHANGED vars
    BY <1>11 DEF TypeOK, vars
  <1> QED
    BY <1>1, <1>2, <1>3, <1>4, <1>5, <1>6, <1>7, <1>8, <1>9, <1>10, <1>11
    DEF Next, DePeticion, Convenir, ConvenirCarga, ConvenirRecargaAlmuerzo, Origenes,
        LeerAnularVenta, LeerAnularNota, AnularVenta, AnularNota

\* Every document, row of the account and request keeps its type.
THEOREM TypeCorrect == Spec => []TypeOK
  <1>1. TypeOK /\ [Next]_vars => TypeOK'
    BY TypePaso
  <1> QED BY <1>1, TypeInicial, PTL DEF Spec

-----------------------------------------------------------------------------
(* The running balance *)

\* Two requests that hold a balance of the same client have crossed.
VentanaUnica ==
    \A c \in Clientes, p, q \in Peticiones :
        p # q /\ Encadena(p, c) /\ Encadena(q, c) => c \in cruzada

\* For a client nobody crossed at, the balance held is that of the last row.
LecturaFresca ==
    \A c \in Clientes \ cruzada, p \in Peticiones :
        Encadena(p, c) => peticion[p].anterior = ultimo[c]

CadenaInv == VentanaUnica /\ LecturaFresca /\ CadenaCuadra

LEMMA CadenaInicial == Init => CadenaInv
  BY DEF Init, CadenaInv, VentanaUnica, LecturaFresca, CadenaCuadra, Encadena,
         Libre, PorFila, PorCliente, Deuda, Origenes

\* A step that writes no row and gives no request a balance
LEMMA CadenaSinRenglon ==
    ASSUME CadenaInv, UNCHANGED <<saldo, ultimo, cruzada>>,
           \A q \in Peticiones : \/ peticion'[q] = peticion[q]
                                 \/ peticion'[q].op \notin PorFila \cup PorCliente
    PROVE  CadenaInv'
  <1>1. \A q \in Peticiones, c \in Clientes :
           Encadena(q, c)' => Encadena(q, c) /\ peticion'[q] = peticion[q]
    BY DEF Encadena
  <1>2. VentanaUnica' /\ LecturaFresca'
    BY <1>1 DEF CadenaInv, VentanaUnica, LecturaFresca
  <1>3. CadenaCuadra'
    BY DEF CadenaInv, CadenaCuadra, Deuda
  <1> QED BY <1>2, <1>3 DEF CadenaInv

\* A request is given the balance of the last row
LEMMA CadenaLeer ==
    ASSUME TypeOK, CadenaInv, UNCHANGED cuenta,
           NEW p \in Peticiones, NEW op \in PorFila \cup PorCliente,
           NEW d \in Documentos, NEW fila, LeerUltimo(p, op, d, fila),
           op \in PorCliente => ~ClienteBloqueado(ClienteDe[d])
    PROVE  CadenaInv'
  <1> DEFINE k == ClienteDe[d]
  <1>1. k \in Clientes
    BY CuentaAssumption
  <1>2. /\ peticion' = [peticion EXCEPT ![p] =
                [op |-> op, doc |-> d, fila |-> fila, anterior |-> ultimo[k]]]
        /\ cruzada \subseteq cruzada'
        /\ \A q \in Peticiones \ {p} :
              Encadena(q, k) /\ (op \in PorFila \/ peticion[q].op \in PorFila)
                 => k \in cruzada'
    BY DEF LeerUltimo, Recordar
  <1>3. /\ peticion'[p] = [op |-> op, doc |-> d, fila |-> fila, anterior |-> ultimo[k]]
        /\ \A q \in Peticiones \ {p} : peticion'[q] = peticion[q]
    BY <1>2 DEF TypeOK
  <1>4. \A q \in Peticiones \ {p}, c \in Clientes : Encadena(q, c)' <=> Encadena(q, c)
    BY <1>3 DEF Encadena
  <1>5. \A c \in Clientes : Encadena(p, c)' => c = k
    BY <1>3 DEF Encadena
  <1>6. \A q \in Peticiones \ {p} : Encadena(q, k) => k \in cruzada'
    BY <1>2 DEF ClienteBloqueado, Encadena, PorFila, PorCliente
  <1>7. VentanaUnica'
    BY <1>2, <1>4, <1>5, <1>6 DEF CadenaInv, VentanaUnica
  <1>8. LecturaFresca'
    BY <1>2, <1>3, <1>4, <1>5 DEF CadenaInv, LecturaFresca, cuenta
  <1>9. CadenaCuadra'
    BY <1>2 DEF CadenaInv, CadenaCuadra, Deuda, cuenta
  <1> QED BY <1>7, <1>8, <1>9 DEF CadenaInv

\* A request writes its row, chained to the balance it holds
LEMMA CadenaAsentar ==
    ASSUME TypeOK, CadenaInv, NEW p \in Peticiones,
           peticion[p].op \in PorFila \cup PorCliente,
           NEW d \in Documentos, peticion[p].doc = d,
           NEW origen \in Origenes, NEW delta \in Int,
           peticion[p].anterior \in Int,
           Asentar(d, origen, delta, peticion[p].anterior),
           peticion' = [peticion EXCEPT ![p] = Libre], cruzada' = cruzada
    PROVE  CadenaInv'
  <1> DEFINE k == ClienteDe[d]
  <1>1. /\ k \in Clientes
        /\ ultimo'[k] = peticion[p].anterior + delta
        /\ Deuda(k)' = Deuda(k) + delta
        /\ \A c \in Clientes \ {k} : ultimo'[c] = ultimo[c] /\ Deuda(c)' = Deuda(c)
    BY AsentarEfecto
  <1>2. Encadena(p, k)
    BY DEF Encadena
  <1>3. /\ peticion'[p] = Libre
        /\ \A q \in Peticiones \ {p} : peticion'[q] = peticion[q]
    BY DEF TypeOK
  <1>4. \A q \in Peticiones, c \in Clientes : Encadena(q, c)' => q # p /\ Encadena(q, c)
    BY <1>3 DEF Encadena, Libre, PorFila, PorCliente
  <1>5. VentanaUnica'
    BY <1>4 DEF CadenaInv, VentanaUnica
  <1>6. \A q \in Peticiones : Encadena(q, k)' => k \in cruzada
    BY <1>1, <1>2, <1>4 DEF CadenaInv, VentanaUnica
  <1>7. LecturaFresca'
    BY <1>1, <1>3, <1>4, <1>6 DEF CadenaInv, LecturaFresca
  <1>8. CadenaCuadra'
    BY <1>1, <1>2 DEF CadenaInv, CadenaCuadra, LecturaFresca
  <1> QED BY <1>5, <1>7, <1>8 DEF CadenaInv

LEMMA CadenaPaso == TypeOK /\ CadenaInv /\ [Next]_vars => CadenaInv'
  <1> SUFFICES ASSUME TypeOK, CadenaInv, [Next]_vars PROVE CadenaInv'
    OBVIOUS
  <1>1. ASSUME NEW p \in Peticiones, NEW d \in Documentos, NEW monto \in Montos,
               EmpezarVenta(p, d, monto) \/ EmpezarNota(p, d, monto)
        PROVE  CadenaInv'
    <2>1. /\ \/ LeerUltimo(p, "venta", d, Vigente(monto, "CANTINA"))
             \/ LeerUltimo(p, "nota", d, Vigente(monto, "CANTINA"))
          /\ UNCHANGED cuenta
      BY <1>1 DEF EmpezarVenta, EmpezarNota
    <2> QED BY <2>1, CadenaLeer DEF PorFila, PorCliente
  <1>2. ASSUME NEW p \in Peticiones, NEW d \in Documentos, NEW monto \in Montos,
               NEW origen \in Origenes,
               ConvenirPago(p, d, monto, origen) \/ ConvenirCargo(p, d, monto, origen)
        PROVE  CadenaInv'
    BY <1>2, CadenaSinRenglon
    DEF ConvenirPago, ConvenirCargo, Recordar, cuenta, TypeOK, PorFila, PorCliente
  <1>3. ASSUME NEW p \in Peticiones, NEW d \in Documentos, NEW tipo,
               LeerAnular(p, d, tipo) \/ LeerEditar(p, d)
        PROVE  CadenaInv'
    BY <1>3, CadenaSinRenglon
    DEF LeerAnular, LeerEditar, Recordar, cuenta, TypeOK, PorFila, PorCliente
  <1>4. ASSUME NEW p \in Peticiones, RegistrarVenta(p) \/ EmitirNota(p) \/ AsentarCobro(p)
        PROVE  CadenaInv'
    <2>1. Ingresar(p, peticion[p].doc) /\ peticion[p].op \in {"venta", "nota", "cobro"}
      BY <1>4 DEF RegistrarVenta, EmitirNota, AsentarCobro
    <2> QED BY <2>1, IngresarEfecto, CadenaAsentar DEF PorFila, PorCliente
  <1>5. ASSUME NEW p \in Peticiones, BloquearAnular(p) PROVE CadenaInv'
    <2>1. /\ peticion[p].doc \in Documentos
          /\ LeerUltimo(p, "revertir", peticion[p].doc, doc[peticion[p].doc])
          /\ UNCHANGED cuenta
      BY <1>5, LecturaDeOperacion DEF BloquearAnular, TypeOK
    <2> QED BY <2>1, CadenaLeer DEF PorFila, PorCliente
  <1>6. ASSUME NEW p \in Peticiones, Revertir(p) PROVE CadenaInv'
    BY <1>6, RevertirEfecto, CadenaAsentar DEF PorFila, Origenes
  <1>7. ASSUME NEW p \in Peticiones, BloquearCliente(p) PROVE CadenaInv'
    <2>1. /\ peticion[p].doc \in Documentos
          /\ LeerUltimo(p, "cobro", peticion[p].doc, peticion[p].fila)
          /\ ~ClienteBloqueado(ClienteDe[peticion[p].doc])
          /\ UNCHANGED cuenta
      BY <1>7, LecturaDeOperacion DEF BloquearCliente, TypeOK
    <2> QED BY <2>1, CadenaLeer DEF PorFila, PorCliente
  <1>8. ASSUME NEW p \in Peticiones, GuardarEdicion(p) \/ Deshacer(p)
        PROVE  CadenaInv'
    <2>1. Responder(p) /\ UNCHANGED <<cuenta, cruzada>>
      BY <1>8 DEF GuardarEdicion, Deshacer
    <2> QED
      BY <2>1, CadenaSinRenglon
      DEF Responder, Libre, cuenta, TypeOK, PorFila, PorCliente
  <1>9. ASSUME NEW d \in Documentos, Eliminar(d) PROVE CadenaInv'
    BY <1>9, CadenaSinRenglon DEF Eliminar, cuenta
  <1>10. CASE UNCHANGED vars
    BY <1>10, CadenaSinRenglon DEF vars
  <1> QED
    BY <1>1, <1>2, <1>3, <1>4, <1>5, <1>6, <1>7, <1>8, <1>9, <1>10
    DEF Next, DePeticion, Convenir, ConvenirCarga, ConvenirRecargaAlmuerzo, Origenes,
        LeerAnularVenta, LeerAnularNota, AnularVenta, AnularNota

\* Payments and charges may overlap one another at will: as long as none of
\* the writers that lock the last row overlapped another, the running balance
\* is the sum of the rows.
THEOREM CadenaSegura == Spec => []CadenaCuadra
  <1>1. TypeOK /\ CadenaInv /\ [Next]_vars => TypeOK' /\ CadenaInv'
    BY TypePaso, CadenaPaso
  <1>2. CadenaInv => CadenaCuadra
    BY DEF CadenaInv
  <1> QED BY <1>1, <1>2, TypeInicial, CadenaInicial, PTL DEF Spec

-----------------------------------------------------------------------------
(* What each document owes the account *)

Altas == {"venta", "nota", "cobro", "convenido"}

\* A document is being inserted by one request, and does not exist yet.
AltaUnica ==
    \A p, q \in Peticiones :
        /\ peticion[p].op \in Altas
        /\ peticion[q].op \in Altas
        /\ peticion[p].doc = peticion[q].doc
        => p = q

AltaNueva ==
    \A p \in Peticiones : peticion[p].op \in Altas =>
        /\ doc[peticion[p].doc].estado = "NINGUNO"
        /\ peticion[p].fila.estado = "VIGENTE"

\* Only what exists is edited, and what does not exist was not.
EdicionDespues ==
    /\ \A p \in Peticiones :
          peticion[p].op = "editar" => doc[peticion[p].doc].estado # "NINGUNO"
    /\ \A d \in Documentos : doc[d].estado = "NINGUNO" => ediciones[d] = 0

\* An annulment that holds the row of its document holds it alone, and the
\* row is as it read it.
ReversionUnica ==
    \A p, q \in Peticiones :
        /\ peticion[p].op = "revertir"
        /\ peticion[q].op = "revertir"
        /\ peticion[p].doc = peticion[q].doc
        => p = q

ReversionVigente ==
    \A p \in Peticiones : peticion[p].op = "revertir" =>
        /\ doc[peticion[p].doc] = peticion[p].fila
        /\ peticion[p].fila.estado = "VIGENTE"

Exacto(d) ==
    ediciones[d] = 0 =>
        efecto[d] = IF doc[d].estado = "VIGENTE"
                    THEN Signo(TipoDe[d]) * doc[d].monto
                    ELSE 0

EfectoInv ==
    /\ AltaUnica /\ AltaNueva /\ EdicionDespues
    /\ ReversionUnica /\ ReversionVigente
    /\ \A d \in Documentos : Exacto(d)

LEMMA EfectoInicial == Init => EfectoInv
  BY DEF Init, EfectoInv, AltaUnica, AltaNueva, EdicionDespues, ReversionUnica,
         ReversionVigente, Exacto, Libre, Altas

\* A step that leaves the documents alone and gives one request a reading
\* that keeps the five facts about requests.
LEMMA EfectoSinRenglon ==
    ASSUME EfectoInv, UNCHANGED <<doc, efecto, ediciones>>, NEW p \in Peticiones,
           \A q \in Peticiones \ {p} : peticion'[q] = peticion[q],
           peticion'[p].op \in Altas =>
              /\ doc[peticion'[p].doc].estado = "NINGUNO"
              /\ peticion'[p].fila.estado = "VIGENTE"
              /\ \A q \in Peticiones \ {p} :
                    peticion[q].op \in Altas => peticion[q].doc # peticion'[p].doc,
           peticion'[p].op = "editar" => doc[peticion'[p].doc].estado # "NINGUNO",
           peticion'[p].op = "revertir" =>
              /\ doc[peticion'[p].doc] = peticion'[p].fila
              /\ peticion'[p].fila.estado = "VIGENTE"
              /\ \A q \in Peticiones \ {p} :
                    peticion[q].op = "revertir" => peticion[q].doc # peticion'[p].doc
    PROVE  EfectoInv'
  <1>1. AltaUnica' /\ AltaNueva'
    BY DEF EfectoInv, AltaUnica, AltaNueva
  <1>2. EdicionDespues'
    BY DEF EfectoInv, EdicionDespues
  <1>3. ReversionUnica' /\ ReversionVigente'
    BY DEF EfectoInv, ReversionUnica, ReversionVigente
  <1>4. \A d \in Documentos : Exacto(d)'
    BY DEF EfectoInv, Exacto
  <1> QED BY <1>1, <1>2, <1>3, <1>4 DEF EfectoInv

\* A step that changes one document, which no other request is inserting or
\* annulling, and frees the request that made it.
LEMMA EfectoUnDocumento ==
    ASSUME TypeOK, EfectoInv, NEW p \in Peticiones, NEW d \in Documentos,
           \A q \in Peticiones : peticion'[q] = peticion[q] \/ peticion'[q] = Libre,
           \A q \in Peticiones :
              peticion'[q].op \in Altas \cup {"revertir"} => peticion'[q].doc # d,
           \A e \in Documentos \ {d} : /\ doc'[e] = doc[e]
                                       /\ efecto'[e] = efecto[e]
                                       /\ ediciones'[e] = ediciones[e],
           doc'[d].estado # "NINGUNO", Exacto(d)'
    PROVE  EfectoInv'
  <1> DEFINE Sigue(q) == peticion'[q] # Libre /\ peticion'[q] = peticion[q]
  <1>1. \A q \in Peticiones :
           peticion'[q].op \in Altas \cup {"revertir", "editar"} => Sigue(q)
    BY DEF Libre, Altas
  <1>2. \A q \in Peticiones : /\ peticion'[q].op \in Altas \cup {"revertir", "editar"}
                              => peticion[q].doc \in Documentos
    BY <1>1, LecturaDeOperacion DEF TypeOK, Altas, PorFila, PorCliente
  <1>3. AltaUnica' /\ ReversionUnica'
    BY <1>1 DEF EfectoInv, AltaUnica, ReversionUnica
  <1>4. AltaNueva' /\ ReversionVigente'
    BY <1>1, <1>2 DEF EfectoInv, AltaNueva, ReversionVigente
  <1>5. EdicionDespues'
    BY <1>1, <1>2 DEF EfectoInv, EdicionDespues
  <1>6. \A e \in Documentos : Exacto(e)'
    BY DEF EfectoInv, Exacto
  <1> QED BY <1>3, <1>4, <1>5, <1>6 DEF EfectoInv

LEMMA EfectoPaso == TypeOK /\ EfectoInv /\ [Next]_vars => EfectoInv'
  <1> SUFFICES ASSUME TypeOK, EfectoInv, [Next]_vars PROVE EfectoInv'
    OBVIOUS
  <1>1. ASSUME NEW p \in Peticiones, NEW d \in Documentos, NEW monto \in Montos,
               \/ EmpezarVenta(p, d, monto) \/ EmpezarNota(p, d, monto)
               \/ \E origen \in Origenes : \/ ConvenirPago(p, d, monto, origen)
                                           \/ ConvenirCargo(p, d, monto, origen)
        PROVE  EfectoInv'
    <2>1. \E op \in Altas, origen \in Origenes :
             /\ peticion'[p].op = op
             /\ peticion'[p].doc = d
             /\ peticion'[p].fila = Vigente(monto, origen)
      BY <1>1 DEF EmpezarVenta, EmpezarNota, ConvenirPago, ConvenirCargo, LeerUltimo,
                  Recordar, TypeOK, Altas, Origenes
    <2>2. /\ \A q \in Peticiones \ {p} : peticion'[q] = peticion[q]
          /\ doc[d].estado = "NINGUNO" /\ ~EnAlta(d)
          /\ UNCHANGED <<doc, efecto, ediciones>>
      BY <1>1 DEF EmpezarVenta, EmpezarNota, ConvenirPago, ConvenirCargo, LeerUltimo,
                  Recordar, TypeOK, Nuevo, cuenta
    <2>3. peticion'[p].fila.estado = "VIGENTE"
      BY <2>1 DEF Vigente
    <2> QED BY <2>1, <2>2, <2>3, EfectoSinRenglon DEF EnAlta, Altas
  <1>2. ASSUME NEW p \in Peticiones, NEW d \in Documentos, NEW tipo,
               LeerAnular(p, d, tipo) \/ LeerEditar(p, d)
        PROVE  EfectoInv'
    BY <1>2, EfectoSinRenglon
    DEF LeerAnular, LeerEditar, Recordar, cuenta, TypeOK, Altas
  <1>3. ASSUME NEW p \in Peticiones, RegistrarVenta(p) \/ EmitirNota(p) \/ AsentarCobro(p)
        PROVE  EfectoInv'
    <2>0. PICK d \in Documentos : d = peticion[p].doc
      BY <1>3, LecturaDeOperacion
      DEF RegistrarVenta, EmitirNota, AsentarCobro, TypeOK, PorFila, PorCliente
    <2> DEFINE delta == Signo(TipoDe[d]) * peticion[p].fila.monto
    <2>1. Ingresar(p, d) /\ peticion[p].op \in {"venta", "nota", "cobro"}
      BY <1>3, <2>0 DEF RegistrarVenta, EmitirNota, AsentarCobro
    <2>2. /\ doc' = [doc EXCEPT ![d] = peticion[p].fila]
          /\ peticion' = [peticion EXCEPT ![p] = Libre]
          /\ efecto' = [efecto EXCEPT ![d] = efecto[d] + delta]
          /\ ediciones' = ediciones
          /\ delta \in Int
      BY <2>0, <2>1, IngresarEfecto, AsentarEfecto
    <2>3. doc[d].estado = "NINGUNO" /\ peticion[p].fila.estado = "VIGENTE"
      BY <2>0, <2>1 DEF EfectoInv, AltaNueva, Altas
    <2>4. efecto[d] = 0
      BY <2>2, <2>3 DEF EfectoInv, Exacto, EdicionDespues
    <2>5. doc'[d] = peticion[p].fila /\ efecto'[d] = delta
      <3> HIDE DEF delta
      <3> QED BY <2>2, <2>4 DEF TypeOK
    <2>6. Exacto(d)'
      BY <2>3, <2>5 DEF Exacto
    <2>7. \A q \in Peticiones : peticion'[q].op \in Altas \cup {"revertir"} => peticion'[q].doc # d
      BY <2>0, <2>1, <2>2, <2>3 DEF EfectoInv, AltaUnica, ReversionVigente, TypeOK, Libre, Altas
    <2> HIDE DEF delta
    <2> QED BY <2>2, <2>3, <2>5, <2>6, <2>7, EfectoUnDocumento DEF TypeOK
  <1>4. ASSUME NEW p \in Peticiones, BloquearAnular(p) PROVE EfectoInv'
    <2> DEFINE d == peticion[p].doc
    <2>1. /\ peticion'[p].op = "revertir" /\ peticion'[p].doc = d /\ peticion'[p].fila = doc[d]
          /\ \A q \in Peticiones \ {p} : peticion'[q] = peticion[q]
      BY <1>4 DEF BloquearAnular, LeerUltimo, Recordar, TypeOK
    <2>2. doc[d].estado = "VIGENTE" /\ ~Bloqueado(d) /\ UNCHANGED <<doc, efecto, ediciones>>
      BY <1>4 DEF BloquearAnular, SigueVigente, cuenta
    <2> QED BY <2>1, <2>2, EfectoSinRenglon DEF Bloqueado, Altas
  <1>5. ASSUME NEW p \in Peticiones, Revertir(p) PROVE EfectoInv'
    <2>0. PICK d \in Documentos : d = peticion[p].doc
      BY <1>5, RevertirEfecto
    <2> DEFINE delta == -(Signo(TipoDe[d]) * peticion[p].fila.monto)
    <2>1. /\ peticion[p].op = "revertir"
          /\ doc' = [doc EXCEPT ![d].estado = "ANULADO"]
          /\ peticion' = [peticion EXCEPT ![p] = Libre]
          /\ efecto' = [efecto EXCEPT ![d] = efecto[d] + delta]
          /\ ediciones' = ediciones
          /\ delta \in Int
      BY <1>5, <2>0, RevertirEfecto, AsentarEfecto DEF Origenes
    <2>2. doc[d] = peticion[p].fila /\ peticion[p].fila.estado = "VIGENTE"
      BY <2>0, <2>1 DEF EfectoInv, ReversionVigente
    <2>3. ediciones[d] = 0 => efecto[d] = -delta
      <3>1. Signo(TipoDe[d]) * doc[d].monto \in Int
        BY SignoEntero DEF TypeOK, Fila
      <3> QED BY <2>2, <3>1 DEF EfectoInv, Exacto
    <2>4. doc'[d].estado = "ANULADO" /\ efecto'[d] = efecto[d] + delta
      <3> HIDE DEF delta
      <3> QED BY <2>1 DEF TypeOK, Fila
    <2>5. Exacto(d)'
      <3> HIDE DEF delta
      <3> QED BY <2>1, <2>3, <2>4 DEF Exacto, TypeOK
    <2>6. \A q \in Peticiones : peticion'[q].op \in Altas \cup {"revertir"} => peticion'[q].doc # d
      BY <2>0, <2>1, <2>2 DEF EfectoInv, AltaNueva, ReversionUnica, TypeOK, Libre, Altas
    <2> HIDE DEF delta
    <2> QED BY <2>1, <2>4, <2>5, <2>6, EfectoUnDocumento DEF TypeOK
  <1>6. ASSUME NEW p \in Peticiones, BloquearCliente(p) PROVE EfectoInv'
    <2> DEFINE d == peticion[p].doc
    <2>1. /\ peticion'[p].op = "cobro" /\ peticion'[p].doc = d
          /\ peticion'[p].fila = peticion[p].fila
          /\ \A q \in Peticiones \ {p} : peticion'[q] = peticion[q]
          /\ peticion[p].op = "convenido"
          /\ UNCHANGED <<doc, efecto, ediciones>>
      BY <1>6 DEF BloquearCliente, LeerUltimo, Recordar, TypeOK, cuenta
    <2>2. /\ doc[d].estado = "NINGUNO" /\ peticion[p].fila.estado = "VIGENTE"
          /\ \A q \in Peticiones \ {p} : peticion[q].op \in Altas => peticion[q].doc # d
      BY <2>1 DEF EfectoInv, AltaNueva, AltaUnica, Altas
    <2> QED BY <2>1, <2>2, EfectoSinRenglon DEF Altas
  <1>7. ASSUME NEW p \in Peticiones, GuardarEdicion(p) PROVE EfectoInv'
    <2>0. PICK d \in Documentos : d = peticion[p].doc
      BY <1>7, LecturaDeOperacion DEF GuardarEdicion, TypeOK
    <2>1. peticion[p].fila \in Fila /\ peticion[p].op = "editar"
      BY <1>7, LecturaDeOperacion DEF GuardarEdicion, TypeOK
    <2>2. PICK estado \in {"VIGENTE", "ANULADO"}, monto \in Montos :
             LET fila == [peticion[p].fila EXCEPT !.estado = estado, !.monto = monto]
             IN  /\ doc' = [doc EXCEPT ![d] = fila]
                 /\ ediciones' = [ediciones EXCEPT ![d] =
                                      IF fila = doc[d] THEN @ ELSE @ + 1]
      BY <1>7, <2>0 DEF GuardarEdicion
    <2>3. ~Bloqueado(d) /\ efecto' = efecto /\ peticion' = [peticion EXCEPT ![p] = Libre]
      BY <1>7, <2>0 DEF GuardarEdicion, cuenta, Responder
    <2>4. doc[d].estado # "NINGUNO"
      BY <2>0, <2>1 DEF EfectoInv, EdicionDespues
    <2>5. doc'[d].estado = estado
      BY <2>1, <2>2 DEF TypeOK, Fila
    <2>6. Exacto(d)'
      <3>1. ediciones'[d] = 0 => doc'[d] = doc[d] /\ ediciones[d] = 0
        BY <2>1, <2>2 DEF TypeOK
      <3> QED BY <2>1, <2>3, <3>1 DEF EfectoInv, Exacto
    <2>7. \A q \in Peticiones : peticion'[q].op \in Altas \cup {"revertir"} => peticion'[q].doc # d
      BY <2>0, <2>3, <2>4 DEF EfectoInv, AltaNueva, Bloqueado, TypeOK, Libre, Altas
    <2>8. \A e \in Documentos \ {d} : doc'[e] = doc[e] /\ ediciones'[e] = ediciones[e]
      BY <2>2 DEF TypeOK
    <2> QED BY <2>1, <2>3, <2>5, <2>6, <2>7, <2>8, EfectoUnDocumento DEF TypeOK
  <1>8. ASSUME NEW p \in Peticiones, Deshacer(p) PROVE EfectoInv'
    BY <1>8, EfectoSinRenglon DEF Deshacer, Responder, Libre, cuenta, TypeOK, Altas
  <1>9. ASSUME NEW d \in Documentos, Eliminar(d) PROVE EfectoInv'
    <2>1. /\ doc'[d].estado = "BORRADO" /\ ediciones'[d] # 0
          /\ \A e \in Documentos \ {d} : doc'[e] = doc[e] /\ ediciones'[e] = ediciones[e]
          /\ peticion' = peticion /\ efecto' = efecto
      BY <1>9 DEF Eliminar, TypeOK, Fila, cuenta
    <2>2. \A q \in Peticiones : peticion'[q].op \in Altas \cup {"revertir"} => peticion'[q].doc # d
      BY <1>9, <2>1 DEF Eliminar, EfectoInv, AltaNueva, Bloqueado
    <2>3. Exacto(d)'
      BY <2>1 DEF Exacto
    <2>4. CASE Peticiones = {}
      BY <2>1, <2>4, <2>3
      DEF EfectoInv, AltaUnica, AltaNueva, EdicionDespues, ReversionUnica,
          ReversionVigente, Exacto
    <2>5. ASSUME NEW p \in Peticiones PROVE EfectoInv'
      BY <2>1, <2>2, <2>3, EfectoUnDocumento
    <2> QED BY <2>4, <2>5
  <1>10. CASE UNCHANGED vars
    BY <1>10 DEF vars, EfectoInv, AltaUnica, AltaNueva, EdicionDespues, ReversionUnica,
                 ReversionVigente, Exacto
  <1> QED
    BY <1>1, <1>2, <1>3, <1>4, <1>5, <1>6, <1>7, <1>8, <1>9, <1>10
    DEF Next, DePeticion, Convenir, ConvenirCarga, ConvenirRecargaAlmuerzo, Origenes,
        LeerAnularVenta, LeerAnularNota, AnularVenta, AnularNota

\* Every sale, credit note, payment and charge that nobody rewrote by hand is
\* in the account exactly once while it stands and not at all once annulled.
THEOREM EfectoSeguro == Spec => []EfectoExacto
  <1>1. TypeOK /\ EfectoInv /\ [Next]_vars => TypeOK' /\ EfectoInv'
    BY TypePaso, EfectoPaso
  <1>2. EfectoInv => EfectoExacto
    BY DEF EfectoInv, EfectoExacto, Exacto
  <1> QED BY <1>1, <1>2, TypeInicial, EfectoInicial, PTL DEF Spec
=============================================================================
