--------------------------- MODULE TarjetaProofs ---------------------------
(***************************************************************************)
(* Proofs about the prepaid card, for every set of cards, top-ups, sales   *)
(* and concurrent requests, and for every amount.                          *)
(***************************************************************************)
EXTENDS Tarjeta, TLAPS

-----------------------------------------------------------------------------
(* What the requests in progress have read *)

\* A request that is not free has the record of its kind: what a leaf needs
\* to know about the reading it finds.
LEMMA LecturaDeOperacion ==
    ASSUME NEW p \in Peticiones, peticion[p] \in Lecturas
    PROVE  /\ peticion[p].op \in {"confirmar", "anularCarga"}
                => peticion[p].carga \in Cargas
           /\ peticion[p].op = "anularVenta" => peticion[p].venta \in Ventas
           /\ peticion[p].op = "editar"
                => peticion[p].tarjeta \in Tarjetas /\ peticion[p].fila \in Fila
           /\ peticion[p].op = "cambiarEstado"
                => /\ peticion[p].tarjeta \in Tarjetas
                   /\ peticion[p].hacia \in EstadosTarjeta
  BY DEF Lecturas, Libre, SinTarjeta

\* The sign of a movement keeps the amounts integers.
LEMMA MovimientoEntero ==
    ASSUME NEW tipo \in {"RECARGA", "CONSUMO", "AJUSTE", "REVERSO"},
           NEW monto \in Int, NEW anterior \in Int
    PROVE  /\ EfectoTrigger(tipo, monto) \in Int
           /\ Resultante(tipo, anterior, monto) = anterior + EfectoTrigger(tipo, monto)
           /\ Resultante(tipo, anterior, monto) \in Int
  BY DEF EfectoTrigger, Resultante

\* Entering a movement leaves the three amounts of the card integers and its
\* balance equal to its ledger; every other card is untouched.
LEMMA AsentarEfecto ==
    ASSUME NEW t \in Tarjetas,
           NEW tipo \in {"RECARGA", "CONSUMO", "AJUSTE", "REVERSO"},
           NEW monto \in Int, NEW anterior \in Int,
           tarjeta \in [Tarjetas -> Fila], libro \in [Tarjetas -> Int],
           ultimo \in [Tarjetas -> Int],
           Asentar(t, tipo, monto, anterior)
    PROVE  /\ tarjeta' \in [Tarjetas -> Fila]
           /\ libro' \in [Tarjetas -> Int]
           /\ ultimo' \in [Tarjetas -> Int]
           /\ tarjeta'[t].saldo = libro'[t]
           /\ libro'[t] = libro[t] + EfectoTrigger(tipo, monto)
           /\ ultimo'[t] = anterior + EfectoTrigger(tipo, monto)
           /\ \A u \in Tarjetas \ {t} : /\ tarjeta'[u] = tarjeta[u]
                                        /\ libro'[u] = libro[u]
                                        /\ ultimo'[u] = ultimo[u]
  <1> DEFINE suma == libro[t] + EfectoTrigger(tipo, monto)
  <1>1. /\ EfectoTrigger(tipo, monto) \in Int
        /\ Resultante(tipo, anterior, monto) = anterior + EfectoTrigger(tipo, monto)
        /\ suma \in Int
    BY MovimientoEntero
  <1>2. /\ libro' = [libro EXCEPT ![t] = suma]
        /\ ultimo' = [ultimo EXCEPT ![t] = Resultante(tipo, anterior, monto)]
        /\ tarjeta' = [tarjeta EXCEPT ![t].saldo = suma]
    BY DEF Asentar, SaldoSincronizado
  <1>3. /\ libro' \in [Tarjetas -> Int] /\ libro'[t] = suma
        /\ ultimo' \in [Tarjetas -> Int]
        /\ ultimo'[t] = anterior + EfectoTrigger(tipo, monto)
    BY <1>1, <1>2
  <1>4. tarjeta' \in [Tarjetas -> Fila] /\ tarjeta'[t].saldo = suma
    <2> HIDE DEF suma
    <2> QED BY <1>1, <1>2 DEF Fila
  <1>5. \A u \in Tarjetas \ {t} : /\ tarjeta'[u] = tarjeta[u]
                                  /\ libro'[u] = libro[u]
                                  /\ ultimo'[u] = ultimo[u]
    <2> HIDE DEF suma
    <2> QED BY <1>2
  <1> QED BY <1>3, <1>4, <1>5

\* A closing of accounts moves balance and ledger by the same amount, and the
\* chain goes on from the balance.
LEMMA MoverCierreEfecto ==
    ASSUME NEW t \in Tarjetas, NEW monto \in Int,
           tarjeta \in [Tarjetas -> Fila], libro \in [Tarjetas -> Int],
           ultimo \in [Tarjetas -> Int],
           MoverCierre(t, monto)
    PROVE  /\ tarjeta' \in [Tarjetas -> Fila]
           /\ libro' \in [Tarjetas -> Int]
           /\ ultimo' \in [Tarjetas -> Int]
           /\ tarjeta'[t].saldo = tarjeta[t].saldo + monto
           /\ libro'[t] = libro[t] + monto
           /\ ultimo'[t] = tarjeta[t].saldo + monto
           /\ \A u \in Tarjetas \ {t} : /\ tarjeta'[u] = tarjeta[u]
                                        /\ libro'[u] = libro[u]
                                        /\ ultimo'[u] = ultimo[u]
  <1>1. tarjeta[t].saldo \in Int
    BY DEF Fila
  <1>2. /\ libro' = [libro EXCEPT ![t] = @ + monto]
        /\ ultimo' = [ultimo EXCEPT ![t] = tarjeta[t].saldo + monto]
    BY <1>1, MovimientoEntero DEF MoverCierre, EfectoTrigger, Resultante
  <1>3. PICK saldo \in Int : saldo = tarjeta[t].saldo + monto
    BY <1>1
  <1>4. tarjeta' = [tarjeta EXCEPT ![t].saldo = saldo]
    BY <1>3 DEF MoverCierre
  <1>5. /\ tarjeta' \in [Tarjetas -> Fila]
        /\ tarjeta'[t].saldo = saldo
        /\ \A u \in Tarjetas \ {t} : tarjeta'[u] = tarjeta[u]
    BY <1>3, <1>4 DEF Fila
  <1>6. /\ libro' \in [Tarjetas -> Int]
        /\ libro'[t] = libro[t] + monto
        /\ \A u \in Tarjetas \ {t} : libro'[u] = libro[u]
    BY <1>2
  <1>7. /\ ultimo' \in [Tarjetas -> Int]
        /\ ultimo'[t] = saldo
        /\ \A u \in Tarjetas \ {t} : ultimo'[u] = ultimo[u]
    <2>1. ultimo' = [ultimo EXCEPT ![t] = saldo]
      BY <1>2, <1>3
    <2> QED BY <2>1
  <1> QED BY <1>3, <1>5, <1>6, <1>7

\* What an annulment gives back goes to a card, and is an amount.
LEMMA CobroDeTarjeta ==
    ASSUME NEW v \in Ventas, NEW cobro \in CobroDe(v)
    PROVE  cobro[1] \in Tarjetas /\ cobro[2] \in Nat \ {0}
  <1> USE TarjetaAssumption
  <1>1. CASE ediciones[v] = 0
    BY <1>1 DEF CobroDe
  <1>2. CASE ediciones[v] # 0
    BY <1>2 DEF CobroDe
  <1> QED BY <1>1, <1>2

-----------------------------------------------------------------------------
(* Types *)

LEMMA TypeInicial == Init => TypeOK
  BY TarjetaAssumption
  DEF Init, TypeOK, Fila, EstadosTarjeta, EstadosCarga, EstadosVenta, Lecturas, Libre

LEMMA TypePaso == TypeOK /\ [Next]_vars => TypeOK'
  <1> SUFFICES ASSUME TypeOK, [Next]_vars PROVE TypeOK'
    OBVIOUS
  <1> USE TarjetaAssumption
  <1>1. ASSUME NEW c \in Cargas, CargarSaldo(c) PROVE TypeOK'
    <2>1. /\ TarjetaDeCarga[c] \in Tarjetas /\ MontoDeCarga[c] \in Int
          /\ tarjeta[TarjetaDeCarga[c]].saldo \in Int
      BY DEF TypeOK, Fila
    <2>2. /\ tarjeta' \in [Tarjetas -> Fila] /\ libro' \in [Tarjetas -> Int]
          /\ ultimo' \in [Tarjetas -> Int]
      BY <1>1, <2>1, AsentarEfecto DEF CargarSaldo, TypeOK
    <2>3. carga' \in [Cargas -> EstadosCarga] /\ acreditado' \in [Cargas -> Int]
      BY <1>1 DEF CargarSaldo, TypeOK, EstadosCarga
    <2> QED BY <1>1, <2>2, <2>3 DEF CargarSaldo, TypeOK
  <1>2. ASSUME NEW c \in Cargas, CrearPendiente(c) PROVE TypeOK'
    BY <1>2 DEF CrearPendiente, TypeOK, EstadosCarga
  <1>3. ASSUME NEW v \in Ventas, RegistrarVenta(v) PROVE TypeOK'
    <2>1. /\ TarjetaDeVenta[v] \in Tarjetas /\ MontoDeVenta[v] \in Int
          /\ tarjeta[TarjetaDeVenta[v]].saldo \in Int
      BY DEF TypeOK, Fila
    <2>2. /\ tarjeta' \in [Tarjetas -> Fila] /\ libro' \in [Tarjetas -> Int]
          /\ ultimo' \in [Tarjetas -> Int]
      BY <1>3, <2>1, AsentarEfecto DEF RegistrarVenta, TypeOK
    <2>3. venta' \in [Ventas -> EstadosVenta] /\ cobrado' \in [Ventas -> Int]
      BY <1>3 DEF RegistrarVenta, TypeOK, EstadosVenta
    <2> QED BY <1>3, <2>2, <2>3 DEF RegistrarVenta, TypeOK
  <1>4. ASSUME NEW t \in Tarjetas, NEW monto \in Ajustes, AjustarSaldo(t, monto)
        PROVE  TypeOK'
    <2>1. monto \in Int /\ tarjeta[t].saldo \in Int
      BY DEF TypeOK, Fila
    <2>2. /\ tarjeta' \in [Tarjetas -> Fila] /\ libro' \in [Tarjetas -> Int]
          /\ ultimo' \in [Tarjetas -> Int]
      BY <1>4, <2>1, AsentarEfecto DEF AjustarSaldo, TypeOK
    <2>3. ajustes' \in 0 .. MaxAjustes
      BY <1>4 DEF AjustarSaldo, TypeOK
    <2> QED BY <1>4, <2>2, <2>3 DEF AjustarSaldo, TypeOK
  <1>9. ASSUME NEW t \in Tarjetas, NEW monto \in Ajustes, MoverCierre(t, monto)
        PROVE  TypeOK'
    <2>1. /\ tarjeta' \in [Tarjetas -> Fila] /\ libro' \in [Tarjetas -> Int]
          /\ ultimo' \in [Tarjetas -> Int]
      BY <1>9, MoverCierreEfecto DEF TypeOK
    <2>2. ajustes' \in 0 .. MaxAjustes
      BY <1>9 DEF MoverCierre, TypeOK
    <2> QED BY <1>9, <2>1, <2>2 DEF MoverCierre, TypeOK
  <1>10. ASSUME NEW v \in Ventas, NEW estado \in EstadosVenta, EditarVenta(v, estado)
         PROVE  TypeOK'
    <2>1. ediciones' \in [Ventas -> 0 .. MaxEdiciones]
      <3>1. ediciones[v] \in 0 .. MaxEdiciones /\ ediciones[v] < MaxEdiciones
        BY <1>10 DEF EditarVenta, TypeOK
      <3>2. ediciones[v] + 1 \in 0 .. MaxEdiciones
        BY <3>1
      <3> QED BY <1>10, <3>2 DEF EditarVenta, TypeOK
    <2>2. venta' \in [Ventas -> EstadosVenta]
      BY <1>10 DEF EditarVenta, TypeOK
    <2> QED BY <1>10, <2>1, <2>2 DEF EditarVenta, TypeOK
  <1>11. ASSUME NEW v \in Ventas, EliminarVenta(v) PROVE TypeOK'
    <2>1. venta' \in [Ventas -> EstadosVenta]
      BY <1>11 DEF EliminarVenta, TypeOK, EstadosVenta
    <2> QED BY <1>11, <2>1 DEF EliminarVenta, TypeOK
  <1>5. CASE ExpirarRecargas
    <2>1. carga' \in [Cargas -> EstadosCarga]
      BY <1>5 DEF ExpirarRecargas, TypeOK, EstadosCarga, EstadoExpirada
    <2> QED BY <1>5, <2>1 DEF ExpirarRecargas, TypeOK
  <1>6. ASSUME NEW p \in Peticiones, DePeticion(p) PROVE TypeOK'
    <2> peticion[p] \in Lecturas
      BY DEF TypeOK
    <2>1. ASSUME NEW c \in Cargas, LeerConfirmar(p, c) PROVE TypeOK'
      <3>1. [op |-> "confirmar", carga |-> c] \in Lecturas
        BY DEF Lecturas
      <3> QED BY <2>1, <3>1 DEF LeerConfirmar, Recordar, TypeOK
    <2>2. ASSUME NEW c \in Cargas, LeerAnularCarga(p, c) PROVE TypeOK'
      <3>1. [op |-> "anularCarga", carga |-> c] \in Lecturas
        BY DEF Lecturas
      <3> QED BY <2>2, <3>1 DEF LeerAnularCarga, Recordar, TypeOK
    <2>3. ASSUME NEW v \in Ventas, LeerAnularVenta(p, v) PROVE TypeOK'
      <3>1. [op |-> "anularVenta", venta |-> v] \in Lecturas
        BY DEF Lecturas
      <3> QED BY <2>3, <3>1 DEF LeerAnularVenta, Recordar, TypeOK
    <2>4. ASSUME NEW t \in Tarjetas, LeerEditar(p, t) PROVE TypeOK'
      <3>1. [op |-> "editar", tarjeta |-> t, fila |-> tarjeta[t]] \in Lecturas
        BY DEF Lecturas, TypeOK
      <3> QED BY <2>4, <3>1 DEF LeerEditar, Recordar, TypeOK
    <2>5. ASSUME NEW t \in Tarjetas, LeerCambiarEstado(p, t) PROVE TypeOK'
      <3>1. \A hacia \in EstadosTarjeta :
               [op |-> "cambiarEstado", tarjeta |-> t, hacia |-> hacia] \in Lecturas
        BY DEF Lecturas
      <3> QED BY <2>5, <3>1 DEF LeerCambiarEstado, Recordar, TypeOK
    <2> Libre \in Lecturas
      BY DEF Lecturas
    <2>6. Responder(p) => peticion' \in [Peticiones -> Lecturas]
      BY DEF Responder, TypeOK
    <2>7. CASE ConfirmarCarga(p)
      <3> DEFINE c == peticion[p].carga
      <3>1. c \in Cargas
        BY <2>7, LecturaDeOperacion DEF ConfirmarCarga
      <3>2. /\ TarjetaDeCarga[c] \in Tarjetas /\ MontoDeCarga[c] \in Int
            /\ tarjeta[TarjetaDeCarga[c]].saldo \in Int
        BY <3>1 DEF TypeOK, Fila
      <3>3. /\ tarjeta' \in [Tarjetas -> Fila] /\ libro' \in [Tarjetas -> Int]
            /\ ultimo' \in [Tarjetas -> Int]
        BY <2>7, <3>2, AsentarEfecto DEF ConfirmarCarga, TypeOK
      <3>4. carga' \in [Cargas -> EstadosCarga] /\ acreditado' \in [Cargas -> Int]
        BY <2>7, <3>1 DEF ConfirmarCarga, TypeOK, EstadosCarga
      <3> QED BY <2>6, <2>7, <3>3, <3>4 DEF ConfirmarCarga, TypeOK
    <2>8. CASE AnularCarga(p)
      <3> DEFINE c == peticion[p].carga
      <3>1. c \in Cargas
        BY <2>8, LecturaDeOperacion DEF AnularCarga
      <3>2. /\ TarjetaDeCarga[c] \in Tarjetas /\ -MontoDeCarga[c] \in Int
            /\ ultimo[TarjetaDeCarga[c]] \in Int
        BY <3>1 DEF TypeOK
      <3>3. /\ tarjeta' \in [Tarjetas -> Fila] /\ libro' \in [Tarjetas -> Int]
            /\ ultimo' \in [Tarjetas -> Int]
        BY <2>8, <3>2, AsentarEfecto DEF AnularCarga, TypeOK
      <3>4. carga' \in [Cargas -> EstadosCarga] /\ acreditado' \in [Cargas -> Int]
        BY <2>8, <3>1 DEF AnularCarga, TypeOK, EstadosCarga
      <3> QED BY <2>6, <2>8, <3>3, <3>4 DEF AnularCarga, TypeOK
    <2>9. CASE AnularVenta(p)
      <3> DEFINE v == peticion[p].venta
      <3>1. v \in Ventas
        BY <2>9, LecturaDeOperacion DEF AnularVenta
      <3>2. ASSUME NEW cobro \in CobroDe(v),
                   Asentar(cobro[1], "REVERSO", cobro[2], tarjeta[cobro[1]].saldo)
            PROVE  /\ tarjeta' \in [Tarjetas -> Fila] /\ libro' \in [Tarjetas -> Int]
                   /\ ultimo' \in [Tarjetas -> Int]
        <4>1. cobro[1] \in Tarjetas /\ cobro[2] \in Int
          BY <3>1, CobroDeTarjeta
        <4>2. tarjeta[cobro[1]].saldo \in Int
          BY <4>1 DEF TypeOK, Fila
        <4> QED BY <3>2, <4>1, <4>2, AsentarEfecto DEF TypeOK
      <3>3. /\ tarjeta' \in [Tarjetas -> Fila] /\ libro' \in [Tarjetas -> Int]
            /\ ultimo' \in [Tarjetas -> Int]
        BY <2>9, <3>2 DEF AnularVenta, TypeOK
      <3>4. venta' \in [Ventas -> EstadosVenta] /\ cobrado' \in [Ventas -> Int]
        BY <2>9, <3>1 DEF AnularVenta, TypeOK, EstadosVenta
      <3> QED BY <2>6, <2>9, <3>3, <3>4 DEF AnularVenta, TypeOK
    <2>10. CASE GuardarEdicion(p)
      <3>1. peticion[p].tarjeta \in Tarjetas /\ peticion[p].fila \in Fila
        BY <2>10, LecturaDeOperacion DEF GuardarEdicion
      <3>2. \A tope \in Topes : [peticion[p].fila EXCEPT !.tope = tope] \in Fila
        BY <3>1 DEF Fila
      <3>3. tarjeta' \in [Tarjetas -> Fila]
        BY <2>10, <3>1, <3>2 DEF GuardarEdicion, TypeOK
      <3> QED BY <2>6, <2>10, <3>3 DEF GuardarEdicion, TypeOK
    <2>11. CASE CambiarEstado(p)
      <3>1. /\ peticion[p].tarjeta \in Tarjetas
            /\ peticion[p].hacia \in EstadosTarjeta
        BY <2>11, LecturaDeOperacion DEF CambiarEstado
      <3>2. tarjeta' \in [Tarjetas -> Fila]
        BY <2>11, <3>1 DEF CambiarEstado, TypeOK, Fila
      <3> QED BY <2>6, <2>11, <3>2 DEF CambiarEstado, TypeOK
    <2>12. CASE Deshacer(p)
      BY <2>6, <2>12 DEF Deshacer, TypeOK
    <2> QED BY <1>6, <2>1, <2>2, <2>3, <2>4, <2>5, <2>7, <2>8, <2>9, <2>10,
               <2>11, <2>12 DEF DePeticion
  <1>7. ASSUME NEW t \in Tarjetas, Renumerar(t) PROVE TypeOK'
    <2>1. SinTarjeta \in Lecturas
      BY DEF Lecturas
    <2>2. peticion' \in [Peticiones -> Lecturas]
      BY <1>7, <2>1 DEF Renumerar, TypeOK
    <2> QED BY <1>7, <2>2 DEF Renumerar, TypeOK
  <1>8. CASE UNCHANGED vars
    BY <1>8 DEF vars, TypeOK
  <1> QED BY <1>1, <1>2, <1>3, <1>4, <1>5, <1>6, <1>7, <1>8, <1>9, <1>10, <1>11
          DEF Next, DeCarga, DeVenta

\* Every variable keeps its type, whatever the constants are.
THEOREM Tipos == Spec => []TypeOK
  BY TypeInicial, TypePaso, PTL DEF Spec

-----------------------------------------------------------------------------
(* Top-ups.  CargaRespaldada is inductive on its own types: a confirmation *)
(* only adds, and an annulment re-reads CONFIRMADA under the lock.         *)

LEMMA CargaPaso ==
    TypeOK /\ CargaRespaldada /\ [Next]_vars => CargaRespaldada'
  <1> SUFFICES ASSUME TypeOK, CargaRespaldada, [Next]_vars PROVE CargaRespaldada'
    OBVIOUS
  <1> USE DEF CargaRespaldada
  <1>1. \A c \in Cargas : acreditado[c] \in Int
    BY DEF TypeOK
  <1>2. ASSUME NEW c \in Cargas, DeCarga(c) PROVE CargaRespaldada'
    BY <1>1, <1>2 DEF DeCarga, CargarSaldo, CrearPendiente, TypeOK
  <1>3. CASE ExpirarRecargas
    BY <1>1, <1>3 DEF ExpirarRecargas, Expirables, EstadoExpirada, TypeOK
  <1>4. ASSUME NEW p \in Peticiones, ConfirmarCarga(p) PROVE CargaRespaldada'
    <2>1. peticion[p].carga \in Cargas
      BY <1>4, LecturaDeOperacion DEF ConfirmarCarga, TypeOK
    <2> QED BY <1>1, <1>4, <2>1 DEF ConfirmarCarga, TypeOK
  <1>5. ASSUME NEW p \in Peticiones, AnularCarga(p) PROVE CargaRespaldada'
    <2>1. peticion[p].carga \in Cargas
      BY <1>5, LecturaDeOperacion DEF AnularCarga, TypeOK
    <2> QED BY <1>1, <1>5, <2>1 DEF AnularCarga, SigueConfirmada, TypeOK
  <1>6. ASSUME UNCHANGED <<carga, acreditado>> PROVE CargaRespaldada'
    BY <1>6
  <1>7. ASSUME NEW p \in Peticiones, DePeticion(p),
               ~ConfirmarCarga(p), ~AnularCarga(p)
        PROVE  UNCHANGED <<carga, acreditado>>
    BY <1>7
    DEF DePeticion, LeerConfirmar, LeerAnularCarga, LeerAnularVenta, LeerEditar,
        LeerCambiarEstado, Recordar, AnularVenta, GuardarEdicion, CambiarEstado,
        Deshacer
  <1>8. ASSUME NEW v \in Ventas, DeVenta(v) PROVE UNCHANGED <<carga, acreditado>>
    BY <1>8 DEF DeVenta, RegistrarVenta, EditarVenta, EliminarVenta
  <1>9. ASSUME NEW t \in Tarjetas, NEW monto \in Ajustes,
               AjustarSaldo(t, monto) \/ MoverCierre(t, monto)
        PROVE  UNCHANGED <<carga, acreditado>>
    BY <1>9 DEF AjustarSaldo, MoverCierre
  <1>10. CASE UNCHANGED vars
    BY <1>10, <1>6 DEF vars
  <1>11. ASSUME NEW t \in Tarjetas, Renumerar(t) PROVE UNCHANGED <<carga, acreditado>>
    BY <1>11 DEF Renumerar
  <1> QED
    BY <1>2, <1>3, <1>4, <1>5, <1>6, <1>7, <1>8, <1>9, <1>10, <1>11 DEF Next

\* However the requests interleave, a top-up is never taken back more often
\* than it was credited, and its estado says whether it stands in the ledger.
THEOREM CargaSegura == Spec => []CargaRespaldada
  <1>1. Init => CargaRespaldada
    BY DEF Init, CargaRespaldada
  <1> QED BY <1>1, Tipos, CargaPaso, PTL DEF Spec

-----------------------------------------------------------------------------
(* Sales.  The estado read without a lock by an annulment matters only in  *)
(* that the sale existed then.  What the property leaves open and a step   *)
(* needs: an active sale has one refund in hand, and a sale that does not  *)
(* exist has never been edited.                                            *)

VentaLeida ==
    \A p \in Peticiones :
        peticion[p].op = "anularVenta" => venta[peticion[p].venta] # "NINGUNA"

VentaRespaldada ==
    \A v \in Ventas :
        /\ cobrado[v] \in (-ediciones[v]) .. 1
        /\ venta[v] = "ACTIVA" => cobrado[v] >= 1 - ediciones[v]
        /\ venta[v] = "NINGUNA" => ediciones[v] = 0 /\ cobrado[v] = 0
        /\ venta[v] = "ANULADA" => cobrado[v] <= 0 \/ ediciones[v] > 0

VentaInv == VentaRespaldada /\ VentaLeida

LEMMA VentaInvBasta == TypeOK /\ VentaInv => VentaCobradaUnaVez
  <1> SUFFICES ASSUME TypeOK, VentaInv, NEW v \in Ventas
               PROVE  /\ cobrado[v] \in (-ediciones[v]) .. 1
                      /\ ediciones[v] = 0 =>
                            /\ venta[v] = "ACTIVA" => cobrado[v] = 1
                            /\ venta[v] \in {"NINGUNA", "ANULADA"} => cobrado[v] = 0
    BY DEF VentaCobradaUnaVez
  <1> QED BY DEF TypeOK, VentaInv, VentaRespaldada

LEMMA VentaPaso == TypeOK /\ VentaInv /\ [Next]_vars => VentaInv'
  <1> SUFFICES ASSUME TypeOK, VentaRespaldada, VentaLeida, [Next]_vars
               PROVE  VentaInv'
    BY DEF VentaInv
  <1>1. /\ \A v \in Ventas : cobrado[v] \in Int /\ ediciones[v] \in Nat
        /\ \A p \in Peticiones : peticion[p].op = "anularVenta"
                                    => peticion[p].venta \in Ventas
    BY LecturaDeOperacion, TarjetaAssumption DEF TypeOK
  <1>2. ASSUME NEW v \in Ventas, RegistrarVenta(v) PROVE VentaInv'
    <2>1. VentaRespaldada'
      BY <1>1, <1>2 DEF RegistrarVenta, VentaRespaldada, TypeOK
    <2>2. VentaLeida'
      BY <1>1, <1>2 DEF RegistrarVenta, VentaLeida, TypeOK
    <2> QED BY <2>1, <2>2 DEF VentaInv
  <1>12. ASSUME NEW v \in Ventas, NEW estado \in EstadosVenta, EditarVenta(v, estado)
         PROVE  VentaInv'
    <2>1. VentaRespaldada'
      BY <1>1, <1>12 DEF EditarVenta, VentaRespaldada, TypeOK
    <2>2. VentaLeida'
      BY <1>1, <1>12 DEF EditarVenta, VentaLeida, TypeOK
    <2> QED BY <2>1, <2>2 DEF VentaInv
  <1>13. ASSUME NEW v \in Ventas, EliminarVenta(v) PROVE VentaInv'
    <2>1. VentaRespaldada'
      BY <1>1, <1>13 DEF EliminarVenta, VentaRespaldada, TypeOK
    <2>2. VentaLeida'
      BY <1>1, <1>13 DEF EliminarVenta, VentaLeida, TypeOK
    <2> QED BY <2>1, <2>2 DEF VentaInv
  <1>3. ASSUME NEW p \in Peticiones, AnularVenta(p) PROVE VentaInv'
    <2>1. PICK v \in Ventas : v = peticion[p].venta
      BY <1>1, <1>3 DEF AnularVenta
    <2>2. venta[v] = "ACTIVA"
      BY <1>3, <2>1 DEF AnularVenta, SigueActiva, VentaLeida, TypeOK, EstadosVenta
    <2>3. /\ venta' = [venta EXCEPT ![v] = "ANULADA"]
          /\ ediciones' = ediciones
          /\ \/ cobrado' = [cobrado EXCEPT ![v] = @ - 1]
             \/ ediciones[v] > 0 /\ cobrado' = cobrado
      BY <1>3, <2>1 DEF AnularVenta
    <2>4. VentaRespaldada'
      BY <1>1, <2>2, <2>3 DEF VentaRespaldada, TypeOK
    <2>5. \A q \in Peticiones : peticion'[q] = IF q = p THEN Libre ELSE peticion[q]
      BY <1>3 DEF AnularVenta, Responder, TypeOK
    <2>6. VentaLeida'
      BY <1>1, <2>3, <2>5 DEF VentaLeida, TypeOK, Libre
    <2> QED BY <2>4, <2>6 DEF VentaInv
  <1>4. ASSUME NEW p \in Peticiones, NEW v \in Ventas, LeerAnularVenta(p, v)
        PROVE  VentaInv'
    BY <1>4 DEF LeerAnularVenta, Recordar, VentaInv, VentaRespaldada, VentaLeida, TypeOK
  <1>5. ASSUME UNCHANGED <<venta, cobrado, ediciones>>,
               \A q \in Peticiones : \/ peticion'[q] = peticion[q]
                                     \/ peticion'[q].op # "anularVenta"
        PROVE  VentaInv'
    BY <1>5 DEF VentaInv, VentaRespaldada, VentaLeida
  <1>6. ASSUME NEW p \in Peticiones, DePeticion(p), ~AnularVenta(p),
               \A v \in Ventas : ~LeerAnularVenta(p, v)
        PROVE  /\ UNCHANGED <<venta, cobrado, ediciones>>
               /\ \A q \in Peticiones : \/ peticion'[q] = peticion[q]
                                        \/ peticion'[q].op # "anularVenta"
    <2>1. ASSUME NEW lectura \in Lecturas, lectura.op # "anularVenta",
                 Recordar(p, lectura)
          PROVE  /\ UNCHANGED <<venta, cobrado, ediciones>>
                 /\ \A q \in Peticiones : \/ peticion'[q] = peticion[q]
                                          \/ peticion'[q].op # "anularVenta"
      BY <2>1 DEF Recordar, TypeOK
    <2>2. ASSUME Responder(p)
          PROVE  \A q \in Peticiones : \/ peticion'[q] = peticion[q]
                                       \/ peticion'[q].op # "anularVenta"
      BY <2>2 DEF Responder, Libre, TypeOK
    <2>3. CASE \E c \in Cargas : LeerConfirmar(p, c) \/ LeerAnularCarga(p, c)
      BY <2>1, <2>3 DEF LeerConfirmar, LeerAnularCarga, Lecturas
    <2>4. CASE \E t \in Tarjetas : LeerEditar(p, t)
      BY <2>1, <2>4 DEF LeerEditar, Lecturas, TypeOK
    <2>5. CASE \E t \in Tarjetas : LeerCambiarEstado(p, t)
      BY <2>1, <2>5 DEF LeerCambiarEstado, Lecturas
    <2>6. CASE \/ ConfirmarCarga(p) \/ AnularCarga(p) \/ GuardarEdicion(p)
               \/ CambiarEstado(p) \/ Deshacer(p)
      BY <2>2, <2>6
      DEF ConfirmarCarga, AnularCarga, GuardarEdicion, CambiarEstado, Deshacer
    <2> QED BY <1>6, <2>3, <2>4, <2>5, <2>6 DEF DePeticion
  <1>7. ASSUME NEW c \in Cargas, DeCarga(c)
        PROVE  UNCHANGED <<venta, cobrado, ediciones, peticion>>
    BY <1>7 DEF DeCarga, CargarSaldo, CrearPendiente
  <1>8. ASSUME NEW t \in Tarjetas, NEW monto \in Ajustes,
               AjustarSaldo(t, monto) \/ MoverCierre(t, monto)
        PROVE  UNCHANGED <<venta, cobrado, ediciones, peticion>>
    BY <1>8 DEF AjustarSaldo, MoverCierre
  <1>9. ExpirarRecargas => UNCHANGED <<venta, cobrado, ediciones, peticion>>
    BY DEF ExpirarRecargas
  <1>10. UNCHANGED vars => UNCHANGED <<venta, cobrado, ediciones, peticion>>
    BY DEF vars
  <1>11. ASSUME NEW t \in Tarjetas, Renumerar(t)
         PROVE  /\ UNCHANGED <<venta, cobrado, ediciones>>
                /\ \A q \in Peticiones : \/ peticion'[q] = peticion[q]
                                         \/ peticion'[q].op # "anularVenta"
    BY <1>11 DEF Renumerar, SinTarjeta
  <1> QED
    BY <1>2, <1>3, <1>4, <1>5, <1>6, <1>7, <1>8, <1>9, <1>10, <1>11,
       <1>12, <1>13
    DEF Next, DeVenta

\* However many annulments read the sale ACTIVA, a sale nobody edits is charged
\* once while it is ACTIVA and refunded once; each edit can add one refund.
THEOREM VentaSegura == Spec => []VentaCobradaUnaVez
  <1>1. Init => VentaInv
    BY DEF Init, VentaInv, VentaRespaldada, VentaLeida, Libre
  <1> QED BY <1>1, Tipos, VentaInvBasta, VentaPaso, PTL DEF Spec

-----------------------------------------------------------------------------
(* The accounts of a card.  The services take saldo_anterior from the row, *)
(* save() takes it from the last movement: for a card whose accounts agree *)
(* these are the same number.                                              *)

LEMMA AsentarCuadra ==
    ASSUME TypeOK, NEW t \in Tarjetas,
           NEW tipo \in {"RECARGA", "CONSUMO", "AJUSTE", "REVERSO"},
           NEW monto \in Int, NEW anterior \in {tarjeta[t].saldo, ultimo[t]},
           Asentar(t, tipo, monto, anterior),
           NEW u \in Tarjetas, Cuadra(u)
    PROVE  Cuadra(u)'
  <1>1. anterior \in Int
    BY DEF TypeOK, Fila
  <1>2. /\ tarjeta'[t].saldo = libro'[t]
        /\ libro'[t] = libro[t] + EfectoTrigger(tipo, monto)
        /\ ultimo'[t] = anterior + EfectoTrigger(tipo, monto)
        /\ \A w \in Tarjetas \ {t} : /\ tarjeta'[w] = tarjeta[w]
                                     /\ libro'[w] = libro[w]
                                     /\ ultimo'[w] = ultimo[w]
    BY <1>1, AsentarEfecto DEF TypeOK
  <1>3. CASE u = t
    <2>1. anterior = libro[t]
      BY <1>3 DEF Cuadra
    <2> QED BY <1>2, <1>3, <2>1 DEF Cuadra
  <1>4. CASE u # t
    BY <1>2, <1>4 DEF Cuadra
  <1> QED BY <1>3, <1>4

\* A closing of accounts takes a card whose accounts agree to one whose accounts
\* agree.
LEMMA MoverCierreCuadra ==
    ASSUME TypeOK, NEW t \in Tarjetas, NEW monto \in Int, MoverCierre(t, monto),
           NEW u \in Tarjetas, Cuadra(u)
    PROVE  Cuadra(u)'
  BY MoverCierreEfecto DEF TypeOK, Cuadra

\* Every step is an edit of a card or a movement of a closing, or changes at
\* most the estado of a card besides the request, or enters one movement.
LEMMA PasoAsienta ==
    ASSUME TypeOK, [Next]_vars, \A p \in Peticiones : ~GuardarEdicion(p),
           \A t \in Tarjetas, monto \in Ajustes : ~MoverCierre(t, monto)
    PROVE  \/ /\ UNCHANGED <<libro, ultimo>>
              /\ \A u \in Tarjetas : tarjeta'[u].saldo = tarjeta[u].saldo
           \/ \E t \in Tarjetas, tipo \in {"RECARGA", "CONSUMO", "AJUSTE", "REVERSO"},
                 monto \in Int :
                 \E anterior \in {tarjeta[t].saldo, ultimo[t]} :
                    Asentar(t, tipo, monto, anterior)
  <1> USE TarjetaAssumption
  <1> DEFINE Quieta == /\ UNCHANGED <<libro, ultimo>>
                       /\ \A u \in Tarjetas : tarjeta'[u].saldo = tarjeta[u].saldo
             Asienta == \E t \in Tarjetas,
                           tipo \in {"RECARGA", "CONSUMO", "AJUSTE", "REVERSO"},
                           monto \in Int :
                           \E anterior \in {tarjeta[t].saldo, ultimo[t]} :
                              Asentar(t, tipo, monto, anterior)
  <1>1. ASSUME NEW c \in Cargas, CargarSaldo(c) PROVE Asienta
    BY <1>1 DEF CargarSaldo
  <1>2. ASSUME NEW c \in Cargas, CrearPendiente(c) PROVE Quieta
    BY <1>2 DEF CrearPendiente
  <1>3. ASSUME NEW v \in Ventas, RegistrarVenta(v) PROVE Asienta
    BY <1>3 DEF RegistrarVenta
  <1>10. ASSUME NEW v \in Ventas, NEW estado \in EstadosVenta,
                EditarVenta(v, estado)
         PROVE  Quieta
    BY <1>10 DEF EditarVenta
  <1>11. ASSUME NEW v \in Ventas, EliminarVenta(v) PROVE Quieta
    BY <1>11 DEF EliminarVenta
  <1>4. ASSUME NEW t \in Tarjetas, NEW monto \in Ajustes, AjustarSaldo(t, monto)
        PROVE  Asienta
    BY <1>4 DEF AjustarSaldo
  <1>5. ExpirarRecargas => Quieta
    BY DEF ExpirarRecargas
  <1>6. UNCHANGED vars => Quieta
    BY DEF vars
  <1>7. ASSUME NEW p \in Peticiones, DePeticion(p) PROVE Quieta \/ Asienta
    <2> ~GuardarEdicion(p)
      OBVIOUS
    <2>1. CASE ConfirmarCarga(p)
      <3>1. peticion[p].carga \in Cargas
        BY <2>1, LecturaDeOperacion DEF ConfirmarCarga, TypeOK
      <3> QED BY <2>1, <3>1 DEF ConfirmarCarga
    <2>2. CASE AnularCarga(p)
      <3>1. peticion[p].carga \in Cargas
        BY <2>2, LecturaDeOperacion DEF AnularCarga, TypeOK
      <3>2. -MontoDeCarga[peticion[p].carga] \in Int
        BY <3>1
      <3> QED BY <2>2, <3>1, <3>2 DEF AnularCarga
    <2>3. CASE AnularVenta(p)
      <3>1. PICK v \in Ventas : v = peticion[p].venta
        BY <2>3, LecturaDeOperacion DEF AnularVenta, TypeOK
      <3>2. ASSUME NEW cobro \in CobroDe(v),
                   Asentar(cobro[1], "REVERSO", cobro[2], tarjeta[cobro[1]].saldo)
            PROVE  Asienta
        <4>1. cobro[1] \in Tarjetas /\ cobro[2] \in Int
          BY CobroDeTarjeta
        <4> QED BY <3>2, <4>1
      <3>3. CASE UNCHANGED <<tarjeta, libro, ultimo>>
        BY <3>3
      <3> HIDE DEF Quieta, Asienta
      <3> QED BY <2>3, <3>1, <3>2, <3>3 DEF AnularVenta
    <2>4. CASE CambiarEstado(p)
      BY <2>4 DEF CambiarEstado, TypeOK, Fila
    <2>5. CASE Deshacer(p)
      BY <2>5 DEF Deshacer
    <2>6. CASE \/ \E c \in Cargas : LeerConfirmar(p, c) \/ LeerAnularCarga(p, c)
               \/ \E v \in Ventas : LeerAnularVenta(p, v)
               \/ \E t \in Tarjetas : LeerEditar(p, t) \/ LeerCambiarEstado(p, t)
      BY <2>6 DEF LeerConfirmar, LeerAnularCarga, LeerAnularVenta, LeerEditar,
                  LeerCambiarEstado, Recordar
    <2> QED BY <1>7, <2>1, <2>2, <2>3, <2>4, <2>5, <2>6 DEF DePeticion
  <1>8. ASSUME NEW t \in Tarjetas, Renumerar(t) PROVE Quieta
    BY <1>8 DEF Renumerar
  <1> HIDE DEF Quieta, Asienta
  <1>9. Quieta \/ Asienta
    BY <1>1, <1>2, <1>3, <1>4, <1>5, <1>6, <1>7, <1>8,
       <1>10, <1>11
    DEF Next, DeCarga, DeVenta
  <1> QED BY <1>9 DEF Quieta, Asienta

\* Only an edit of the card's row can part its balance, its ledger and the
\* chain of its movements.
THEOREM SoloEdicion == Spec => SoloEdicionDescuadra
  <1>1. ASSUME TypeOK, [Next]_vars, NEW t \in Tarjetas, Cuadra(t), ~Cuadra(t)'
        PROVE  \E p \in Peticiones : GuardarEdicion(p)
    <2> SUFFICES ASSUME \A p \in Peticiones : ~GuardarEdicion(p) PROVE FALSE
      OBVIOUS
    <2>1. CASE /\ UNCHANGED <<libro, ultimo>>
               /\ \A u \in Tarjetas : tarjeta'[u].saldo = tarjeta[u].saldo
      BY <1>1, <2>1 DEF Cuadra
    <2>2. CASE \E u \in Tarjetas, tipo \in {"RECARGA", "CONSUMO", "AJUSTE", "REVERSO"},
                  monto \in Int :
                  \E anterior \in {tarjeta[u].saldo, ultimo[u]} :
                     Asentar(u, tipo, monto, anterior)
      BY <1>1, <2>2, AsentarCuadra
    <2>3. CASE \E u \in Tarjetas, monto \in Ajustes : MoverCierre(u, monto)
      BY <1>1, <2>3, MoverCierreCuadra, TarjetaAssumption
    <2> QED BY <1>1, <2>1, <2>2, <2>3, PasoAsienta
  <1>2. TypeOK /\ [Next]_vars =>
          [\A t \in Tarjetas : Cuadra(t) /\ ~Cuadra(t)' =>
              \E p \in Peticiones : GuardarEdicion(p)]_vars
    BY <1>1
  <1> QED BY <1>2, Tipos, PTL DEF Spec, SoloEdicionDescuadra

\* Every movement leaves the balance of its card equal to the ledger, unless it
\* is the movement of a closing of accounts on a card whose accounts did not
\* agree before it.
THEOREM Recompone == Spec => MovimientoRecompone
  <1>1. ASSUME TypeOK, [Next]_vars, NEW t \in Tarjetas, libro'[t] # libro[t],
               \A u \in Tarjetas, monto \in Ajustes : ~MoverCierre(u, monto)
        PROVE  tarjeta'[t].saldo = libro'[t]
    <2>1. ASSUME NEW p \in Peticiones, GuardarEdicion(p) PROVE FALSE
      BY <1>1, <2>1 DEF GuardarEdicion
    <2>2. PICK u \in Tarjetas, tipo \in {"RECARGA", "CONSUMO", "AJUSTE", "REVERSO"},
               monto \in Int :
               \E anterior \in {tarjeta[u].saldo, ultimo[u]} :
                  Asentar(u, tipo, monto, anterior)
      BY <1>1, <2>1, PasoAsienta
    <2>3. tarjeta[u].saldo \in Int /\ ultimo[u] \in Int
      BY <1>1 DEF TypeOK, Fila
    <2>4. /\ tarjeta'[u].saldo = libro'[u]
          /\ \A w \in Tarjetas \ {u} : libro'[w] = libro[w]
      BY <1>1, <2>2, <2>3, AsentarEfecto DEF TypeOK
    <2> QED BY <1>1, <2>4
  <1>2. ASSUME TypeOK, NEW t \in Tarjetas, NEW u \in Tarjetas, NEW monto \in Ajustes,
               MoverCierre(u, monto), libro'[t] # libro[t],
               tarjeta'[t].saldo # libro'[t]
        PROVE  MoverCierre(t, monto) /\ ~Cuadra(t)
    <2>1. monto \in Int
      BY TarjetaAssumption
    <2>2. u = t
      BY <1>2, <2>1, MoverCierreEfecto DEF TypeOK
    <2>3. ASSUME Cuadra(t) PROVE FALSE
      BY <1>2, <2>1, <2>2, <2>3, MoverCierreCuadra DEF Cuadra
    <2> QED BY <1>2, <2>2, <2>3
  <1>3. TypeOK /\ [Next]_vars =>
          [\A t \in Tarjetas :
              libro'[t] # libro[t] /\ tarjeta'[t].saldo # libro'[t] =>
                  /\ \E monto \in Ajustes : MoverCierre(t, monto)
                  /\ ~Cuadra(t)]_vars
    BY <1>1, <1>2
  <1> QED BY <1>3, Tipos, PTL DEF Spec, MovimientoRecompone
=============================================================================
