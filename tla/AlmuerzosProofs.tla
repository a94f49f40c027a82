-------------------------- MODULE AlmuerzosProofs --------------------------
(***************************************************************************)
(* Proofs about the lunch account, for every set of pupils, scans, top-ups *)
(* and concurrent requests, and about the offline queue composed with it,  *)
(* for every length of the clock.                                          *)
(***************************************************************************)
EXTENDS ColaOffline, FiniteSetTheorems, TLAPS

-----------------------------------------------------------------------------
(* What the requests in progress have read *)

\* Requests about the row of a scan
DeEnvio == {"buscada", "contada", "anular", "eliminar", "editar", "reinsertar"}

LEMMA LecturaDeOperacion ==
    ASSUME NEW l \in Lecturas
    PROVE  /\ l.op \in DeEnvio => l.envio \in Envios
           /\ l.op = "contada" => l.primero \in BOOLEAN
           /\ l.op \in {"editar", "reinsertar"} => l.fila \in Registro
           /\ l.op = "anular" => l.hijo \in Hijos
           /\ l.op = "patch" => l.hijo \in Hijos /\ l.saldo \in Int
           /\ l.op \in {"confirmar", "anularRecarga"} => l.recarga \in Recargas
  BY DEF Lecturas, Libre, DeEnvio

LEMMA LibreEsLectura == Libre \in Lecturas /\ Libre.op = "libre"
  BY DEF Lecturas, Libre

\* A deleted row leaves each request a reading of the same type, and makes
\* none that has counted.
LEMMA SinFilaEsLectura ==
    ASSUME NEW e \in Envios, NEW l \in Lecturas
    PROVE  /\ SinFila(e, l) \in Lecturas
           /\ SinFila(e, l) = l \/ SinFila(e, l).op \in {"reinsertar", "libre"}
  <1>1. CASE l.op = "editar" /\ l.envio = e
    <2>1. l \in [op : {"editar", "reinsertar"}, envio : Envios, fila : Registro]
      BY <1>1 DEF Lecturas, Libre
    <2>2. /\ [l EXCEPT !.op = "reinsertar"]
               \in [op : {"editar", "reinsertar"}, envio : Envios, fila : Registro]
          /\ [l EXCEPT !.op = "reinsertar"].op = "reinsertar"
      BY <2>1
    <2> QED BY <1>1, <2>2 DEF SinFila, Lecturas
  <1>2. CASE ~(l.op = "editar" /\ l.envio = e)
    BY <1>2, LibreEsLectura DEF SinFila
  <1> QED BY <1>1, <1>2

\* A renamed row leaves each request a reading of the same type and kind.
LEMMA SigueEsLectura ==
    ASSUME NEW e \in Envios, NEW d \in Envios, NEW l \in Lecturas
    PROVE  /\ Sigue(e, d, l) \in Lecturas
           /\ Sigue(e, d, l) = l \/ Sigue(e, d, l).op \in {"anular", "eliminar", "editar"}
  <1>1. CASE l.op = "anular" /\ l.envio = e
    <2>1. l \in [op : {"anular"}, envio : Envios, hijo : Hijos]
      BY <1>1 DEF Lecturas, Libre
    <2>2. /\ [l EXCEPT !.envio = d] \in [op : {"anular"}, envio : Envios, hijo : Hijos]
          /\ [l EXCEPT !.envio = d].op = "anular"
      BY <2>1
    <2> QED BY <1>1, <2>2 DEF Sigue, Lecturas
  <1>2. CASE l.op = "eliminar" /\ l.envio = e
    <2>1. l \in [op : {"eliminar"}, envio : Envios]
      BY <1>2 DEF Lecturas, Libre
    <2>2. /\ [l EXCEPT !.envio = d] \in [op : {"eliminar"}, envio : Envios]
          /\ [l EXCEPT !.envio = d].op = "eliminar"
      BY <2>1
    <2> QED BY <1>2, <2>2 DEF Sigue, Lecturas
  <1>3. CASE l.op = "editar" /\ l.envio = e
    <2>1. l \in [op : {"editar", "reinsertar"}, envio : Envios, fila : Registro]
      BY <1>3 DEF Lecturas, Libre
    <2>2. /\ [l EXCEPT !.envio = d]
               \in [op : {"editar", "reinsertar"}, envio : Envios, fila : Registro]
          /\ [l EXCEPT !.envio = d].op = "editar"
      BY <1>3, <2>1
    <2> QED BY <1>3, <2>2 DEF Sigue, Lecturas
  <1>4. CASE ~(l.op \in {"anular", "eliminar", "editar"} /\ l.envio = e)
    BY <1>4 DEF Sigue
  <1> QED BY <1>1, <1>2, <1>3, <1>4

LEMMA SinRegistroTipo ==
    ASSUME NEW e \in Envios
    PROVE  /\ SinRegistro(e) \in Registro
           /\ SinRegistro(e).estado = "NINGUNO"
           /\ SinRegistro(e).cobrado = FALSE
           /\ SinRegistro(e).hijo = HijoDe[e]
           /\ SinRegistro(e).hoy = TRUE
  BY AlmuerzosAssumption DEF SinRegistro, Registro, EstadosRegistro

LEMMA EscritaTipo ==
    ASSUME NEW fila \in Registro, NEW h \in Hijos, NEW hoy \in BOOLEAN
    PROVE  Escrita(fila, h, hoy) \in Registro
  BY DEF Escrita, Registro

\* Remembering a well-formed reading keeps the type of the requests.
LEMMA RecordarTipo ==
    ASSUME TypeOK, NEW p \in Peticiones, NEW l \in Lecturas, Recordar(p, l)
    PROVE  /\ peticion' \in [Peticiones -> Lecturas]
           /\ peticion'[p] = l
           /\ \A q \in Peticiones \ {p} : peticion'[q] = peticion[q]
           /\ ediciones' \in 0 .. MaxEdiciones
  BY DEF Recordar, TypeOK

LEMMA RecordarEdicionTipo ==
    ASSUME TypeOK, NEW p \in Peticiones, NEW l \in Lecturas, RecordarEdicion(p, l)
    PROVE  /\ peticion' \in [Peticiones -> Lecturas]
           /\ peticion'[p] = l
           /\ \A q \in Peticiones \ {p} : peticion'[q] = peticion[q]
           /\ ediciones' \in 0 .. MaxEdiciones
  BY AlmuerzosAssumption DEF RecordarEdicion, TypeOK

LEMMA ResponderTipo ==
    ASSUME TypeOK, NEW p \in Peticiones, Responder(p)
    PROVE  /\ peticion' \in [Peticiones -> Lecturas]
           /\ peticion'[p] = Libre
           /\ \A q \in Peticiones \ {p} : peticion'[q] = peticion[q]
           /\ ediciones' \in 0 .. MaxEdiciones
  BY LibreEsLectura, RecordarTipo DEF Responder

\* A movement adds its amount to the ledger of its pupil and leaves the balance
\* equal to it, and touches nobody else's.
LEMMA MoverEfecto ==
    ASSUME TypeOK, NEW h \in Hijos, NEW monto \in Int, Mover(h, monto)
    PROVE  /\ saldo' \in [Hijos -> Int]
           /\ libro' \in [Hijos -> Int]
           /\ pisado' = pisado \ {h}
           /\ saldo'[h] = libro'[h]
           /\ libro'[h] = libro[h] + monto
           /\ \A k \in Hijos \ {h} : saldo'[k] = saldo[k] /\ libro'[k] = libro[k]
  BY DEF Mover, Sincronizado, TypeOK

-----------------------------------------------------------------------------
(* Types *)

LEMMA TypeInicial == InitAlmuerzos => TypeOK
  <1> SUFFICES ASSUME InitAlmuerzos PROVE TypeOK
    OBVIOUS
  <1>1. registro \in [Envios -> Registro]
    BY SinRegistroTipo DEF InitAlmuerzos
  <1>2. peticion \in [Peticiones -> Lecturas] /\ ediciones \in 0 .. MaxEdiciones
    BY AlmuerzosAssumption, LibreEsLectura DEF InitAlmuerzos
  <1> QED BY <1>1, <1>2 DEF InitAlmuerzos, TypeOK, EstadosRecarga

TiposDeSaldo == saldo' \in [Hijos -> Int] /\ libro' \in [Hijos -> Int] /\ pisado' \subseteq Hijos

\* The readings: only the request changes.
LEMMA TipoDeLectura ==
    ASSUME TypeOK, NEW p \in Peticiones, NEW l \in Lecturas, Recordar(p, l),
           UNCHANGED <<varsRegistro, varsSaldo, varsRecarga>>
    PROVE  TypeOK'
  BY RecordarTipo DEF TypeOK, varsRegistro, varsSaldo, varsRecarga

LEMMA TipoDeEdicion ==
    ASSUME TypeOK, NEW p \in Peticiones, NEW l \in Lecturas, RecordarEdicion(p, l),
           UNCHANGED <<varsRegistro, varsSaldo, varsRecarga>>
    PROVE  TypeOK'
  BY RecordarEdicionTipo DEF TypeOK, varsRegistro, varsSaldo, varsRecarga

LEMMA TypePeticion ==
    ASSUME TypeOK, NEW p \in Peticiones, DePeticion(p)
    PROVE  TypeOK'
  <1> DEFINE l == peticion[p]
             e == l.envio
             r == l.recarga
  <1>a. l \in Lecturas
    BY DEF TypeOK
  <1>b. 1 \in Int /\ -1 \in Int
    OBVIOUS
  <1>1. ASSUME NEW x \in Envios, Recibir(p, x) PROVE TypeOK'
    <2>1. [op |-> "buscada", envio |-> x] \in Lecturas
      BY DEF Lecturas
    <2> QED BY <1>1, <2>1, TipoDeLectura DEF Recibir
  <1>2. ASSUME NEW x \in Envios, NEW op \in {"anular", "eliminar", "editar"},
               LeerRegistro(p, op, x)
        PROVE  TypeOK'
    <2>1. /\ [op |-> "anular", envio |-> x, hijo |-> registro[x].hijo] \in Lecturas
          /\ [op |-> "eliminar", envio |-> x] \in Lecturas
      BY DEF Lecturas, TypeOK, Registro
    <2>2. [op |-> "editar", envio |-> x, fila |-> registro[x]] \in Lecturas
      BY DEF Lecturas, TypeOK
    <2> QED BY <1>2, <2>1, <2>2, TipoDeLectura, TipoDeEdicion DEF LeerRegistro
  <1>3. CASE Contar(p)
    <2>1. e \in Envios
      BY <1>3, <1>a, LecturaDeOperacion DEF Contar, DeEnvio
    <2> DEFINE primero == DelDia(HijoDe[e]) = {}
    <2>2. [op |-> "contada", envio |-> e, primero |-> primero] \in Lecturas
      <3> primero \in BOOLEAN
        OBVIOUS
      <3> HIDE DEF primero, e
      <3> QED BY <2>1 DEF Lecturas
    <2> QED BY <1>3, <2>2, TipoDeLectura DEF Contar
  <1>4. CASE Insertar(p)
    <2>1. e \in Envios /\ HijoDe[e] \in Hijos /\ l.primero \in BOOLEAN
      BY <1>4, <1>a, LecturaDeOperacion, AlmuerzosAssumption DEF Insertar, DeEnvio
    <2>2. TiposDeSaldo
      <3>1. CASE l.primero
        BY <1>4, <1>b, <2>1, <3>1, MoverEfecto DEF Insertar, TypeOK, TiposDeSaldo
      <3>2. CASE ~l.primero
        BY <1>4, <3>2 DEF Insertar, TypeOK, TiposDeSaldo, varsSaldo
      <3> QED BY <3>1, <3>2
    <2>3. registro' \in [Envios -> Registro]
      BY <1>4, <2>1, AlmuerzosAssumption
      DEF Insertar, TypeOK, SinRegistro, Registro, EstadosRegistro
    <2>4. peticion' \in [Peticiones -> Lecturas] /\ ediciones' \in 0 .. MaxEdiciones
      BY <1>4, ResponderTipo DEF Insertar
    <2> QED BY <1>4, <2>2, <2>3, <2>4 DEF Insertar, TypeOK, TiposDeSaldo, varsRecarga
  <1>5. CASE AnularRegistro(p)
    <2>1. e \in Envios /\ l.hijo \in Hijos
      BY <1>5, <1>a, LecturaDeOperacion DEF AnularRegistro, DeEnvio
    <2>2. TiposDeSaldo /\ devuelto' \in [Envios -> Nat]
      <3>1. CASE SeDevuelve(e)
        <4>1. TiposDeSaldo
          BY <1>5, <1>b, <2>1, <3>1, MoverEfecto DEF AnularRegistro, TypeOK, TiposDeSaldo
        <4>2. devuelto' \in [Envios -> Nat]
          BY <1>5, <2>1, <3>1 DEF AnularRegistro, TypeOK
        <4> QED BY <4>1, <4>2
      <3>2. CASE ~SeDevuelve(e)
        BY <1>5, <3>2 DEF AnularRegistro, TypeOK, TiposDeSaldo, varsSaldo
      <3> QED BY <3>1, <3>2
    <2>3. registro' \in [Envios -> Registro]
      BY <1>5, <2>1 DEF AnularRegistro, TypeOK, Registro, EstadosRegistro
    <2>4. peticion' \in [Peticiones -> Lecturas] /\ ediciones' \in 0 .. MaxEdiciones
      BY <1>5, ResponderTipo DEF AnularRegistro
    <2> QED BY <1>5, <2>2, <2>3, <2>4 DEF AnularRegistro, TypeOK, TiposDeSaldo, varsRecarga
  <1>6. ASSUME NEW d \in Envios, NEW h \in Hijos, NEW hoy \in BOOLEAN,
               EditarRegistro(p, d, h, hoy)
        PROVE  TypeOK'
    <2>1. e \in Envios /\ l.fila \in Registro
      BY <1>6, <1>a, LecturaDeOperacion DEF EditarRegistro, DeEnvio
    <2> DEFINE fila == Escrita(l.fila, h, hoy)
    <2>2. fila \in Registro /\ SinRegistro(e) \in Registro
      BY <2>1, EscritaTipo, SinRegistroTipo
    <2>3. /\ registro' = [registro EXCEPT ![e] = SinRegistro(e), ![d] = fila]
          /\ devuelto' = [devuelto EXCEPT ![e] = 0, ![d] = devuelto[e]]
          /\ aMano' = IF d = e /\ fila = registro[e] THEN aMano ELSE (aMano \ {e}) \cup {d}
          /\ peticion' = [q \in Peticiones |->
                             IF q = p THEN Libre ELSE Sigue(e, d, peticion[q])]
          /\ UNCHANGED <<ediciones, varsSaldo, varsRecarga>>
      BY <1>6 DEF EditarRegistro
    <2>4. registro' \in [Envios -> Registro]
      <3> HIDE DEF fila
      <3> QED BY <2>1, <2>2, <2>3 DEF TypeOK
    <2>5. devuelto' \in [Envios -> Nat] /\ aMano' \subseteq Envios
      BY <2>1, <2>3 DEF TypeOK
    <2>6. peticion' \in [Peticiones -> Lecturas]
      BY <2>1, <2>3, SigueEsLectura, LibreEsLectura DEF TypeOK
    <2> QED BY <2>3, <2>4, <2>5, <2>6 DEF TypeOK, varsSaldo, varsRecarga
  <1>7. ASSUME NEW d \in Envios, NEW h \in Hijos, NEW hoy \in BOOLEAN,
               Reinsertar(p, d, h, hoy)
        PROVE  TypeOK'
    <2>1. Escrita(l.fila, h, hoy) \in Registro
      BY <1>7, <1>a, LecturaDeOperacion, EscritaTipo DEF Reinsertar
    <2>2. registro' \in [Envios -> Registro] /\ aMano' \subseteq Envios
      BY <1>7, <2>1 DEF Reinsertar, TypeOK
    <2>3. peticion' \in [Peticiones -> Lecturas] /\ ediciones' \in 0 .. MaxEdiciones
      BY <1>7, ResponderTipo DEF Reinsertar
    <2> QED BY <1>7, <2>2, <2>3 DEF Reinsertar, TypeOK, varsSaldo, varsRecarga
  <1>8. CASE EliminarRegistro(p)
    <2>1. e \in Envios /\ SinRegistro(e) \in Registro
      BY <1>8, <1>a, LecturaDeOperacion, SinRegistroTipo DEF EliminarRegistro, DeEnvio
    <2>2. /\ registro' \in [Envios -> Registro] /\ aMano' \subseteq Envios
          /\ devuelto' \in [Envios -> Nat]
      BY <1>8, <2>1 DEF EliminarRegistro, TypeOK
    <2>3. peticion' \in [Peticiones -> Lecturas]
      BY <1>8, <2>1, SinFilaEsLectura DEF EliminarRegistro, TypeOK
    <2> QED BY <1>8, <2>2, <2>3 DEF EliminarRegistro, TypeOK, varsSaldo, varsRecarga
  <1>9. ASSUME NEW x \in Recargas, LeerConfirmar(p, x) \/ LeerAnularRecarga(p, x)
        PROVE  TypeOK'
    <2>1. /\ [op |-> "confirmar", recarga |-> x] \in Lecturas
          /\ [op |-> "anularRecarga", recarga |-> x] \in Lecturas
      BY DEF Lecturas
    <2> QED BY <1>9, <2>1, TipoDeLectura DEF LeerConfirmar, LeerAnularRecarga, LeerRecarga
  <1>10. CASE ConfirmarRecarga(p)
    <2>1. r \in Recargas /\ HijoDeRecarga[r] \in Hijos
      BY <1>10, <1>a, LecturaDeOperacion, AlmuerzosAssumption DEF ConfirmarRecarga
    <2>2. TiposDeSaldo
      BY <1>10, <1>b, <2>1, MoverEfecto DEF ConfirmarRecarga, TypeOK, TiposDeSaldo
    <2>3. recarga' \in [Recargas -> EstadosRecarga] /\ creditos' \in [Recargas -> Nat]
      BY <1>10, <2>1 DEF ConfirmarRecarga, TypeOK, Acreditada, EstadosRecarga
    <2>4. peticion' \in [Peticiones -> Lecturas] /\ ediciones' \in 0 .. MaxEdiciones
      BY <1>10, ResponderTipo DEF ConfirmarRecarga
    <2> QED BY <1>10, <2>2, <2>3, <2>4 DEF ConfirmarRecarga, TypeOK, TiposDeSaldo, varsRegistro
  <1>11. CASE AnularRecarga(p)
    <2>1. r \in Recargas /\ HijoDeRecarga[r] \in Hijos
      BY <1>11, <1>a, LecturaDeOperacion, AlmuerzosAssumption DEF AnularRecarga
    <2>2. TiposDeSaldo
      BY <1>11, <1>b, <2>1, MoverEfecto DEF AnularRecarga, TypeOK, TiposDeSaldo
    <2>3. recarga' \in [Recargas -> EstadosRecarga] /\ reversos' \in [Recargas -> Nat]
      BY <1>11, <2>1 DEF AnularRecarga, TypeOK, EstadosRecarga
    <2>4. peticion' \in [Peticiones -> Lecturas] /\ ediciones' \in 0 .. MaxEdiciones
      BY <1>11, ResponderTipo DEF AnularRecarga
    <2> QED BY <1>11, <2>2, <2>3, <2>4 DEF AnularRecarga, TypeOK, TiposDeSaldo, varsRegistro
  <1>12. ASSUME NEW h \in Hijos, LeerPatch(p, h) PROVE TypeOK'
    <2>1. [op |-> "patch", hijo |-> h, saldo |-> saldo[h]] \in Lecturas
      BY DEF Lecturas, TypeOK
    <2> QED BY <1>12, <2>1, TipoDeEdicion DEF LeerPatch
  <1>13. CASE GuardarPatch(p)
    <2>1. l.hijo \in Hijos /\ l.saldo \in Int
      BY <1>13, <1>a, LecturaDeOperacion DEF GuardarPatch
    <2>2. saldo' \in [Hijos -> Int] /\ pisado' \subseteq Hijos
      BY <1>13, <2>1 DEF GuardarPatch, TypeOK
    <2>3. peticion' \in [Peticiones -> Lecturas] /\ ediciones' \in 0 .. MaxEdiciones
      BY <1>13, ResponderTipo DEF GuardarPatch
    <2> QED BY <1>13, <2>2, <2>3 DEF GuardarPatch, TypeOK, varsRegistro, varsRecarga
  <1>14. CASE Deshacer(p)
    BY <1>14, ResponderTipo DEF Deshacer, TypeOK, varsRegistro, varsSaldo, varsRecarga
  <1> QED BY <1>1, <1>2, <1>3, <1>4, <1>5, <1>6, <1>7, <1>8, <1>9, <1>10, <1>11, <1>12,
             <1>13, <1>14 DEF DePeticion

LEMMA TypePaso == TypeOK /\ [NextAlmuerzos]_varsAlmuerzo => TypeOK'
  <1> SUFFICES ASSUME TypeOK, [NextAlmuerzos]_varsAlmuerzo PROVE TypeOK'
    OBVIOUS
  <1>1. ASSUME NEW r \in Recargas, Recargar(r) PROVE TypeOK'
    <2>1. HijoDeRecarga[r] \in Hijos /\ 1 \in Int
      BY AlmuerzosAssumption
    <2>2. TiposDeSaldo
      BY <1>1, <2>1, MoverEfecto DEF Recargar, TypeOK, TiposDeSaldo
    <2>3. recarga' \in [Recargas -> EstadosRecarga] /\ creditos' \in [Recargas -> Nat]
      BY <1>1 DEF Recargar, TypeOK, Acreditada, EstadosRecarga
    <2> QED BY <1>1, <2>2, <2>3 DEF Recargar, TypeOK, TiposDeSaldo, varsRegistro, varsPeticion
  <1>2. ASSUME NEW r \in Recargas, CrearPendiente(r) PROVE TypeOK'
    BY <1>2 DEF CrearPendiente, TypeOK, EstadosRecarga, varsRegistro, varsSaldo, varsPeticion
  <1>3. ASSUME NEW h \in Hijos, NEW monto \in {-1, 1}, AjustarSaldo(h, monto) PROVE TypeOK'
    <2>1. TiposDeSaldo
      BY <1>3, MoverEfecto DEF AjustarSaldo, TypeOK, TiposDeSaldo
    <2> QED BY <1>3, <2>1
        DEF AjustarSaldo, TypeOK, TiposDeSaldo, varsRegistro, varsRecarga, varsPeticion
  <1>4. CASE UNCHANGED varsAlmuerzo
    BY <1>4 DEF varsAlmuerzo, TypeOK, varsRegistro, varsSaldo, varsRecarga, varsPeticion
  <1> QED BY <1>1, <1>2, <1>3, <1>4, TypePeticion DEF NextAlmuerzos

\* Every variable of the lunch account keeps its type, whatever the constants.
THEOREM Tipos == SpecAlmuerzos => []TypeOK
  BY TypeInicial, TypePaso, PTL DEF SpecAlmuerzos

-----------------------------------------------------------------------------
(* The balance.  A movement leaves it equal to the ledger, and a PATCH that *)
(* writes another balance than the present one is in pisado until the next. *)

LEMMA SaldoPaso ==
    TypeOK /\ SoloPatchDescuadra /\ [NextAlmuerzos]_varsAlmuerzo => SoloPatchDescuadra'
  <1> SUFFICES ASSUME TypeOK, SoloPatchDescuadra, [NextAlmuerzos]_varsAlmuerzo
               PROVE  SoloPatchDescuadra'
    OBVIOUS
  <1>1. ASSUME NEW h \in Hijos, NEW monto \in Int, Mover(h, monto)
        PROVE  SoloPatchDescuadra'
    BY <1>1, MoverEfecto DEF SoloPatchDescuadra
  <1>2. ASSUME UNCHANGED varsSaldo PROVE SoloPatchDescuadra'
    BY <1>2 DEF varsSaldo, SoloPatchDescuadra
  <1>3. ASSUME NEW p \in Peticiones, DePeticion(p) PROVE SoloPatchDescuadra'
    <2> DEFINE l == peticion[p]
    <2>1. l \in Lecturas
      BY DEF TypeOK
    <2>2. CASE Insertar(p) \/ AnularRegistro(p)
      <3>1. \/ UNCHANGED varsSaldo
            \/ l.op = "anular" /\ Mover(l.hijo, 1)
            \/ l.op = "contada" /\ Mover(HijoDe[l.envio], -1)
        BY <2>2 DEF Insertar, AnularRegistro
      <3>2. /\ l.op = "anular" => l.hijo \in Hijos
            /\ l.op = "contada" => HijoDe[l.envio] \in Hijos
        BY <2>1, LecturaDeOperacion, AlmuerzosAssumption DEF DeEnvio
      <3> QED BY <1>1, <1>2, <3>1, <3>2
    <2>3. CASE ConfirmarRecarga(p) \/ AnularRecarga(p)
      <3>1. HijoDeRecarga[l.recarga] \in Hijos
        BY <2>1, <2>3, LecturaDeOperacion, AlmuerzosAssumption
        DEF ConfirmarRecarga, AnularRecarga
      <3>2. Mover(HijoDeRecarga[l.recarga], 1) \/ Mover(HijoDeRecarga[l.recarga], -1)
        BY <2>3 DEF ConfirmarRecarga, AnularRecarga
      <3> QED BY <1>1, <3>1, <3>2
    <2>4. CASE GuardarPatch(p)
      <3>1. l.hijo \in Hijos
        BY <2>1, <2>4, LecturaDeOperacion DEF GuardarPatch
      <3> QED BY <2>4, <3>1 DEF GuardarPatch, SoloPatchDescuadra, TypeOK
    <2>5. CASE \/ \E e \in Envios :
                     \/ Recibir(p, e)
                     \/ \E op \in {"anular", "eliminar", "editar"} : LeerRegistro(p, op, e)
               \/ Contar(p) \/ EliminarRegistro(p)
               \/ \E d \in Envios, h \in Hijos, hoy \in BOOLEAN :
                     EditarRegistro(p, d, h, hoy) \/ Reinsertar(p, d, h, hoy)
               \/ \E r \in Recargas : LeerConfirmar(p, r) \/ LeerAnularRecarga(p, r)
               \/ \E h \in Hijos : LeerPatch(p, h)
               \/ Deshacer(p)
      <3>1. UNCHANGED varsSaldo
        BY <2>5
        DEF Recibir, LeerRegistro, Contar, EditarRegistro, Reinsertar, EliminarRegistro,
            LeerConfirmar, LeerAnularRecarga, LeerRecarga, LeerPatch, Deshacer
      <3> QED BY <1>2, <3>1
    <2> QED BY <1>3, <2>2, <2>3, <2>4, <2>5 DEF DePeticion
  <1>4. ASSUME NEW r \in Recargas, Recargar(r) PROVE SoloPatchDescuadra'
    <2>1. HijoDeRecarga[r] \in Hijos /\ Mover(HijoDeRecarga[r], 1)
      BY <1>4, AlmuerzosAssumption DEF Recargar
    <2> QED BY <1>1, <2>1
  <1>5. ASSUME NEW r \in Recargas, CrearPendiente(r) PROVE SoloPatchDescuadra'
    BY <1>2, <1>5 DEF CrearPendiente
  <1>6. ASSUME NEW h \in Hijos, NEW monto \in {-1, 1}, AjustarSaldo(h, monto)
        PROVE  SoloPatchDescuadra'
    BY <1>1, <1>6 DEF AjustarSaldo
  <1>7. CASE UNCHANGED varsAlmuerzo
    BY <1>2, <1>7 DEF varsAlmuerzo
  <1> QED BY <1>3, <1>4, <1>5, <1>6, <1>7 DEF NextAlmuerzos

\* The balance is the sum of its movements whatever requests overlap, but between
\* a PATCH of the limit that wrote an old one and the next movement.
THEOREM SaldoSeguro == SpecAlmuerzos => []SoloPatchDescuadra
  <1>1. InitAlmuerzos => SoloPatchDescuadra
    BY DEF InitAlmuerzos, SoloPatchDescuadra
  <1> QED BY <1>1, Tipos, SaldoPaso, PTL DEF SpecAlmuerzos

-----------------------------------------------------------------------------
(* What is undone.  Annulled rows say what was refunded; the counters of a *)
(* top-up, what stands of it.  No step reads more than its own row, so the *)
(* property needs no strengthening.                                        *)

LEMMA RecargaPaso ==
    TypeOK /\ RecargaRespaldada /\ [NextAlmuerzos]_varsAlmuerzo => RecargaRespaldada'
  <1> SUFFICES ASSUME TypeOK, RecargaRespaldada, [NextAlmuerzos]_varsAlmuerzo
               PROVE  RecargaRespaldada'
    OBVIOUS
  <1>1. \A r \in Recargas : creditos[r] \in Nat /\ reversos[r] \in Nat
    BY DEF TypeOK
  <1>2. ASSUME NEW p \in Peticiones, ConfirmarRecarga(p) PROVE RecargaRespaldada'
    <2>1. peticion[p].recarga \in Recargas
      BY <1>2, LecturaDeOperacion DEF ConfirmarRecarga, TypeOK
    <2> QED BY <1>1, <1>2, <2>1 DEF ConfirmarRecarga, Acreditada, RecargaRespaldada, TypeOK
  <1>3. ASSUME NEW p \in Peticiones, AnularRecarga(p) PROVE RecargaRespaldada'
    <2>1. peticion[p].recarga \in Recargas
      BY <1>3, LecturaDeOperacion DEF AnularRecarga, TypeOK
    <2> QED BY <1>1, <1>3, <2>1 DEF AnularRecarga, SigueConfirmada, RecargaRespaldada, TypeOK
  <1>4. ASSUME NEW r \in Recargas, Recargar(r) \/ CrearPendiente(r) PROVE RecargaRespaldada'
    BY <1>1, <1>4 DEF Recargar, CrearPendiente, Acreditada, RecargaRespaldada, TypeOK
  <1>5. ASSUME UNCHANGED varsRecarga PROVE RecargaRespaldada'
    BY <1>5 DEF varsRecarga, RecargaRespaldada
  <1>6. ASSUME NEW p \in Peticiones, DePeticion(p), ~ConfirmarRecarga(p), ~AnularRecarga(p)
        PROVE  UNCHANGED varsRecarga
    BY <1>6
    DEF DePeticion, Recibir, LeerRegistro, Contar, Insertar, AnularRegistro, EditarRegistro,
        Reinsertar, EliminarRegistro, LeerConfirmar, LeerAnularRecarga, LeerRecarga,
        LeerPatch, GuardarPatch, Deshacer
  <1>7. ASSUME NEW h \in Hijos, NEW monto \in {-1, 1}, AjustarSaldo(h, monto)
        PROVE  UNCHANGED varsRecarga
    BY <1>7 DEF AjustarSaldo
  <1>8. UNCHANGED varsAlmuerzo => UNCHANGED varsRecarga
    BY DEF varsAlmuerzo
  <1> QED BY <1>2, <1>3, <1>4, <1>5, <1>6, <1>7, <1>8 DEF NextAlmuerzos

LEMMA DevueltoPaso ==
    TypeOK /\ AnuladoDevuelto /\ [NextAlmuerzos]_varsAlmuerzo => AnuladoDevuelto'
  <1> SUFFICES ASSUME TypeOK, AnuladoDevuelto, [NextAlmuerzos]_varsAlmuerzo
               PROVE  AnuladoDevuelto'
    OBVIOUS
  <1>1. \A e \in Envios : devuelto[e] \in Nat /\ registro[e] \in Registro
    BY DEF TypeOK
  <1>2. \A p \in Peticiones : peticion[p].op \in DeEnvio => peticion[p].envio \in Envios
    BY LecturaDeOperacion DEF TypeOK
  <1>3. ASSUME NEW p \in Peticiones, Insertar(p) PROVE AnuladoDevuelto'
    <2> DEFINE e == peticion[p].envio
    <2>1. e \in Envios
      BY <1>2, <1>3 DEF Insertar, DeEnvio
    <2>2. /\ registro[e].estado = "NINGUNO" /\ UNCHANGED <<devuelto, aMano>>
          /\ registro'[e].estado = "REGISTRADO"
          /\ \A x \in Envios \ {e} : registro'[x] = registro[x]
      BY <1>3, <2>1 DEF Insertar, IdLibre, SinRegistro, TypeOK
    <2> QED BY <1>1, <2>1, <2>2 DEF AnuladoDevuelto
  <1>4. ASSUME NEW p \in Peticiones, AnularRegistro(p) PROVE AnuladoDevuelto'
    <2> DEFINE e == peticion[p].envio
    <2>1. e \in Envios
      BY <1>2, <1>4 DEF AnularRegistro, DeEnvio
    <2>2. /\ aMano' = aMano
          /\ registro'[e].estado = "ANULADO" /\ registro'[e].cobrado = registro[e].cobrado
          /\ \A x \in Envios \ {e} : registro'[x] = registro[x] /\ devuelto'[x] = devuelto[x]
      BY <1>1, <1>4, <2>1 DEF AnularRegistro, TypeOK, Registro
    <2>3. devuelto'[e] = IF registro[e].cobrado THEN devuelto[e] + 1 ELSE devuelto[e]
      BY <1>1, <1>4, <2>1 DEF AnularRegistro, SeDevuelve, TypeOK
    <2> QED BY <1>1, <2>1, <2>2, <2>3 DEF AnuladoDevuelto
  <1>5. ASSUME NEW p \in Peticiones, NEW d \in Envios, NEW h \in Hijos, NEW hoy \in BOOLEAN,
               EditarRegistro(p, d, h, hoy)
        PROVE  AnuladoDevuelto'
    <2> DEFINE fila == Escrita(peticion[p].fila, h, hoy)
    <2>0. peticion[p].envio \in Envios
      BY <1>2, <1>5 DEF EditarRegistro, DeEnvio
    <2> PICK e \in Envios : e = peticion[p].envio
      BY <2>0
    <2>1. /\ registro' = [registro EXCEPT ![e] = SinRegistro(e), ![d] = fila]
          /\ devuelto' = [devuelto EXCEPT ![e] = 0, ![d] = devuelto[e]]
          /\ aMano' = IF d = e /\ fila = registro[e] THEN aMano ELSE (aMano \ {e}) \cup {d}
      BY <1>5 DEF EditarRegistro
    <2> HIDE DEF fila
    <2>2. CASE d = e
      <3>1. /\ devuelto' = devuelto /\ aMano \subseteq aMano'
            /\ registro'[e] = registro[e] \/ e \in aMano'
            /\ \A x \in Envios \ {e} : registro'[x] = registro[x]
        BY <2>1, <2>2 DEF TypeOK
      <3> QED BY <3>1 DEF AnuladoDevuelto
    <2>3. CASE d # e
      <3>1. /\ devuelto'[e] = 0 /\ registro'[e].estado = "NINGUNO"
            /\ \A x \in Envios \ {e, d} : registro'[x] = registro[x] /\ devuelto'[x] = devuelto[x]
            /\ aMano \ {e} \subseteq aMano' /\ d \in aMano'
        BY <2>1, <2>3, SinRegistroTipo DEF TypeOK
      <3> QED BY <3>1 DEF AnuladoDevuelto
    <2> QED BY <2>2, <2>3
  <1>6. ASSUME NEW p \in Peticiones, NEW d \in Envios, NEW h \in Hijos, NEW hoy \in BOOLEAN,
               Reinsertar(p, d, h, hoy)
        PROVE  AnuladoDevuelto'
    <2>1. /\ devuelto' = devuelto /\ aMano' = aMano \cup {d}
          /\ \A x \in Envios \ {d} : registro'[x] = registro[x]
      BY <1>6 DEF Reinsertar, TypeOK
    <2> QED BY <2>1 DEF AnuladoDevuelto
  <1>7. ASSUME NEW p \in Peticiones, EliminarRegistro(p) PROVE AnuladoDevuelto'
    <2> DEFINE e == peticion[p].envio
    <2>1. e \in Envios
      BY <1>2, <1>7 DEF EliminarRegistro, DeEnvio
    <2>2. /\ devuelto'[e] = 0 /\ registro'[e].estado = "NINGUNO" /\ aMano' = aMano \ {e}
          /\ \A x \in Envios \ {e} : registro'[x] = registro[x] /\ devuelto'[x] = devuelto[x]
      BY <1>7, <2>1, SinRegistroTipo DEF EliminarRegistro, TypeOK
    <2> QED BY <2>1, <2>2 DEF AnuladoDevuelto
  <1>8. ASSUME UNCHANGED varsRegistro PROVE AnuladoDevuelto'
    BY <1>8 DEF varsRegistro, AnuladoDevuelto
  <1>9. ASSUME NEW p \in Peticiones, DePeticion(p), ~Insertar(p), ~AnularRegistro(p),
               ~EliminarRegistro(p),
               \A d \in Envios, h \in Hijos, hoy \in BOOLEAN :
                  ~EditarRegistro(p, d, h, hoy) /\ ~Reinsertar(p, d, h, hoy)
        PROVE  UNCHANGED varsRegistro
    BY <1>9
    DEF DePeticion, Recibir, LeerRegistro, Contar, LeerConfirmar, LeerAnularRecarga,
        LeerRecarga, ConfirmarRecarga, AnularRecarga, LeerPatch, GuardarPatch, Deshacer
  <1>10. ASSUME NEW r \in Recargas, Recargar(r) \/ CrearPendiente(r)
         PROVE  UNCHANGED varsRegistro
    BY <1>10 DEF Recargar, CrearPendiente
  <1>11. ASSUME NEW h \in Hijos, NEW monto \in {-1, 1}, AjustarSaldo(h, monto)
         PROVE  UNCHANGED varsRegistro
    BY <1>11 DEF AjustarSaldo
  <1>12. UNCHANGED varsAlmuerzo => UNCHANGED varsRegistro
    BY DEF varsAlmuerzo
  <1> QED BY <1>3, <1>4, <1>5, <1>6, <1>7, <1>8, <1>9, <1>10, <1>11, <1>12
      DEF NextAlmuerzos

\* A charged lunch that is annulled is refunded, one that is not annulled is
\* not; a top-up that stands has a credit that nobody has undone.
THEOREM DeshechoSeguro == SpecAlmuerzos => []DeshechoRespaldado
  <1>1. InitAlmuerzos => AnuladoDevuelto /\ RecargaRespaldada
    <2> SUFFICES ASSUME InitAlmuerzos PROVE AnuladoDevuelto /\ RecargaRespaldada
      OBVIOUS
    <2>1. \A e \in Envios : registro[e] = SinRegistro(e) /\ devuelto[e] = 0
      BY DEF InitAlmuerzos
    <2>2. \A e \in Envios : ~(devuelto[e] > 0) /\ registro[e].estado # "ANULADO"
      <3>1. \A e \in Envios : registro[e].estado = "NINGUNO"
        BY <2>1, SinRegistroTipo
      <3> QED BY <2>1, <3>1
    <2>4. AnuladoDevuelto
      BY <2>2, Zenon DEF AnuladoDevuelto
    <2>3. RecargaRespaldada
      BY DEF InitAlmuerzos, RecargaRespaldada
    <2> QED BY <2>3, <2>4
  <1>2. AnuladoDevuelto /\ RecargaRespaldada => DeshechoRespaldado
    BY DEF DeshechoRespaldado
  <1> QED BY <1>1, <1>2, Tipos, RecargaPaso, DevueltoPaso, PTL DEF SpecAlmuerzos

-----------------------------------------------------------------------------
(* The lunches of a day.  A request that has counted holds the lock of the *)
(* pupil, so what it counted can only have become less when it inserts.    *)
(* Rows that a PUT wrote are left out: the count is about the others.      *)

Vigentes(h) == DelDia(h) \ aMano

Contada(q) == peticion[q].op = "contada"

\* Room was left for the lunch of a request that has counted
ConLugar ==
    \A q \in Peticiones : Contada(q) =>
        LET h == HijoDe[peticion[q].envio]
        IN  /\ \A x, y \in Vigentes(h) : x = y
            /\ peticion[q].primero => Vigentes(h) = {}

UnCandado ==
    \A q, s \in Peticiones :
        Contada(q) /\ Contada(s) /\ HijoDe[peticion[q].envio] = HijoDe[peticion[s].envio]
            => q = s

DosPorDia ==
    \A h \in Hijos : \A x, y, z \in Vigentes(h) : x = y \/ x = z \/ y = z

UnoCobrado ==
    \A h \in Hijos : \A x, y \in Vigentes(h) :
        registro[x].cobrado /\ registro[y].cobrado => x = y

CuentaInv == ConLugar /\ UnCandado /\ DosPorDia /\ UnoCobrado

\* A step that adds no lunch and lets no request count keeps all of it.
LEMMA CuentaMengua ==
    ASSUME CuentaInv,
           \A h \in Hijos : Vigentes(h)' \subseteq Vigentes(h),
           \A h \in Hijos : \A e \in Vigentes(h)' : registro'[e] = registro[e],
           \A q \in Peticiones : peticion'[q] = peticion[q] \/ ~Contada(q)',
           \A q \in Peticiones : Contada(q) => HijoDe[peticion[q].envio] \in Hijos
    PROVE  CuentaInv'
  <1>1. \A q \in Peticiones : Contada(q)' => Contada(q) /\ peticion'[q] = peticion[q]
    BY DEF Contada
  <1>2. ConLugar'
    BY <1>1 DEF CuentaInv, ConLugar
  <1>3. UnCandado'
    BY <1>1 DEF CuentaInv, UnCandado
  <1>4. DosPorDia'
    BY DEF CuentaInv, DosPorDia
  <1>5. UnoCobrado'
    BY DEF CuentaInv, UnoCobrado
  <1> QED BY <1>2, <1>3, <1>4, <1>5 DEF CuentaInv

LEMMA VigenteEs ==
    \A h, e : e \in Vigentes(h) <=>
        /\ e \in Envios /\ registro[e].hijo = h /\ registro[e].hoy
        /\ registro[e].estado = "REGISTRADO" /\ e \notin aMano
  BY DEF Vigentes, DelDia

\* A finite set of less than two elements has no two different ones.
LEMMA MenosDeDos ==
    ASSUME NEW S, IsFiniteSet(S), Cardinality(S) < 2
    PROVE  \A x, y \in S : x = y
  <1> SUFFICES ASSUME NEW x \in S, NEW y \in S, x # y PROVE FALSE
    OBVIOUS
  <1>1. IsFiniteSet(S \ {x}) /\ Cardinality(S \ {x}) = Cardinality(S) - 1
    BY FS_RemoveElement
  <1>2. Cardinality(S) \in Nat
    BY FS_CardinalityType
  <1>3. Cardinality(S \ {x}) = 0
    BY <1>1, <1>2, FS_CardinalityType
  <1> QED BY <1>1, <1>3, FS_EmptySet

\* ... and one without two different ones has at most one, without three at
\* most two.
LEMMA AloSumoUno ==
    ASSUME NEW S, IsFiniteSet(S), \A x, y \in S : x = y
    PROVE  Cardinality(S) <= 1
  <1>1. CASE S = {}
    BY <1>1, FS_EmptySet
  <1>2. ASSUME NEW x \in S PROVE Cardinality(S) <= 1
    <2>1. S = {x}
      BY <1>2
    <2> QED BY <2>1, FS_Singleton
  <1> QED BY <1>1, <1>2

LEMMA AloSumoDos ==
    ASSUME NEW S, IsFiniteSet(S), \A x, y, z \in S : x = y \/ x = z \/ y = z
    PROVE  Cardinality(S) <= 2
  <1>1. CASE S = {}
    BY <1>1, FS_EmptySet
  <1>2. ASSUME NEW x \in S PROVE Cardinality(S) <= 2
    <2>1. IsFiniteSet(S \ {x}) /\ Cardinality(S \ {x}) = Cardinality(S) - 1
      BY <1>2, FS_RemoveElement
    <2>2. Cardinality(S \ {x}) <= 1
      BY <1>2, <2>1, AloSumoUno
    <2> QED BY <2>1, <2>2, FS_CardinalityType
  <1> QED BY <1>1, <1>2

LEMMA CuentaPaso ==
    TypeOK /\ CuentaInv /\ [NextAlmuerzos]_varsAlmuerzo => CuentaInv'
  <1> SUFFICES ASSUME TypeOK, CuentaInv, [NextAlmuerzos]_varsAlmuerzo PROVE CuentaInv'
    OBVIOUS
  <1>1. \A p \in Peticiones : peticion[p].op \in DeEnvio =>
           peticion[p].envio \in Envios /\ HijoDe[peticion[p].envio] \in Hijos
    BY LecturaDeOperacion, AlmuerzosAssumption DEF TypeOK
  <1>2. \A q \in Peticiones : Contada(q) => HijoDe[peticion[q].envio] \in Hijos
    BY <1>1 DEF Contada, DeEnvio
  <1>3. ASSUME UNCHANGED varsRegistro,
               \A q \in Peticiones : peticion'[q] = peticion[q] \/ ~Contada(q)'
        PROVE  CuentaInv'
    <2>1. \A h \in Hijos : Vigentes(h)' = Vigentes(h)
      BY <1>3 DEF varsRegistro, Vigentes, DelDia
    <2> QED BY <1>2, <1>3, <2>1, CuentaMengua DEF varsRegistro
  <1>4. ASSUME NEW p \in Peticiones, Responder(p)
        PROVE  \A q \in Peticiones : peticion'[q] = peticion[q] \/ ~Contada(q)'
    BY <1>4, ResponderTipo, LibreEsLectura DEF Contada
  <1>5. ASSUME NEW p \in Peticiones, NEW lectura, lectura.op # "contada",
               Recordar(p, lectura) \/ RecordarEdicion(p, lectura)
        PROVE  \A q \in Peticiones : peticion'[q] = peticion[q] \/ ~Contada(q)'
    BY <1>5 DEF Recordar, RecordarEdicion, Contada, TypeOK
  <1>6. ASSUME NEW p \in Peticiones, Contar(p) PROVE CuentaInv'
    <2> DEFINE e == peticion[p].envio
               h == HijoDe[e]
               vacio == DelDia(h) = {}
               l == [op |-> "contada", envio |-> e, primero |-> vacio]
    <2>1. e \in Envios /\ h \in Hijos
      BY <1>1, <1>6 DEF Contar, DeEnvio
    <2>2. /\ ~HijoBloqueado(h) /\ Cardinality(DelDia(h)) < 2
          /\ Recordar(p, l) /\ UNCHANGED varsRegistro
      BY <1>6 DEF Contar
    <2>3. /\ peticion'[p] = l
          /\ \A q \in Peticiones \ {p} : peticion'[q] = peticion[q]
      BY <2>2 DEF Recordar, TypeOK
    <2>4. \A k : Vigentes(k)' = Vigentes(k)
      BY <2>2 DEF varsRegistro, Vigentes, DelDia
    <2>5. \A x, y \in Vigentes(h) : x = y
      <3>1. IsFiniteSet(DelDia(h))
        BY AlmuerzosAssumption, FS_Subset DEF DelDia
      <3> QED BY <2>2, <3>1, MenosDeDos DEF Vigentes
    <2>6. DelDia(h) = {} => Vigentes(h) = {}
      BY DEF Vigentes
    <2>7. /\ peticion'[p].op = "contada" /\ peticion'[p].envio = e
          /\ peticion'[p].primero => DelDia(h) = {}
      <3>1. peticion'[p].op = "contada" /\ peticion'[p].envio = e
        BY <2>3
      <3>2. peticion'[p].primero = vacio
        <4> HIDE DEF vacio
        <4> QED BY <2>3
      <3> QED BY <3>1, <3>2, Zenon DEF vacio
    <2> HIDE DEF l
    <2>8. ConLugar'
      BY <2>3, <2>4, <2>5, <2>6, <2>7 DEF CuentaInv, ConLugar, Contada
    <2>9. \A q \in Peticiones : Contada(q) => HijoDe[peticion[q].envio] # h
      BY <2>2 DEF HijoBloqueado, Contada
    <2>10. UnCandado'
      BY <2>3, <2>7, <2>9 DEF CuentaInv, UnCandado, Contada
    <2>11. DosPorDia' /\ UnoCobrado'
      BY <2>2, <2>4 DEF CuentaInv, DosPorDia, UnoCobrado, varsRegistro
    <2> QED BY <2>8, <2>10, <2>11 DEF CuentaInv
  <1>7. ASSUME NEW p \in Peticiones, Insertar(p) PROVE CuentaInv'
    <2>0. peticion[p].envio \in Envios /\ HijoDe[peticion[p].envio] \in Hijos /\ Contada(p)
      BY <1>1, <1>7 DEF Insertar, DeEnvio, Contada
    <2> PICK e \in Envios, h \in Hijos : e = peticion[p].envio /\ h = HijoDe[e]
      BY <2>0
    <2>1. Contada(p)
      BY <2>0
    <2>2. /\ registro' = [registro EXCEPT ![e] =
                             [SinRegistro(e) EXCEPT !.estado = "REGISTRADO",
                                                    !.cobrado = peticion[p].primero]]
          /\ aMano' = aMano /\ IdLibre(e)
          /\ Responder(p)
      BY <1>7 DEF Insertar
    <2>3. /\ registro'[e].cobrado = peticion[p].primero
          /\ registro'[e].hijo = h /\ registro[e].estado = "NINGUNO"
          /\ \A x \in Envios \ {e} : registro'[x] = registro[x]
      BY <2>1, <2>2 DEF TypeOK, SinRegistro, IdLibre
    <2>4. /\ Vigentes(h)' \subseteq Vigentes(h) \cup {e}
          /\ \A k \in Hijos \ {h} : Vigentes(k)' = Vigentes(k)
          /\ \A k \in Hijos : Vigentes(k) \subseteq Envios
      BY <2>1, <2>2, <2>3 DEF Vigentes, DelDia
    <2>5. /\ \A x, y \in Vigentes(h) : x = y
          /\ peticion[p].primero => Vigentes(h) = {}
      BY <2>1 DEF CuentaInv, ConLugar
    <2>6. \A q \in Peticiones :
             Contada(q)' => /\ Contada(q) /\ peticion'[q] = peticion[q]
                            /\ HijoDe[peticion[q].envio] \in Hijos \ {h}
      BY <1>2, <1>4, <2>1, <2>2, ResponderTipo, LibreEsLectura
      DEF CuentaInv, UnCandado, Contada
    <2>7. ConLugar'
      BY <2>4, <2>6 DEF CuentaInv, ConLugar
    <2>8. UnCandado'
      BY <2>6 DEF CuentaInv, UnCandado
    <2>9. DosPorDia'
      BY <2>4, <2>5 DEF CuentaInv, DosPorDia
    <2>10. ASSUME NEW k \in Hijos, NEW x \in Vigentes(k)', NEW y \in Vigentes(k)',
                  registro'[x].cobrado, registro'[y].cobrado
           PROVE  x = y
      <3>1. CASE k # h
        <4>1. k \in Hijos \ {h} /\ x \in Vigentes(k) /\ y \in Vigentes(k)
          BY <2>4, <2>10, <3>1
        <4>2. x # e /\ y # e
          BY <2>3, <4>1 DEF Vigentes, DelDia
        <4> QED BY <2>3, <2>4, <2>10, <4>1, <4>2 DEF CuentaInv, UnoCobrado
      <3>2. CASE k = h
        <4>1. x \in Vigentes(h) \cup {e} /\ y \in Vigentes(h) \cup {e}
          BY <2>4, <2>10, <3>2
        <4>2. CASE peticion[p].primero
          BY <2>5, <4>1, <4>2
        <4>3. CASE ~peticion[p].primero
          <5>1. x # e /\ y # e
            BY <2>3, <2>10, <4>3
          <5> QED BY <2>5, <4>1, <5>1
        <4> QED BY <4>2, <4>3
      <3> QED BY <3>1, <3>2
    <2>11. UnoCobrado'
      BY <2>10 DEF UnoCobrado
    <2> QED BY <2>7, <2>8, <2>9, <2>11 DEF CuentaInv
  <1>8. ASSUME NEW p \in Peticiones, AnularRegistro(p) PROVE CuentaInv'
    <2> DEFINE e == peticion[p].envio
    <2>1. e \in Envios
      BY <1>1, <1>8 DEF AnularRegistro, DeEnvio
    <2>2. /\ registro'[e].estado = "ANULADO" /\ aMano' = aMano
          /\ \A x \in Envios \ {e} : registro'[x] = registro[x]
      BY <1>8, <2>1 DEF AnularRegistro, TypeOK, Registro
    <2>3. \A h \in Hijos : Vigentes(h)' \subseteq Vigentes(h) \ {e}
      BY <2>2 DEF Vigentes, DelDia
    <2>4. \A h \in Hijos : \A x \in Vigentes(h)' : registro'[x] = registro[x]
      BY <2>2, <2>3 DEF Vigentes, DelDia
    <2>5. Responder(p)
      BY <1>8 DEF AnularRegistro
    <2> QED BY <1>2, <1>4, <2>3, <2>4, <2>5, CuentaMengua
  <1>9. ASSUME NEW p \in Peticiones, NEW d \in Envios, NEW h \in Hijos, NEW hoy \in BOOLEAN,
               EditarRegistro(p, d, h, hoy) \/ Reinsertar(p, d, h, hoy)
        PROVE  CuentaInv'
    <2>0. peticion[p].envio \in Envios
      BY <1>1, <1>9 DEF EditarRegistro, Reinsertar, DeEnvio
    <2> PICK e \in Envios : e = peticion[p].envio
      BY <2>0
    <2>1. \A x \in Envios :
             \/ registro'[x] = registro[x] /\ (x \in aMano => x \in aMano')
             \/ registro'[x].estado = "NINGUNO"
             \/ x \in aMano'
      <3> DEFINE fila == Escrita(peticion[p].fila, h, hoy)
      <3>1. CASE EditarRegistro(p, d, h, hoy)
        <4>1. /\ registro' = [registro EXCEPT ![e] = SinRegistro(e), ![d] = fila]
              /\ aMano' = IF d = e /\ fila = registro[e] THEN aMano
                          ELSE (aMano \ {e}) \cup {d}
          BY <3>1 DEF EditarRegistro
        <4> HIDE DEF fila
        <4>2. CASE d = e
          BY <4>1, <4>2 DEF TypeOK
        <4>3. CASE d # e
          BY <4>1, <4>3, SinRegistroTipo DEF TypeOK
        <4> QED BY <4>2, <4>3
      <3>2. CASE Reinsertar(p, d, h, hoy)
        BY <3>2 DEF Reinsertar, TypeOK
      <3> QED BY <1>9, <3>1, <3>2
    <2>3. \A k \in Hijos : Vigentes(k)' \subseteq Vigentes(k)
      BY <2>1 DEF Vigentes, DelDia
    <2>4. \A k \in Hijos : \A x \in Vigentes(k)' : registro'[x] = registro[x]
      BY <2>1 DEF Vigentes, DelDia
    <2>5. \A q \in Peticiones : peticion'[q] = peticion[q] \/ ~Contada(q)'
      <3>1. CASE EditarRegistro(p, d, h, hoy)
        <4>1. \A q \in Peticiones :
                 peticion'[q] = IF q = p THEN Libre ELSE Sigue(e, d, peticion[q])
          BY <3>1 DEF EditarRegistro
        <4>2. \A q \in Peticiones : peticion[q] \in Lecturas
          BY DEF TypeOK
        <4> QED BY <4>1, <4>2, SigueEsLectura, LibreEsLectura DEF Contada
      <3>2. CASE Reinsertar(p, d, h, hoy)
        BY <1>4, <3>2 DEF Reinsertar
      <3> QED BY <1>9, <3>1, <3>2
    <2> QED BY <1>2, <2>3, <2>4, <2>5, CuentaMengua
  <1>10. ASSUME NEW p \in Peticiones, EliminarRegistro(p) PROVE CuentaInv'
    <2> DEFINE e == peticion[p].envio
    <2>1. e \in Envios
      BY <1>1, <1>10 DEF EliminarRegistro, DeEnvio
    <2>2. /\ registro'[e].estado = "NINGUNO" /\ aMano' = aMano \ {e}
          /\ \A x \in Envios \ {e} : registro'[x] = registro[x]
      BY <1>10, <2>1, SinRegistroTipo DEF EliminarRegistro, TypeOK
    <2>3. \A h \in Hijos : Vigentes(h)' \subseteq Vigentes(h) \ {e}
      BY <2>2 DEF Vigentes, DelDia
    <2>4. \A h \in Hijos : \A x \in Vigentes(h)' : registro'[x] = registro[x]
      BY <2>2, <2>3 DEF Vigentes, DelDia
    <2>5. \A q \in Peticiones : peticion'[q] = SinFila(e, peticion[q]) /\ peticion[q] \in Lecturas
      BY <1>10 DEF EliminarRegistro, TypeOK
    <2>6. \A q \in Peticiones : peticion'[q] = peticion[q] \/ ~Contada(q)'
      BY <2>1, <2>5, SinFilaEsLectura DEF Contada
    <2> QED BY <1>2, <2>3, <2>4, <2>6, CuentaMengua
  <1>11. ASSUME NEW p \in Peticiones, DePeticion(p), ~Contar(p), ~Insertar(p),
                ~AnularRegistro(p), ~EliminarRegistro(p),
                \A d \in Envios, h \in Hijos, hoy \in BOOLEAN :
                   ~EditarRegistro(p, d, h, hoy) /\ ~Reinsertar(p, d, h, hoy)
         PROVE  CuentaInv'
    <2>1. UNCHANGED varsRegistro
      BY <1>11
      DEF DePeticion, Recibir, LeerRegistro, LeerConfirmar, LeerAnularRecarga, LeerRecarga,
          ConfirmarRecarga, AnularRecarga, LeerPatch, GuardarPatch, Deshacer
    <2>2. CASE ConfirmarRecarga(p) \/ AnularRecarga(p) \/ GuardarPatch(p) \/ Deshacer(p)
      <3>1. Responder(p)
        BY <2>2 DEF ConfirmarRecarga, AnularRecarga, GuardarPatch, Deshacer
      <3> QED BY <1>3, <1>4, <2>1, <3>1
    <2>3. CASE \E e \in Envios :
                  \/ Recibir(p, e)
                  \/ \E op \in {"anular", "eliminar", "editar"} : LeerRegistro(p, op, e)
      <3>1. PICK lectura : /\ lectura.op # "contada"
                           /\ Recordar(p, lectura) \/ RecordarEdicion(p, lectura)
        BY <2>3 DEF Recibir, LeerRegistro
      <3> QED BY <1>3, <1>5, <2>1, <3>1
    <2>4. CASE \/ \E r \in Recargas : LeerConfirmar(p, r) \/ LeerAnularRecarga(p, r)
               \/ \E h \in Hijos : LeerPatch(p, h)
      <3>1. PICK lectura : /\ lectura.op # "contada"
                           /\ Recordar(p, lectura) \/ RecordarEdicion(p, lectura)
        BY <2>4 DEF LeerConfirmar, LeerAnularRecarga, LeerRecarga, LeerPatch
      <3> QED BY <1>3, <1>5, <2>1, <3>1
    <2> QED BY <1>11, <2>2, <2>3, <2>4 DEF DePeticion
  <1>12. ASSUME UNCHANGED <<varsRegistro, peticion>> PROVE CuentaInv'
    BY <1>3, <1>12
  <1>13. ASSUME NEW r \in Recargas, Recargar(r) \/ CrearPendiente(r)
         PROVE  UNCHANGED <<varsRegistro, peticion>>
    BY <1>13 DEF Recargar, CrearPendiente, varsPeticion
  <1>14. ASSUME NEW h \in Hijos, NEW monto \in {-1, 1}, AjustarSaldo(h, monto)
         PROVE  UNCHANGED <<varsRegistro, peticion>>
    BY <1>14 DEF AjustarSaldo, varsPeticion
  <1>15. UNCHANGED varsAlmuerzo => UNCHANGED <<varsRegistro, peticion>>
    BY DEF varsAlmuerzo, varsPeticion
  <1> QED BY <1>6, <1>7, <1>8, <1>9, <1>10, <1>11, <1>12, <1>13, <1>14, <1>15
      DEF NextAlmuerzos

LEMMA CuentaImplica == CuentaInv => UnCobroPorDia
  <1> SUFFICES ASSUME CuentaInv, NEW h \in Hijos
               PROVE  /\ Cardinality(DelDia(h) \ aMano) <= 2
                      /\ Cardinality({e \in DelDia(h) \ aMano : registro[e].cobrado}) <= 1
    BY DEF UnCobroPorDia
  <1>1. DelDia(h) \ aMano = Vigentes(h)
    BY DEF Vigentes
  <1>2. IsFiniteSet(Vigentes(h)) /\ IsFiniteSet({e \in Vigentes(h) : registro[e].cobrado})
    BY AlmuerzosAssumption, FS_Subset DEF Vigentes, DelDia
  <1>3. Cardinality(Vigentes(h)) <= 2
    BY <1>2, AloSumoDos DEF CuentaInv, DosPorDia
  <1>4. Cardinality({e \in Vigentes(h) : registro[e].cobrado}) <= 1
    <2>1. \A x, y \in {e \in Vigentes(h) : registro[e].cobrado} : x = y
      BY DEF CuentaInv, UnoCobrado
    <2> QED BY <1>2, <2>1, AloSumoUno
  <1> QED BY <1>1, <1>3, <1>4

\* At most two lunches a day and at most one charge, by any number of scans,
\* repetitions, annulments, edits and deletions at once; rows that a PUT/PATCH
\* changed apart.
THEOREM UnCobroSeguro == SpecAlmuerzos => []UnCobroPorDia
  <1>1. InitAlmuerzos => CuentaInv
    <2> SUFFICES ASSUME InitAlmuerzos PROVE CuentaInv
      OBVIOUS
    <2>1. \A h : Vigentes(h) = {}
      BY SinRegistroTipo DEF InitAlmuerzos, Vigentes, DelDia
    <2>2. \A q \in Peticiones : ~Contada(q)
      BY DEF InitAlmuerzos, Contada, Libre
    <2> QED BY <2>1, <2>2 DEF CuentaInv, ConLugar, UnCandado, DosPorDia, UnoCobrado
  <1> QED BY <1>1, Tipos, CuentaPaso, CuentaImplica, PTL DEF SpecAlmuerzos
-----------------------------------------------------------------------------
(* The offline queue.  Types, and that it is a way to use the account.     *)

\* A set of naturals has a least element.
LEMMA MinimoEsta ==
    ASSUME NEW S \in SUBSET Nat, S # {}
    PROVE  Min(S) \in S
  <1> DEFINE R == {ss \in Nat \X Nat : ss[1] < ss[2]}
  <1>1. PICK x \in S : \A y \in S : <<y, x>> \notin R
    <2>1. IsWellFoundedOn(R, Nat)
      BY NatLessThanWellFounded, Zenon DEF OpToRel
    <2> HIDE DEF R
    <2> QED BY <2>1, WFMin
  <1>2. ASSUME NEW y \in S PROVE x =< y
    <2>1. x \in Nat /\ y \in Nat
      OBVIOUS
    <2>2. ~ (y < x)
      BY <1>1, <2>1
    <2> QED BY <2>1, <2>2
  <1> QED BY <1>2 DEF Min

LEMMA SiguienteEsta ==
    ASSUME NEW almacen \in Almacen, almacen # Vacio
    PROVE  /\ Min(Ids(almacen)) \in Ids(almacen)
           /\ Ids(almacen) \subseteq Instantes
  <1>1. Instantes \subseteq Nat
    BY ColaAssumption DEF Instantes
  <1>2. Ids(almacen) # {}
    BY DEF Almacen, Vacio, Ids
  <1>3. Ids(almacen) \subseteq Instantes
    BY DEF Ids
  <1> QED BY <1>1, <1>2, <1>3, MinimoEsta

\* Every fetch carries a scan
FetchConEnvio ==
    \A p \in Peticiones : enVuelo[p] = SinFetch \/ enVuelo[p].envio \in Envios

TiposCola == TypeOKCola /\ FetchConEnvio

LEMMA SinFetchTipo == SinFetch \in Fetch /\ SinFetch.resp = "ninguna" /\ SinFetch.de = "nadie"
  BY ColaAssumption DEF SinFetch, Fetch, Instantes

\* A POST that reaches the server leaves its fetch waiting or answered, and is
\* at most the first step of a scan at the door.
LEMMA EnviarEfecto ==
    ASSUME TiposCola, NEW p \in Peticiones, NEW de \in Bucles \cup {"pagina"},
           NEW e \in Envios, NEW id \in Instantes, Enviar(p, de, e, id)
    PROVE  /\ enVuelo' \in [Peticiones -> Fetch]
           /\ \A q \in Peticiones \ {p} : enVuelo'[q] = enVuelo[q]
           /\ enVuelo[p] = SinFetch
           /\ enVuelo'[p].de = de /\ enVuelo'[p].envio = e /\ enVuelo'[p].id = id
           /\ \/ /\ enVuelo'[p].resp = "ok" /\ registro[e].estado # "NINGUNO"
                 /\ UNCHANGED varsAlmuerzo
              \/ /\ enVuelo'[p].resp = "espera" /\ Recibir(p, e)
  <1> DEFINE f(r) == [de |-> de, envio |-> e, id |-> id, resp |-> r]
  <1>1. \A r \in {"ok", "espera"} :
           /\ f(r) \in Fetch
           /\ f(r).de = de /\ f(r).envio = e /\ f(r).id = id /\ f(r).resp = r
    BY DEF Fetch
  <1>2. PICK r \in {"ok", "espera"} :
           /\ enVuelo' = [enVuelo EXCEPT ![p] = f(r)]
           /\ r = "ok" => registro[e].estado # "NINGUNO" /\ UNCHANGED varsAlmuerzo
           /\ r = "espera" => Recibir(p, e)
    BY DEF Enviar
  <1>3. enVuelo[p] = SinFetch
    BY DEF Enviar
  <1>4. enVuelo \in [Peticiones -> Fetch]
    BY DEF TiposCola, TypeOKCola
  <1> HIDE DEF f
  <1>5. enVuelo'[p] = f(r) /\ enVuelo' \in [Peticiones -> Fetch]
    BY <1>1, <1>2, <1>4
  <1>6. \A q \in Peticiones \ {p} : enVuelo'[q] = enVuelo[q]
    BY <1>2, <1>4
  <1> QED BY <1>1, <1>2, <1>3, <1>5, <1>6

\* A rejected fetch of a loop leaves a store and a list.
LEMMA RechazadaTipo ==
    ASSUME TiposCola, NEW b \in Bucles, NEW id \in Instantes, Rechazada(b, id)
    PROVE  cola' \in Almacen /\ lista' \in [Bucles -> Almacen] /\ perdidos' \subseteq Envios
  <1> DEFINE e == lista[b][id]
             quedan == IF b = "hook" THEN [Encolar(cola, e) EXCEPT ![id] = Nadie] ELSE cola
  <1>1. e \in Envios \cup {Nadie} /\ lista[b] \in Almacen
    BY DEF TiposCola, TypeOKCola, Almacen
  <1>2. quedan \in Almacen
    BY <1>1 DEF TiposCola, TypeOKCola, Almacen, Encolar
  <1>3. Resto(b, id, quedan) \in Almacen
    BY <1>1 DEF Resto, Almacen
  <1>4. Pisados(cola, e) \subseteq Envios
    BY DEF Pisados, TiposCola, TypeOKCola, Almacen
  <1>5. /\ cola' = quedan
        /\ lista' = [lista EXCEPT ![b] = Resto(b, id, quedan)]
        /\ perdidos' = IF b = "hook" THEN perdidos \cup Pisados(cola, e) ELSE perdidos
    BY DEF Rechazada
  <1> HIDE DEF e, quedan
  <1> QED BY <1>2, <1>3, <1>4, <1>5 DEF TiposCola, TypeOKCola
\* Every step of the queue is a step of the account or leaves it alone.
LEMMA ColaUsa ==
    TiposCola /\ [Next]_vars => [NextAlmuerzos]_varsAlmuerzo
  <1> SUFFICES ASSUME TiposCola, [Next]_vars PROVE [NextAlmuerzos]_varsAlmuerzo
    OBVIOUS
  <1>0. ASSUME NEW p \in Peticiones, NEW e \in Envios, Recibir(p, e)
        PROVE  [NextAlmuerzos]_varsAlmuerzo
    BY <1>0 DEF NextAlmuerzos, DePeticion
  <1>1. ASSUME NEW p \in Peticiones, NEW e \in Envios, Escanear(p, e)
        PROVE  [NextAlmuerzos]_varsAlmuerzo
    <2>1. Recibir(p, e) \/ UNCHANGED varsAlmuerzo
      BY <1>1 DEF Escanear, Enviar
    <2> QED BY <1>0, <2>1
  <1>2. ASSUME NEW p \in Peticiones, NEW b \in Bucles, EnviarSiguiente(p, b)
        PROVE  [NextAlmuerzos]_varsAlmuerzo
    <2>1. lista[b] \in Almacen /\ lista[b] # Vacio
      BY <1>2 DEF EnviarSiguiente, TiposCola, TypeOKCola
    <2>2. lista[b][Siguiente(b)] \in Envios
      BY <2>1, SiguienteEsta DEF Siguiente, Ids, Almacen
    <2>3. Recibir(p, lista[b][Siguiente(b)]) \/ UNCHANGED varsAlmuerzo
      BY <1>2 DEF EnviarSiguiente, Enviar
    <2> QED BY <1>0, <2>2, <2>3
  <1>3. ASSUME NEW p \in Peticiones, Servir(p) PROVE [NextAlmuerzos]_varsAlmuerzo
    <2>1. Contar(p) \/ Insertar(p) \/ Deshacer(p)
      BY <1>3 DEF Servir
    <2> QED BY <2>1 DEF NextAlmuerzos, DePeticion
  <1>4. CASE UNCHANGED varsAlmuerzo
    BY <1>4
  <1>5. UNCHANGED vars => UNCHANGED varsAlmuerzo
    BY DEF vars
  <1>6. \A e \in Envios : EscanearSinRed(e) => UNCHANGED varsAlmuerzo
    BY DEF EscanearSinRed
  <1>7. \A b \in Bucles :
           EmpezarVaciado(b) \/ EnviarSinRed(b) \/ TerminarVaciado(b) \/ Interrumpir(b)
              => UNCHANGED varsAlmuerzo
    BY DEF EmpezarVaciado, EnviarSinRed, TerminarVaciado, Interrumpir
  <1>8. \A p \in Peticiones : Contestar(p) \/ Cortar(p) => UNCHANGED varsAlmuerzo
    BY DEF Contestar, Cortar
  <1>9. Tic => UNCHANGED varsAlmuerzo
    BY DEF Tic
  <1> QED BY <1>1, <1>2, <1>3, <1>4, <1>5, <1>6, <1>7, <1>8, <1>9 DEF Next

\* A fetch that is answered, or that nobody waits for any more.
LEMMA FetchCambiado ==
    ASSUME TiposCola, NEW p \in Peticiones
    PROVE  /\ \A r \in {"ok", "400", "otra"} :
                 /\ ConRespuesta(p, r) \in Fetch
                 /\ \/ ConRespuesta(p, r) = SinFetch
                    \/ ConRespuesta(p, r).envio = enVuelo[p].envio
           /\ [enVuelo[p] EXCEPT !.de = "nadie"] \in Fetch
           /\ [enVuelo[p] EXCEPT !.de = "nadie"].envio = enVuelo[p].envio
  <1>1. enVuelo[p] \in Fetch
    BY DEF TiposCola, TypeOKCola
  <1> QED BY <1>1, SinFetchTipo DEF ConRespuesta, Fetch

LEMMA TiposColaPaso ==
    TiposCola /\ [Next]_vars => TiposCola'
  <1> SUFFICES ASSUME TiposCola, [Next]_vars PROVE TiposCola'
    OBVIOUS
  <1>0. TypeOK'
    BY ColaUsa, TypePaso DEF TiposCola, TypeOKCola
  <1> DEFINE EnviosBien == FetchConEnvio /\ enVuelo \in [Peticiones -> Fetch]
             TiendaBien == /\ cola \in Almacen /\ reloj \in Instantes /\ vaciado \subseteq Bucles
                           /\ lista \in [Bucles -> Almacen] /\ perdidos \subseteq Envios
             PaginaBien == /\ pagina \in [Envios -> {"nuevo", "enviando", "registrado",
                                                     "encolado", "error"}]
                           /\ rechazados \subseteq Envios
  <1>a. EnviosBien /\ TiendaBien /\ PaginaBien
    BY DEF TiposCola, TypeOKCola
  <1>b. EnviosBien' /\ TiendaBien' /\ PaginaBien' => TiposCola'
    BY <1>0 DEF TiposCola, TypeOKCola
  <1>c. \A p \in Peticiones : enVuelo[p] \in Fetch
    BY <1>a
  <1>d. /\ UNCHANGED <<cola, reloj, vaciado, lista, perdidos>> => TiendaBien'
        /\ UNCHANGED <<pagina, rechazados>> => PaginaBien'
        /\ UNCHANGED enVuelo => EnviosBien'
    BY <1>a DEF FetchConEnvio
  <1>e. ASSUME NEW e \in Envios \cup {Nadie}
        PROVE  Encolar(cola, e) \in Almacen /\ Pisados(cola, e) \subseteq Envios
    BY <1>a, <1>e DEF Encolar, Pisados, Almacen
  <1>f. ASSUME NEW p \in Peticiones, NEW f \in Fetch, enVuelo' = [enVuelo EXCEPT ![p] = f],
               f = SinFetch \/ f.envio \in Envios
        PROVE  EnviosBien'
    BY <1>a, <1>f DEF FetchConEnvio
  <1>1. ASSUME NEW p \in Peticiones, NEW e \in Envios, Escanear(p, e) PROVE TiposCola'
    <2>1. Enviar(p, "pagina", e, 0) /\ 0 \in Instantes
      BY <1>1, ColaAssumption DEF Escanear, Instantes
    <2>2. /\ enVuelo' \in [Peticiones -> Fetch] /\ enVuelo'[p].envio = e
          /\ \A q \in Peticiones \ {p} : enVuelo'[q] = enVuelo[q]
      BY <2>1, EnviarEfecto
    <2>3. EnviosBien'
      BY <1>a, <2>2 DEF FetchConEnvio
    <2>4. TiendaBien' /\ PaginaBien'
      BY <1>1, <1>a DEF Escanear
    <2> QED BY <1>b, <2>3, <2>4
  <1>2. ASSUME NEW e \in Envios, EscanearSinRed(e) PROVE TiposCola'
    BY <1>2, <1>a, <1>b, <1>d, <1>e DEF EscanearSinRed
  <1>3. ASSUME NEW b \in Bucles, EmpezarVaciado(b) PROVE TiposCola'
    BY <1>3, <1>a, <1>b, <1>d DEF EmpezarVaciado
  <1>4. ASSUME NEW p \in Peticiones, NEW b \in Bucles, EnviarSiguiente(p, b) PROVE TiposCola'
    <2>1. lista[b] \in Almacen /\ lista[b] # Vacio
      BY <1>4 DEF EnviarSiguiente, TiposCola, TypeOKCola
    <2>2. lista[b][Siguiente(b)] \in Envios /\ Siguiente(b) \in Instantes
      BY <2>1, SiguienteEsta DEF Siguiente, Ids, Almacen
    <2>3. EnviosBien'
      BY <1>4, <1>a, <2>2, EnviarEfecto DEF EnviarSiguiente, FetchConEnvio
    <2> QED BY <1>4, <1>b, <1>d, <2>3 DEF EnviarSiguiente, varsCola
  <1>5. ASSUME NEW b \in Bucles, EnviarSinRed(b) PROVE TiposCola'
    <2>1. lista[b] \in Almacen /\ lista[b] # Vacio
      BY <1>5 DEF EnviarSinRed, TiposCola, TypeOKCola
    <2>2. Siguiente(b) \in Instantes
      BY <2>1, SiguienteEsta DEF Siguiente
    <2> QED BY <1>5, <1>a, <1>b, <1>d, <2>2, RechazadaTipo DEF EnviarSinRed
  <1>6. ASSUME NEW b \in Bucles, TerminarVaciado(b) PROVE TiposCola'
    BY <1>6, <1>a, <1>b, <1>d DEF TerminarVaciado
  <1>7. ASSUME NEW b \in Bucles, Interrumpir(b) PROVE TiposCola'
    <2>1. EnviosBien'
      BY <1>7, <1>a, <1>c, FetchCambiado, SinFetchTipo DEF Interrumpir, FetchConEnvio
    <2>2. Vacio \in Almacen
      BY DEF Vacio, Almacen
    <2>3. TiendaBien'
      BY <1>7, <1>a, <2>2 DEF Interrumpir
    <2> QED BY <1>7, <1>b, <1>d, <2>1, <2>3 DEF Interrumpir
  <1>8. ASSUME NEW p \in Peticiones, Servir(p) PROVE TiposCola'
    <2>1. enVuelo[p].envio \in Envios
      BY <1>8, <1>a, SinFetchTipo DEF Servir, FetchConEnvio
    <2>2. \/ UNCHANGED enVuelo
          \/ \E r \in {"ok", "400", "otra"} :
                enVuelo' = [enVuelo EXCEPT ![p] = ConRespuesta(p, r)]
      BY <1>8 DEF Servir
    <2>3. EnviosBien'
      BY <1>d, <1>f, <2>1, <2>2, FetchCambiado
    <2>4. PaginaBien'
      BY <1>8, <1>a, <2>1 DEF Servir
    <2> QED BY <1>8, <1>b, <1>d, <2>3, <2>4 DEF Servir
  <1>9. ASSUME NEW p \in Peticiones, Contestar(p) PROVE TiposCola'
    <2> DEFINE f == enVuelo[p]
    <2>1. EnviosBien'
      BY <1>9, <1>f, SinFetchTipo DEF Contestar
    <2>2. f \in Fetch
      BY <1>c
    <2>3. CASE f.de = "pagina"
      BY <1>9, <1>a, <1>b, <1>d, <2>1, <2>3 DEF Contestar
    <2>4. CASE f.de # "pagina"
      <3>1. Contestada(f.de, f.id, f.resp) /\ UNCHANGED <<pagina, reloj, vaciado, rechazados>>
        BY <1>9, <2>4 DEF Contestar
      <3> DEFINE quedan == IF Definitiva(f.resp) THEN [cola EXCEPT ![f.id] = Nadie] ELSE cola
      <3>2. quedan \in Almacen
        BY <1>a DEF Almacen
      <3>3. f.de \in Bucles => Resto(f.de, f.id, quedan) \in Almacen
        BY <1>a DEF Resto, Almacen
      <3>4. /\ cola' = quedan /\ UNCHANGED perdidos
            /\ lista' = [lista EXCEPT ![f.de] = Resto(f.de, f.id, quedan)]
        BY <3>1 DEF Contestada
      <3> HIDE DEF quedan, f
      <3>5. TiendaBien'
        BY <1>a, <3>1, <3>2, <3>3, <3>4
      <3> QED BY <1>b, <1>d, <2>1, <3>1, <3>5
    <2> QED BY <2>3, <2>4
  <1>10. ASSUME NEW p \in Peticiones, Cortar(p) PROVE TiposCola'
    <2> DEFINE f == enVuelo[p]
    <2>1. f \in Fetch /\ f.de # "nadie" /\ f.envio \in Envios
      BY <1>10, <1>a, <1>c, SinFetchTipo DEF Cortar, FetchConEnvio
    <2>2. EnviosBien'
      BY <1>10, <1>f, <2>1, SinFetchTipo, FetchCambiado DEF Cortar
    <2>3. CASE f.de = "pagina"
      BY <1>10, <1>a, <1>b, <1>e, <2>1, <2>2, <2>3 DEF Cortar
    <2>4. CASE f.de # "pagina"
      <3>1. f.de \in Bucles /\ f.id \in Instantes
        BY <2>1, <2>4 DEF Fetch
      <3>2. Rechazada(f.de, f.id) /\ UNCHANGED <<pagina, reloj, vaciado, rechazados>>
        BY <1>10, <2>4 DEF Cortar
      <3> HIDE DEF f
      <3> QED BY <1>a, <1>b, <1>d, <2>2, <3>1, <3>2, RechazadaTipo
    <2> QED BY <2>3, <2>4
  <1>11. CASE Tic
    BY <1>11, <1>a, <1>b, <1>d, ColaAssumption DEF Tic, Instantes
  <1>12. CASE UNCHANGED vars
    BY <1>12, <1>b, <1>d DEF vars, varsCola
  <1> QED BY <1>1, <1>2, <1>3, <1>4, <1>5, <1>6, <1>7, <1>8, <1>9, <1>10, <1>11, <1>12
      DEF Next

LEMMA TiposColaInicial == Init => TiposCola
  BY TypeInicial, SinFetchTipo, ColaAssumption
  DEF Init, TiposCola, TypeOKCola, FetchConEnvio, Almacen, Vacio, Instantes

\* Every variable of the queue and of the account under it keeps its type, for
\* any scans and any length of the clock.
THEOREM TiposDeCola == Spec => []TypeOKCola
  <1>1. TiposCola => TypeOKCola
    BY DEF TiposCola
  <1> QED BY <1>1, TiposColaInicial, TiposColaPaso, PTL DEF Spec

\* The door with its queue is one way to use the lunch account, so whatever is
\* proved of the account holds of the two together.
THEOREM ColaImplementa == Spec => SpecAlmuerzos
  <1>1. Init => InitAlmuerzos
    BY DEF Init
  <1> QED BY <1>1, TiposColaInicial, TiposColaPaso, ColaUsa, PTL DEF Spec, SpecAlmuerzos
-----------------------------------------------------------------------------
(* A stored scan arrives.  An entry leaves the store when the server has   *)
(* settled the scan its loop read there, and that is still the one that is *)
(* stored: ids are milliseconds of the clock and a list is taken of past   *)
(* ones.  So it matters what a fetch that is answered knows, and that no   *)
(* other fetch of its loop answers for the same entry.                     *)

\* No entry of a later millisecond
Pasada == \A i \in Instantes : i > reloj => cola[i] = Nadie

\* What a loop has still to send is what is stored, unless the other has seen to it
ListaFiel ==
    \A b \in Bucles, i \in Instantes : lista[b][i] # Nadie =>
        i < reloj /\ cola[i] \in {Nadie, lista[b][i]}

\* What the answer of a fetch means
RespuestaFiel(p) ==
    LET f == enVuelo[p]
    IN  /\ f.resp = "ok" => registro[f.envio].estado # "NINGUNO"
        /\ f.resp = "400" => f.envio \in rechazados
        /\ f.resp = "espera" => /\ peticion[p].op \in {"buscada", "contada"}
                                /\ peticion[p].envio = f.envio
        /\ f.de = "nadie" => f.resp \in {"ninguna", "espera"}
        /\ f.de # "nadie" => f.resp # "ninguna"

\* A fetch of a loop is about an entry of its list ...
DeSuLista(p) ==
    LET f == enVuelo[p]
    IN  f.de \in Bucles => f.de \in vaciado /\ lista[f.de][f.id] = f.envio

\* ... and the only one of that loop
UnFetch ==
    \A p, q \in Peticiones :
        enVuelo[p].de \in Bucles /\ enVuelo[p].de = enVuelo[q].de => p = q

\* Nobody annuls or edits here, and each charge of a pupil is one row
Cobrados(h) == {e \in Envios : HijoDe[e] = h /\ registro[e].cobrado}

CobroInv ==
    /\ aMano = {}
    /\ \A e \in Envios : /\ registro[e].estado # "ANULADO"
                         /\ registro[e].cobrado => registro[e].estado = "REGISTRADO"
                         /\ registro[e].hijo = HijoDe[e] /\ registro[e].hoy
    /\ \A h \in Hijos : saldo[h] = libro[h]
    /\ \A h \in Hijos : saldo[h] = -Cardinality(Cobrados(h))

\* Of the account, only an insertion touches rows and balances here.
LEMMA SoloInserta ==
    ASSUME TiposCola, [Next]_vars
    PROVE  UNCHANGED <<varsRegistro, varsSaldo>> \/ \E p \in Peticiones : Insertar(p)
  <1>1. UNCHANGED varsAlmuerzo => UNCHANGED <<varsRegistro, varsSaldo>>
    BY DEF varsAlmuerzo
  <1>2. \A p, e : Recibir(p, e) => UNCHANGED <<varsRegistro, varsSaldo>>
    BY DEF Recibir
  <1>3. \A p, de, e, id : Enviar(p, de, e, id) => UNCHANGED <<varsRegistro, varsSaldo>>
    BY <1>1, <1>2 DEF Enviar
  <1>4. \A p : Servir(p) => UNCHANGED <<varsRegistro, varsSaldo>> \/ Insertar(p)
    BY DEF Servir, Contar, Deshacer
  <1>5. \A p \in Peticiones, e \in Envios : Escanear(p, e) => UNCHANGED <<varsRegistro, varsSaldo>>
    BY <1>3 DEF Escanear
  <1>6. \A p \in Peticiones, b \in Bucles :
           EnviarSiguiente(p, b) => UNCHANGED <<varsRegistro, varsSaldo>>
    BY <1>3 DEF EnviarSiguiente
  <1>7. \A e \in Envios : EscanearSinRed(e) => UNCHANGED varsAlmuerzo
    BY DEF EscanearSinRed
  <1>8. \A b \in Bucles :
           EmpezarVaciado(b) \/ EnviarSinRed(b) \/ TerminarVaciado(b) \/ Interrumpir(b)
              => UNCHANGED varsAlmuerzo
    BY DEF EmpezarVaciado, EnviarSinRed, TerminarVaciado, Interrumpir
  <1>9. \A p \in Peticiones : Contestar(p) \/ Cortar(p) => UNCHANGED varsAlmuerzo
    BY DEF Contestar, Cortar
  <1>10. Tic => UNCHANGED varsAlmuerzo
    BY DEF Tic
  <1>11. UNCHANGED vars => UNCHANGED varsAlmuerzo
    BY DEF vars
  <1> QED BY <1>1, <1>4, <1>5, <1>6, <1>7, <1>8, <1>9, <1>10, <1>11 DEF Next

LEMMA RegistroCrece ==
    ASSUME TiposCola, [Next]_vars
    PROVE  \A e \in Envios : registro[e].estado # "NINGUNO" => registro'[e].estado # "NINGUNO"
  <1>1. UNCHANGED varsRegistro => registro' = registro
    BY DEF varsRegistro
  <1>2. ASSUME NEW p \in Peticiones, Insertar(p), NEW e \in Envios,
               registro[e].estado # "NINGUNO"
        PROVE  registro'[e].estado # "NINGUNO"
    BY <1>2 DEF Insertar, TiposCola, TypeOKCola, TypeOK
  <1> QED BY <1>1, <1>2, SoloInserta

-----------------------------------------------------------------------------
(* The store *)

\* Entries leave a list or the store, and only the present millisecond takes
\* a new one.
LEMMA TiendaGuarda ==
    ASSUME TiposCola, Pasada, ListaFiel, reloj' = reloj,
           \A i \in Instantes \ {reloj} : cola'[i] \in {Nadie, cola[i]},
           \A b \in Bucles, i \in Instantes : lista'[b][i] \in {Nadie, lista[b][i]}
    PROVE  Pasada' /\ ListaFiel'
  <1>1. reloj \in Instantes /\ Instantes \subseteq Int
    BY ColaAssumption DEF TiposCola, TypeOKCola, Instantes
  <1>2. Pasada'
    BY <1>1 DEF Pasada
  <1>3. ASSUME NEW b \in Bucles, NEW i \in Instantes, lista'[b][i] # Nadie
        PROVE  i < reloj /\ cola'[i] \in {Nadie, lista'[b][i]}
    <2>1. lista'[b][i] = lista[b][i] /\ lista[b][i] # Nadie
      BY <1>3
    <2>2. i < reloj /\ cola[i] \in {Nadie, lista[b][i]}
      BY <2>1 DEF ListaFiel
    <2>3. cola'[i] \in {Nadie, cola[i]}
      BY <1>1, <2>2
    <2> QED BY <2>1, <2>2, <2>3
  <1> QED BY <1>2, <1>3 DEF ListaFiel

\* What is stored stays stored, or is known to be lost.
LEMMA EncolarEfecto ==
    ASSUME TiposCola, NEW e \in Envios, cola' = Encolar(cola, e),
           perdidos' = perdidos \cup Pisados(cola, e)
    PROVE  /\ \A i \in Instantes \ {reloj} : cola'[i] = cola[i]
           /\ e \in EnCola'
           /\ \A x \in EnCola : x \in EnCola' \/ x \in perdidos'
  <1>1. cola \in Almacen /\ reloj \in Instantes /\ e # Nadie
    BY ColaAssumption DEF TiposCola, TypeOKCola
  <1>2. cola'[reloj] = e /\ \A i \in Instantes \ {reloj} : cola'[i] = cola[i]
    BY <1>1 DEF Almacen, Encolar
  <1>3. e \in EnCola'
    BY <1>1, <1>2 DEF EnCola, Ids
  <1>4. ASSUME NEW x \in EnCola PROVE x \in EnCola' \/ x \in perdidos'
    <2>1. PICK i \in Instantes : cola[i] = x /\ x # Nadie
      BY DEF EnCola, Ids
    <2>2. CASE i = reloj
      BY <1>1, <1>2, <1>3, <2>1, <2>2 DEF Pisados
    <2>3. CASE i # reloj
      BY <1>2, <2>1, <2>3 DEF EnCola, Ids
    <2> QED BY <2>2, <2>3
  <1> QED BY <1>2, <1>3, <1>4

\* The same of the fetch of a loop that is rejected: the page stores the scan
\* again before the old entry goes.
LEMMA RechazadaEfecto ==
    ASSUME TiposCola, ListaFiel, NEW b \in Bucles, NEW id \in Instantes,
           lista[b][id] # Nadie, Rechazada(b, id)
    PROVE  /\ \A i \in Instantes \ {reloj} : cola'[i] \in {Nadie, cola[i]}
           /\ lista' = [lista EXCEPT ![b] = [lista[b] EXCEPT ![id] = Nadie]]
           /\ perdidos \subseteq perdidos'
           /\ \A x \in EnCola : x \in EnCola' \/ x \in perdidos'
  <1> DEFINE e == lista[b][id]
  <1>1. /\ cola \in Almacen /\ reloj \in Instantes /\ Instantes \subseteq Int
        /\ lista \in [Bucles -> Almacen]
    BY ColaAssumption DEF TiposCola, TypeOKCola, Instantes
  <1>2. e \in Envios /\ e # Nadie
    BY <1>1 DEF Almacen
  <1>3. id < reloj /\ cola[id] \in {Nadie, e}
    BY DEF ListaFiel
  <1>4. id # reloj
    BY <1>1, <1>3
  <1>5. lista' = [lista EXCEPT ![b] = [lista[b] EXCEPT ![id] = Nadie]]
    BY DEF Rechazada, Resto
  <1>6. CASE b # "hook"
    BY <1>5, <1>6 DEF Rechazada, EnCola, Ids
  <1>7. CASE b = "hook"
    <2>1. /\ cola' = [Encolar(cola, e) EXCEPT ![id] = Nadie]
          /\ perdidos' = perdidos \cup Pisados(cola, e)
      BY <1>7 DEF Rechazada
    <2> HIDE DEF e
    <2>2. /\ cola'[reloj] = e /\ cola'[id] = Nadie
          /\ \A i \in Instantes \ {reloj, id} : cola'[i] = cola[i]
      BY <1>1, <1>4, <2>1 DEF Almacen, Encolar
    <2>3. e \in EnCola'
      BY <1>1, <1>2, <2>2 DEF EnCola, Ids
    <2>4. ASSUME NEW x \in EnCola PROVE x \in EnCola' \/ x \in perdidos'
      <3>1. PICK i \in Instantes : cola[i] = x /\ x # Nadie
        BY DEF EnCola, Ids
      <3>2. CASE i = reloj
        BY <2>1, <2>3, <3>1, <3>2 DEF Pisados
      <3>3. CASE i = id
        BY <1>3, <2>3, <3>1, <3>3
      <3>4. CASE i # reloj /\ i # id
        BY <2>2, <3>1, <3>4 DEF EnCola, Ids
      <3> QED BY <3>2, <3>3, <3>4
    <2> QED BY <1>5, <2>1, <2>2, <2>4
  <1> QED BY <1>6, <1>7

\* An answer takes out of the store nothing but the scan it is about.
LEMMA ContestadaEfecto ==
    ASSUME TiposCola, ListaFiel, NEW b \in Bucles, NEW id \in Instantes, NEW resp,
           lista[b][id] # Nadie, Contestada(b, id, resp)
    PROVE  /\ \A i \in Instantes : cola'[i] \in {Nadie, cola[i]}
           /\ lista' = [lista EXCEPT ![b] = [lista[b] EXCEPT ![id] = Nadie]]
           /\ perdidos' = perdidos
           /\ \A x \in EnCola : x \in EnCola' \/ (x = lista[b][id] /\ resp \in {"ok", "400"})
  <1>1. cola \in Almacen /\ cola[id] \in {Nadie, lista[b][id]}
    BY DEF TiposCola, TypeOKCola, ListaFiel
  <1>2. lista' = [lista EXCEPT ![b] = [lista[b] EXCEPT ![id] = Nadie]] /\ perdidos' = perdidos
    BY DEF Contestada, Resto
  <1>3. CASE ~Definitiva(resp)
    BY <1>2, <1>3 DEF Contestada, EnCola, Ids
  <1>4. CASE Definitiva(resp)
    <2>1. cola' = [cola EXCEPT ![id] = Nadie]
      BY <1>4 DEF Contestada
    <2>2. cola'[id] = Nadie /\ \A i \in Instantes \ {id} : cola'[i] = cola[i]
      BY <1>1, <2>1 DEF Almacen
    <2>3. ASSUME NEW x \in EnCola PROVE x \in EnCola' \/ x = lista[b][id]
      <3>1. PICK i \in Instantes : cola[i] = x /\ x # Nadie
        BY DEF EnCola, Ids
      <3> QED BY <1>1, <2>2, <3>1 DEF EnCola, Ids
    <2> QED BY <1>2, <1>4, <2>2, <2>3 DEF Definitiva
  <1> QED BY <1>3, <1>4
-----------------------------------------------------------------------------
(* The answers *)

LEMMA SinFetchFiel ==
    ASSUME NEW p \in Peticiones, enVuelo'[p] = SinFetch
    PROVE  RespuestaFiel(p)'
  BY SinFetchTipo DEF RespuestaFiel

LEMMA RespuestaQueda ==
    ASSUME TiposCola, [Next]_vars, NEW p \in Peticiones, RespuestaFiel(p),
           enVuelo'[p] = enVuelo[p], peticion'[p] = peticion[p], rechazados \subseteq rechazados'
    PROVE  RespuestaFiel(p)'
  <1>1. enVuelo[p].resp = "ok" => enVuelo[p].envio \in Envios
    BY SinFetchTipo DEF TiposCola, FetchConEnvio
  <1> QED BY <1>1, RegistroCrece DEF RespuestaFiel

LEMMA EnviarFiel ==
    ASSUME TiposCola, [Next]_vars, NEW p \in Peticiones, NEW de \in Bucles \cup {"pagina"},
           NEW e \in Envios, NEW id \in Instantes, Enviar(p, de, e, id),
           \A q \in Peticiones : RespuestaFiel(q), rechazados' = rechazados
    PROVE  \A q \in Peticiones : RespuestaFiel(q)'
  <1>1. /\ \A q \in Peticiones \ {p} : enVuelo'[q] = enVuelo[q]
        /\ enVuelo'[p].de = de /\ enVuelo'[p].envio = e
        /\ \/ /\ enVuelo'[p].resp = "ok" /\ registro[e].estado # "NINGUNO"
              /\ UNCHANGED varsAlmuerzo
           \/ enVuelo'[p].resp = "espera" /\ Recibir(p, e)
    BY EnviarEfecto
  <1>2. de # "nadie"
    BY DEF Bucles
  <1>3. CASE enVuelo'[p].resp = "ok" /\ registro[e].estado # "NINGUNO" /\ UNCHANGED varsAlmuerzo
    <2>1. RespuestaFiel(p)'
      BY <1>1, <1>2, <1>3, RegistroCrece DEF RespuestaFiel
    <2>2. \A q \in Peticiones : peticion'[q] = peticion[q]
      BY <1>3 DEF varsAlmuerzo, varsPeticion
    <2> QED BY <1>1, <2>1, <2>2, RespuestaQueda
  <1>4. CASE enVuelo'[p].resp = "espera" /\ Recibir(p, e)
    <2>1. /\ peticion'[p].op = "buscada" /\ peticion'[p].envio = e
          /\ \A q \in Peticiones \ {p} : peticion'[q] = peticion[q]
      BY <1>4 DEF Recibir, Recordar, TiposCola, TypeOKCola, TypeOK
    <2>2. RespuestaFiel(p)'
      BY <1>1, <1>2, <1>4, <2>1 DEF RespuestaFiel
    <2> QED BY <1>1, <2>1, <2>2, RespuestaQueda
  <1> QED BY <1>1, <1>3, <1>4

LEMMA ServirFiel ==
    ASSUME TiposCola, [Next]_vars, NEW p \in Peticiones, Servir(p),
           \A q \in Peticiones : RespuestaFiel(q)
    PROVE  \A q \in Peticiones : RespuestaFiel(q)'
  <1> DEFINE f == enVuelo[p]
  <1>1. /\ f \in Fetch /\ f.resp = "espera" /\ f.envio \in Envios
        /\ peticion[p].op \in {"buscada", "contada"} /\ peticion[p].envio = f.envio
        /\ enVuelo \in [Peticiones -> Fetch]
    BY SinFetchTipo DEF Servir, RespuestaFiel, TiposCola, TypeOKCola, FetchConEnvio
  <1>2. rechazados \subseteq rechazados'
    BY DEF Servir
  <1>3. \A q \in Peticiones \ {p} : peticion'[q] = peticion[q]
    BY DEF Servir, Contar, Insertar, Deshacer, Recordar, Responder, TiposCola, TypeOKCola, TypeOK
  <1>4. \A q \in Peticiones \ {p} : enVuelo'[q] = enVuelo[q]
    BY <1>1 DEF Servir
  <1>5. \A q \in Peticiones \ {p} : RespuestaFiel(q)'
    BY <1>2, <1>3, <1>4, RespuestaQueda
  <1>6. CASE Contar(p) /\ UNCHANGED enVuelo
    <2>1. peticion'[p].op = "contada" /\ peticion'[p].envio = f.envio
      BY <1>1, <1>6 DEF Contar, Recordar, TiposCola, TypeOKCola, TypeOK
    <2>2. RespuestaFiel(p)'
      BY <1>1, <1>6, <2>1 DEF RespuestaFiel
    <2> QED BY <1>5, <2>2
  <1>7. ASSUME NEW r \in {"ok", "400", "otra"},
               enVuelo' = [enVuelo EXCEPT ![p] = ConRespuesta(p, r)],
               r = "ok" => registro'[f.envio].estado # "NINGUNO",
               r = "400" => f.envio \in rechazados'
        PROVE  \A q \in Peticiones : RespuestaFiel(q)'
    <2>1. CASE f.de = "nadie"
      BY <1>1, <1>5, <1>7, <2>1, SinFetchFiel DEF ConRespuesta
    <2>2. CASE f.de # "nadie"
      <3>1. enVuelo'[p] = [f EXCEPT !.resp = r]
        BY <1>1, <1>7, <2>2 DEF ConRespuesta
      <3>2. enVuelo'[p].resp = r /\ enVuelo'[p].envio = f.envio /\ enVuelo'[p].de = f.de
        BY <1>1, <3>1 DEF Fetch
      <3>3. RespuestaFiel(p)'
        BY <1>7, <2>2, <3>2 DEF RespuestaFiel
      <3> QED BY <1>5, <3>3
    <2> QED BY <2>1, <2>2
  <1>8. CASE Insertar(p) /\ enVuelo' = [enVuelo EXCEPT ![p] = ConRespuesta(p, "ok")]
    <2>1. registro'[f.envio].estado = "REGISTRADO"
      BY <1>1, <1>8 DEF Insertar, TiposCola, TypeOKCola, TypeOK
    <2> QED BY <1>7, <1>8, <2>1
  <1>9. ASSUME NEW r \in {"400", "otra"},
               enVuelo' = [enVuelo EXCEPT ![p] = ConRespuesta(p, r)],
               rechazados' = IF r = "400" THEN rechazados \cup {f.envio} ELSE rechazados
        PROVE  \A q \in Peticiones : RespuestaFiel(q)'
    BY <1>7, <1>9
  <1> QED BY <1>6, <1>8, <1>9 DEF Servir

LEMMA RespuestaPaso ==
    ASSUME TiposCola, [Next]_vars, \A q \in Peticiones : RespuestaFiel(q)
    PROVE  \A q \in Peticiones : RespuestaFiel(q)'
  <1>a. /\ enVuelo \in [Peticiones -> Fetch] /\ lista \in [Bucles -> Almacen]
        /\ \A q \in Peticiones : enVuelo[q] \in Fetch
    BY DEF TiposCola, TypeOKCola
  <1>b. ASSUME UNCHANGED <<varsAlmuerzo, enVuelo, rechazados>>
        PROVE  \A q \in Peticiones : RespuestaFiel(q)'
    BY <1>b, RespuestaQueda DEF varsAlmuerzo, varsPeticion
  <1>c. ASSUME NEW p \in Peticiones, NEW f \in {SinFetch, [enVuelo[p] EXCEPT !.de = "nadie"]},
               enVuelo[p].resp # "espera" => f = SinFetch,
               enVuelo'[p] = f, peticion'[p] = peticion[p]
        PROVE  RespuestaFiel(p)'
    <2>1. CASE f = SinFetch
      BY <1>c, <2>1, SinFetchFiel
    <2>2. CASE enVuelo[p].resp = "espera" /\ f = [enVuelo[p] EXCEPT !.de = "nadie"]
      <3>1. /\ enVuelo'[p].resp = "espera" /\ enVuelo'[p].envio = enVuelo[p].envio
            /\ enVuelo'[p].de = "nadie"
        BY <1>a, <1>c, <2>2 DEF Fetch
      <3> QED BY <1>c, <2>2, <3>1 DEF RespuestaFiel
    <2> QED BY <1>c, <2>1, <2>2
  <1>1. ASSUME NEW p \in Peticiones, NEW e \in Envios, Escanear(p, e)
        PROVE  \A q \in Peticiones : RespuestaFiel(q)'
    <2>1. Enviar(p, "pagina", e, 0) /\ 0 \in Instantes /\ rechazados' = rechazados
      BY <1>1, ColaAssumption DEF Escanear, Instantes
    <2> QED BY <2>1, EnviarFiel
  <1>2. ASSUME NEW p \in Peticiones, NEW b \in Bucles, EnviarSiguiente(p, b)
        PROVE  \A q \in Peticiones : RespuestaFiel(q)'
    <2>1. lista[b] \in Almacen /\ lista[b] # Vacio
      BY <1>2, <1>a DEF EnviarSiguiente
    <2>2. lista[b][Siguiente(b)] \in Envios /\ Siguiente(b) \in Instantes
      BY <2>1, SiguienteEsta DEF Siguiente, Ids, Almacen
    <2>3. Enviar(p, b, lista[b][Siguiente(b)], Siguiente(b)) /\ rechazados' = rechazados
      BY <1>2 DEF EnviarSiguiente, varsCola
    <2> QED BY <2>2, <2>3, EnviarFiel
  <1>3. ASSUME NEW b \in Bucles, Interrumpir(b)
        PROVE  \A q \in Peticiones : RespuestaFiel(q)'
    <2>1. UNCHANGED <<peticion, rechazados>>
      BY <1>3 DEF Interrumpir, varsAlmuerzo, varsPeticion
    <2>2. ASSUME NEW q \in Peticiones PROVE RespuestaFiel(q)'
      <3>1. CASE enVuelo[q].de # b
        BY <1>3, <2>1, <3>1, RespuestaQueda DEF Interrumpir
      <3>2. CASE enVuelo[q].de = b
        BY <1>3, <1>c, <2>1, <3>2 DEF Interrumpir
      <3> QED BY <3>1, <3>2
    <2> QED BY <2>2
  <1>4. ASSUME NEW p \in Peticiones, Contestar(p) \/ Cortar(p)
        PROVE  \A q \in Peticiones : RespuestaFiel(q)'
    <2>1. UNCHANGED <<peticion, rechazados>>
      BY <1>4 DEF Contestar, Cortar, varsAlmuerzo, varsPeticion
    <2>2. /\ \A q \in Peticiones \ {p} : enVuelo'[q] = enVuelo[q]
          /\ \/ enVuelo'[p] = SinFetch
             \/ /\ enVuelo[p].resp = "espera"
                /\ enVuelo'[p] = [enVuelo[p] EXCEPT !.de = "nadie"]
      BY <1>4, <1>a DEF Contestar, Cortar
    <2>3. RespuestaFiel(p)'
      BY <1>c, <2>1, <2>2
    <2> QED BY <2>1, <2>2, <2>3, RespuestaQueda
  <1>5. \A e \in Envios : EscanearSinRed(e) => UNCHANGED <<varsAlmuerzo, enVuelo, rechazados>>
    BY DEF EscanearSinRed
  <1>6. \A b \in Bucles :
           EmpezarVaciado(b) \/ EnviarSinRed(b) \/ TerminarVaciado(b)
              => UNCHANGED <<varsAlmuerzo, enVuelo, rechazados>>
    BY DEF EmpezarVaciado, EnviarSinRed, TerminarVaciado
  <1>7. Tic \/ UNCHANGED vars => UNCHANGED <<varsAlmuerzo, enVuelo, rechazados>>
    BY DEF Tic, vars, varsCola
  <1> QED BY <1>1, <1>2, <1>3, <1>4, <1>b, <1>5, <1>6, <1>7, ServirFiel DEF Next
-----------------------------------------------------------------------------
(* The lists of the loops and their fetches *)

ListaInv == Pasada /\ ListaFiel /\ (\A p \in Peticiones : DeSuLista(p)) /\ UnFetch

\* No new fetch of a loop, and those there are find their entry where it was.
LEMMA FetchGuarda ==
    ASSUME \A p \in Peticiones : DeSuLista(p), UnFetch,
           \A p \in Peticiones : enVuelo'[p].de \in Bucles =>
               /\ enVuelo'[p].de = enVuelo[p].de
               /\ enVuelo'[p].id = enVuelo[p].id
               /\ enVuelo'[p].envio = enVuelo[p].envio
               /\ enVuelo[p].de \in vaciado => enVuelo[p].de \in vaciado'
               /\ lista'[enVuelo[p].de][enVuelo[p].id] = lista[enVuelo[p].de][enVuelo[p].id]
    PROVE  (\A p \in Peticiones : DeSuLista(p)') /\ UnFetch'
  <1>1. \A p \in Peticiones : DeSuLista(p)'
    BY DEF DeSuLista
  <1>2. UnFetch'
    BY DEF UnFetch
  <1> QED BY <1>1, <1>2

\* The loop b is done with its entry id, and no other fetch of b is about it.
LEMMA HechoGuarda ==
    ASSUME TiposCola, ListaInv, NEW b \in Bucles, NEW id \in Instantes,
           reloj' = reloj, vaciado' = vaciado,
           \A i \in Instantes \ {reloj} : cola'[i] \in {Nadie, cola[i]},
           lista' = [lista EXCEPT ![b] = [lista[b] EXCEPT ![id] = Nadie]],
           \A q \in Peticiones : enVuelo'[q].de \in Bucles =>
               enVuelo'[q] = enVuelo[q] /\ enVuelo[q].de # b
    PROVE  ListaInv'
  <1>1. lista \in [Bucles -> Almacen] /\ \A q \in Peticiones : enVuelo[q] \in Fetch
    BY DEF TiposCola, TypeOKCola
  <1>2. \A c \in Bucles, i \in Instantes : lista'[c][i] \in {Nadie, lista[c][i]}
    BY <1>1 DEF Almacen
  <1>3. \A c \in Bucles \ {b} : lista'[c] = lista[c]
    BY <1>1
  <1>4. Pasada' /\ ListaFiel'
    BY <1>2, TiendaGuarda DEF ListaInv
  <1>5. (\A p \in Peticiones : DeSuLista(p)') /\ UnFetch'
    BY <1>3, FetchGuarda DEF ListaInv
  <1> QED BY <1>4, <1>5 DEF ListaInv

LEMMA ListaPaso ==
    ASSUME TiposCola, ListaInv, \A q \in Peticiones : RespuestaFiel(q), [Next]_vars
    PROVE  ListaInv'
  <1>a. /\ enVuelo \in [Peticiones -> Fetch] /\ lista \in [Bucles -> Almacen]
        /\ cola \in Almacen /\ reloj \in Instantes /\ Instantes \subseteq Int
        /\ \A q \in Peticiones : enVuelo[q] \in Fetch
    BY ColaAssumption DEF TiposCola, TypeOKCola, Instantes
  <1>b. /\ Pasada /\ ListaFiel /\ UnFetch
        /\ \A p \in Peticiones : DeSuLista(p)
    BY DEF ListaInv
  <1>c. ASSUME UNCHANGED <<cola, reloj, vaciado, lista>>,
               \A p \in Peticiones : enVuelo'[p].de \in Bucles =>
                   /\ enVuelo'[p].de = enVuelo[p].de
                   /\ enVuelo'[p].id = enVuelo[p].id
                   /\ enVuelo'[p].envio = enVuelo[p].envio
        PROVE  ListaInv'
    <2>1. Pasada' /\ ListaFiel'
      BY <1>b, <1>c DEF Pasada, ListaFiel
    <2>2. (\A p \in Peticiones : DeSuLista(p)') /\ UnFetch'
      BY <1>b, <1>c, FetchGuarda
    <2> QED BY <2>1, <2>2 DEF ListaInv
  <1>d. ASSUME NEW q \in Peticiones, enVuelo[q].de \in Bucles
        PROVE  /\ enVuelo[q].envio \in Envios /\ enVuelo[q].id \in Instantes
               /\ lista[enVuelo[q].de][enVuelo[q].id] = enVuelo[q].envio
               /\ lista[enVuelo[q].de][enVuelo[q].id] # Nadie
               /\ enVuelo[q].de \in vaciado
    <2>1. enVuelo[q].envio \in Envios
      BY <1>d, SinFetchTipo DEF TiposCola, FetchConEnvio, Bucles
    <2> QED BY <1>a, <1>b, <1>d, <2>1, ColaAssumption DEF DeSuLista, Fetch
  <1>1. ASSUME NEW p \in Peticiones, NEW e \in Envios, Escanear(p, e) PROVE ListaInv'
    <2>1. Enviar(p, "pagina", e, 0) /\ 0 \in Instantes /\ UNCHANGED <<cola, reloj, vaciado, lista>>
      BY <1>1, ColaAssumption DEF Escanear, Instantes
    <2>2. enVuelo'[p].de = "pagina" /\ \A q \in Peticiones \ {p} : enVuelo'[q] = enVuelo[q]
      BY <2>1, EnviarEfecto
    <2>3. "pagina" \notin Bucles
      BY DEF Bucles
    <2> QED BY <1>c, <2>1, <2>2, <2>3
  <1>2. ASSUME NEW e \in Envios, EscanearSinRed(e) PROVE ListaInv'
    <2>1. /\ \A i \in Instantes \ {reloj} : cola'[i] = cola[i]
          /\ UNCHANGED <<reloj, vaciado, lista, enVuelo>>
      BY <1>2, EncolarEfecto DEF EscanearSinRed
    <2>2. Pasada' /\ ListaFiel'
      BY <1>b, <2>1, TiendaGuarda
    <2>3. (\A q \in Peticiones : DeSuLista(q)') /\ UnFetch'
      BY <1>b, <2>1, FetchGuarda
    <2> QED BY <2>2, <2>3 DEF ListaInv
  <1>3. ASSUME NEW b \in Bucles, EmpezarVaciado(b) PROVE ListaInv'
    <2>1. /\ b \notin vaciado /\ cola[reloj] = Nadie /\ vaciado' = vaciado \cup {b}
          /\ UNCHANGED <<cola, reloj, enVuelo>>
          /\ lista'[b] = cola /\ \A c \in Bucles \ {b} : lista'[c] = lista[c]
      BY <1>3, <1>a DEF EmpezarVaciado
    <2>2. \A i \in Instantes : cola[i] # Nadie => i < reloj
      BY <1>a, <1>b, <2>1 DEF Pasada
    <2>3. Pasada'
      BY <1>b, <2>1 DEF Pasada
    <2>4. ListaFiel'
      BY <1>b, <2>1, <2>2 DEF ListaFiel
    <2>5. \A q \in Peticiones : enVuelo[q].de \in Bucles => enVuelo[q].de # b
      BY <1>d, <2>1
    <2>6. (\A q \in Peticiones : DeSuLista(q)') /\ UnFetch'
      BY <1>b, <2>1, <2>5, FetchGuarda
    <2> QED BY <2>3, <2>4, <2>6 DEF ListaInv
  <1>4. ASSUME NEW p \in Peticiones, NEW b \in Bucles, EnviarSiguiente(p, b) PROVE ListaInv'
    <2> DEFINE id == Siguiente(b)
    <2>1. lista[b] \in Almacen /\ lista[b] # Vacio /\ b \in vaciado /\ ~Enviando(b)
      BY <1>4, <1>a DEF EnviarSiguiente
    <2>2. lista[b][id] \in Envios /\ id \in Instantes
      BY <2>1, SiguienteEsta DEF Siguiente, Ids, Almacen
    <2>3. Enviar(p, b, lista[b][id], id) /\ UNCHANGED <<cola, reloj, vaciado, lista>>
      BY <1>4 DEF EnviarSiguiente, varsCola
    <2> HIDE DEF id
    <2>4. /\ enVuelo'[p].de = b /\ enVuelo'[p].envio = lista[b][id] /\ enVuelo'[p].id = id
          /\ \A q \in Peticiones \ {p} : enVuelo'[q] = enVuelo[q]
      BY <2>2, <2>3, EnviarEfecto
    <2>5. \A q \in Peticiones : enVuelo[q].de # b
      BY <2>1 DEF Enviando
    <2>6. Pasada' /\ ListaFiel'
      BY <1>b, <2>3 DEF Pasada, ListaFiel
    <2>7. \A q \in Peticiones : DeSuLista(q)'
      BY <1>b, <2>1, <2>3, <2>4 DEF DeSuLista
    <2>8. UnFetch'
      BY <1>b, <2>4, <2>5 DEF UnFetch
    <2> QED BY <2>6, <2>7, <2>8 DEF ListaInv
  <1>5. ASSUME NEW b \in Bucles, EnviarSinRed(b) PROVE ListaInv'
    <2>1. /\ lista[b] \in Almacen /\ lista[b] # Vacio /\ ~Enviando(b)
          /\ Rechazada(b, Siguiente(b)) /\ UNCHANGED <<reloj, vaciado, enVuelo>>
      BY <1>5, <1>a DEF EnviarSinRed
    <2>2. lista[b][Siguiente(b)] # Nadie /\ Siguiente(b) \in Instantes
      BY <2>1, SiguienteEsta DEF Siguiente, Ids
    <2>3. \A q \in Peticiones : enVuelo[q].de # b
      BY <2>1 DEF Enviando
    <2> QED BY <1>b, <2>1, <2>2, <2>3, RechazadaEfecto, HechoGuarda
  <1>6. ASSUME NEW b \in Bucles, TerminarVaciado(b) PROVE ListaInv'
    <2>1. lista[b] = Vacio /\ vaciado' = vaciado \ {b} /\ UNCHANGED <<cola, reloj, lista, enVuelo>>
      BY <1>6 DEF TerminarVaciado
    <2>2. \A q \in Peticiones : enVuelo[q].de \in Bucles => enVuelo[q].de # b
      BY <1>d, <2>1 DEF Vacio
    <2>3. Pasada' /\ ListaFiel'
      BY <1>b, <2>1 DEF Pasada, ListaFiel
    <2>4. (\A q \in Peticiones : DeSuLista(q)') /\ UnFetch'
      BY <1>b, <2>1, <2>2, FetchGuarda
    <2> QED BY <2>3, <2>4 DEF ListaInv
  <1>7. ASSUME NEW b \in Bucles, Interrumpir(b) PROVE ListaInv'
    <2>1. /\ vaciado' = vaciado \ {b} /\ UNCHANGED <<cola, reloj>>
          /\ lista'[b] = Vacio /\ \A c \in Bucles \ {b} : lista'[c] = lista[c]
      BY <1>7, <1>a DEF Interrumpir
    <2>2. \A c \in Bucles, i \in Instantes : lista'[c][i] \in {Nadie, lista[c][i]}
      BY <2>1 DEF Vacio
    <2>3. Pasada' /\ ListaFiel'
      BY <1>b, <2>1, <2>2, TiendaGuarda
    <2>4. \A q \in Peticiones : enVuelo'[q].de \in Bucles =>
             enVuelo'[q] = enVuelo[q] /\ enVuelo[q].de # b
      <3>1. "nadie" \notin Bucles
        BY DEF Bucles
      <3> QED BY <1>7, <1>a, <3>1, SinFetchTipo DEF Interrumpir, Fetch
    <2>5. (\A q \in Peticiones : DeSuLista(q)') /\ UnFetch'
      BY <1>b, <2>1, <2>4, FetchGuarda
    <2> QED BY <2>3, <2>5 DEF ListaInv
  <1>8. ASSUME NEW p \in Peticiones, Servir(p) PROVE ListaInv'
    <2>1. /\ UNCHANGED <<cola, reloj, vaciado, lista>>
          /\ \/ UNCHANGED enVuelo
             \/ \E r \in {"ok", "400", "otra"} :
                   enVuelo' = [enVuelo EXCEPT ![p] = ConRespuesta(p, r)]
      BY <1>8 DEF Servir
    <2>2. "nadie" \notin Bucles
      BY DEF Bucles
    <2>3. \A r \in {"ok", "400", "otra"} :
             ConRespuesta(p, r).de \in Bucles =>
                 /\ ConRespuesta(p, r).de = enVuelo[p].de
                 /\ ConRespuesta(p, r).id = enVuelo[p].id
                 /\ ConRespuesta(p, r).envio = enVuelo[p].envio
      BY <1>a, <2>2, SinFetchTipo DEF ConRespuesta, Fetch
    <2> QED BY <1>a, <1>c, <2>1, <2>3
  <1>9. ASSUME NEW p \in Peticiones, Contestar(p) \/ Cortar(p),
               enVuelo[p].de = "pagina"
        PROVE  ListaInv'
    <2>1. /\ \A q \in Peticiones \ {p} : enVuelo'[q] = enVuelo[q]
          /\ enVuelo'[p].de = "nadie"
      BY <1>9, <1>a, SinFetchTipo DEF Contestar, Cortar, Fetch
    <2>2. "nadie" \notin Bucles
      BY DEF Bucles
    <2>3. enVuelo[p].envio \in Envios
      BY <1>9, SinFetchTipo DEF TiposCola, FetchConEnvio
    <2>4. CASE Contestar(p)
      BY <1>9, <1>c, <2>1, <2>2, <2>4 DEF Contestar
    <2>5. CASE Cortar(p)
      <3>1. /\ cola' = Encolar(cola, enVuelo[p].envio) /\ UNCHANGED <<reloj, vaciado, lista>>
            /\ perdidos' = perdidos \cup Pisados(cola, enVuelo[p].envio)
        BY <1>9, <2>5 DEF Cortar
      <3>2. \A i \in Instantes \ {reloj} : cola'[i] = cola[i]
        BY <2>3, <3>1, EncolarEfecto
      <3>3. Pasada' /\ ListaFiel'
        BY <1>b, <3>1, <3>2, TiendaGuarda
      <3>4. (\A q \in Peticiones : DeSuLista(q)') /\ UnFetch'
        BY <1>b, <2>1, <2>2, <3>1, FetchGuarda
      <3> QED BY <3>3, <3>4 DEF ListaInv
    <2> QED BY <1>9, <2>4, <2>5
  <1>10. ASSUME NEW p \in Peticiones, Contestar(p) \/ Cortar(p), enVuelo[p].de # "pagina"
         PROVE  ListaInv'
    <2>1. enVuelo[p].de \in Bucles
      BY <1>10, <1>a DEF Contestar, Cortar, RespuestaFiel, Fetch
    <2> PICK b \in Bucles, id \in Instantes : b = enVuelo[p].de /\ id = enVuelo[p].id
      BY <1>d, <2>1
    <2>2. lista[b][id] # Nadie
      BY <1>d, <2>1
    <2>3. /\ \A q \in Peticiones \ {p} : enVuelo'[q] = enVuelo[q]
          /\ enVuelo'[p].de = "nadie" /\ "nadie" \notin Bucles
      BY <1>10, <1>a, SinFetchTipo DEF Contestar, Cortar, Fetch, Bucles
    <2>4. \A q \in Peticiones : enVuelo'[q].de \in Bucles =>
             enVuelo'[q] = enVuelo[q] /\ enVuelo[q].de # b
      BY <1>b, <2>3 DEF UnFetch
    <2>5. /\ UNCHANGED <<reloj, vaciado>>
          /\ Rechazada(b, id) \/ Contestada(b, id, enVuelo[p].resp)
      BY <1>10 DEF Contestar, Cortar
    <2>6. /\ \A i \in Instantes \ {reloj} : cola'[i] \in {Nadie, cola[i]}
          /\ lista' = [lista EXCEPT ![b] = [lista[b] EXCEPT ![id] = Nadie]]
      BY <1>b, <2>2, <2>5, RechazadaEfecto, ContestadaEfecto
    <2> QED BY <2>4, <2>5, <2>6, HechoGuarda
  <1>11. CASE Tic
    <2>1. reloj' = reloj + 1 /\ UNCHANGED <<cola, vaciado, lista, enVuelo>>
      BY <1>11 DEF Tic
    <2>2. Pasada' /\ ListaFiel'
      BY <1>a, <1>b, <2>1 DEF Pasada, ListaFiel
    <2>3. (\A q \in Peticiones : DeSuLista(q)') /\ UnFetch'
      BY <1>b, <2>1, FetchGuarda
    <2> QED BY <2>2, <2>3 DEF ListaInv
  <1>12. CASE UNCHANGED vars
    BY <1>12, <1>c DEF vars, varsCola
  <1> QED BY <1>1, <1>2, <1>3, <1>4, <1>5, <1>6, <1>7, <1>8, <1>9, <1>10, <1>11, <1>12
      DEF Next
-----------------------------------------------------------------------------
(* Nothing stored is lost *)

LEMMA NadaGuarda ==
    ASSUME TiposCola, [Next]_vars, NadaSePierde,
           perdidos \subseteq perdidos', rechazados \subseteq rechazados',
           \A x \in EnCola : \/ x \in EnCola' \/ x \in perdidos' \/ x \in rechazados'
                             \/ registro[x].estado # "NINGUNO",
           \A e \in Envios : pagina'[e] = "encolado" => pagina[e] = "encolado" \/ e \in EnCola'
    PROVE  NadaSePierde'
  <1> SUFFICES ASSUME NEW e \in Envios, pagina'[e] = "encolado", e \notin EnCola',
                      e \notin rechazados' \cup perdidos'
               PROVE  registro'[e].estado # "NINGUNO"
    BY DEF NadaSePierde
  <1>1. registro[e].estado # "NINGUNO"
    BY DEF NadaSePierde
  <1> QED BY <1>1, RegistroCrece

LEMMA NadaPaso ==
    ASSUME TiposCola, ListaInv, \A q \in Peticiones : RespuestaFiel(q), NadaSePierde, [Next]_vars
    PROVE  NadaSePierde'
  <1>a. /\ lista \in [Bucles -> Almacen] /\ \A q \in Peticiones : enVuelo[q] \in Fetch
        /\ ListaFiel
    BY DEF TiposCola, TypeOKCola, ListaInv
  <1>b. ASSUME UNCHANGED <<cola, perdidos>>, rechazados \subseteq rechazados',
               \A e \in Envios : pagina'[e] = "encolado" => pagina[e] = "encolado"
        PROVE  NadaSePierde'
    BY <1>b, NadaGuarda DEF EnCola, Ids
  <1>1. ASSUME NEW p \in Peticiones, NEW e \in Envios, Escanear(p, e) PROVE NadaSePierde'
    BY <1>1, <1>b DEF Escanear, TiposCola, TypeOKCola
  <1>2. ASSUME NEW e \in Envios, EscanearSinRed(e) PROVE NadaSePierde'
    <2>1. /\ e \in EnCola' /\ \A x \in EnCola : x \in EnCola' \/ x \in perdidos'
          /\ rechazados' = rechazados /\ perdidos \subseteq perdidos'
      BY <1>2, EncolarEfecto DEF EscanearSinRed
    <2>2. \A x \in Envios : pagina'[x] = "encolado" => pagina[x] = "encolado" \/ x = e
      BY <1>2 DEF EscanearSinRed, TiposCola, TypeOKCola
    <2> QED BY <2>1, <2>2, NadaGuarda
  <1>3. ASSUME NEW b \in Bucles, EnviarSinRed(b) PROVE NadaSePierde'
    <2>1. /\ lista[b] \in Almacen /\ lista[b] # Vacio
          /\ Rechazada(b, Siguiente(b)) /\ UNCHANGED <<pagina, rechazados>>
      BY <1>3, <1>a DEF EnviarSinRed
    <2>2. lista[b][Siguiente(b)] # Nadie /\ Siguiente(b) \in Instantes
      BY <2>1, SiguienteEsta DEF Siguiente, Ids
    <2> QED BY <1>a, <2>1, <2>2, RechazadaEfecto, NadaGuarda
  <1>4. ASSUME NEW p \in Peticiones, Contestar(p) \/ Cortar(p), enVuelo[p].de = "pagina"
        PROVE  NadaSePierde'
    <2>1. enVuelo[p].envio \in Envios
      BY <1>4, SinFetchTipo DEF TiposCola, FetchConEnvio
    <2>2. CASE Contestar(p)
      BY <1>4, <1>b, <2>2 DEF Contestar, TiposCola, TypeOKCola
    <2>3. CASE Cortar(p)
      <3>1. /\ cola' = Encolar(cola, enVuelo[p].envio)
            /\ perdidos' = perdidos \cup Pisados(cola, enVuelo[p].envio)
            /\ pagina' = [pagina EXCEPT ![enVuelo[p].envio] = "encolado"]
            /\ rechazados' = rechazados
        BY <1>4, <2>3 DEF Cortar
      <3>2. /\ enVuelo[p].envio \in EnCola'
            /\ \A x \in EnCola : x \in EnCola' \/ x \in perdidos'
        BY <2>1, <3>1, EncolarEfecto
      <3>3. \A x \in Envios :
               pagina'[x] = "encolado" => pagina[x] = "encolado" \/ x = enVuelo[p].envio
        BY <3>1 DEF TiposCola, TypeOKCola
      <3> QED BY <3>1, <3>2, <3>3, NadaGuarda
    <2> QED BY <1>4, <2>2, <2>3
  <1>5. ASSUME NEW p \in Peticiones, Contestar(p) \/ Cortar(p), enVuelo[p].de # "pagina"
        PROVE  NadaSePierde'
    <2> DEFINE f == enVuelo[p]
    <2>1. f.de \in Bucles /\ f.id \in Instantes
      BY <1>5, <1>a DEF Contestar, Cortar, RespuestaFiel, Fetch
    <2>2. lista[f.de][f.id] = f.envio /\ f.envio \in Envios
      BY <2>1, SinFetchTipo DEF ListaInv, DeSuLista, TiposCola, FetchConEnvio, Bucles
    <2>3. /\ f.resp = "ok" => registro[f.envio].estado # "NINGUNO"
          /\ f.resp = "400" => f.envio \in rechazados
      BY DEF RespuestaFiel
    <2>4. lista[f.de][f.id] # Nadie
      BY <2>2, ColaAssumption
    <2>5. UNCHANGED <<pagina, rechazados>>
      BY <1>5 DEF Contestar, Cortar
    <2>6. CASE Cortar(p)
      <3>1. Rechazada(f.de, f.id)
        BY <1>5, <2>6 DEF Cortar
      <3> HIDE DEF f
      <3> QED BY <1>a, <2>1, <2>4, <2>5, <3>1, RechazadaEfecto, NadaGuarda
    <2>7. CASE Contestar(p)
      <3>1. Contestada(f.de, f.id, f.resp)
        BY <1>5, <2>7 DEF Contestar
      <3> HIDE DEF f
      <3>2. /\ perdidos' = perdidos
            /\ \A x \in EnCola : x \in EnCola' \/ (x = f.envio /\ f.resp \in {"ok", "400"})
        BY <1>a, <2>1, <2>2, <2>4, <3>1, ContestadaEfecto
      <3> QED BY <2>3, <2>5, <3>2, NadaGuarda
    <2> QED BY <1>5, <2>6, <2>7
  <1>6. ASSUME NEW p \in Peticiones, Servir(p) PROVE NadaSePierde'
    <2>1. UNCHANGED <<cola, perdidos, pagina>> /\ rechazados \subseteq rechazados'
      BY <1>6 DEF Servir
    <2> QED BY <1>b, <2>1
  <1>7. \A b \in Bucles, p \in Peticiones :
           EmpezarVaciado(b) \/ EnviarSiguiente(p, b) \/ TerminarVaciado(b) \/ Interrumpir(b)
              => UNCHANGED <<cola, perdidos, pagina, rechazados>>
    BY DEF EmpezarVaciado, EnviarSiguiente, TerminarVaciado, Interrumpir, varsCola
  <1>8. Tic \/ UNCHANGED vars => UNCHANGED <<cola, perdidos, pagina, rechazados>>
    BY DEF Tic, vars, varsCola
  <1>9. UNCHANGED <<cola, perdidos, pagina, rechazados>> => NadaSePierde'
    BY <1>b
  <1>10. \A b \in Bucles :
            EmpezarVaciado(b) \/ TerminarVaciado(b) \/ Interrumpir(b)
               => UNCHANGED <<cola, perdidos, pagina, rechazados>>
    BY DEF EmpezarVaciado, TerminarVaciado, Interrumpir
  <1> QED BY <1>1, <1>2, <1>3, <1>4, <1>5, <1>6, <1>7, <1>8, <1>9, <1>10 DEF Next

-----------------------------------------------------------------------------
(* A pupil is charged once *)

LEMMA CobroPaso ==
    ASSUME TiposCola, CobroInv, [Next]_vars
    PROVE  CobroInv'
  <1>1. CASE UNCHANGED <<varsRegistro, varsSaldo>>
    BY <1>1 DEF CobroInv, Cobrados, varsRegistro, varsSaldo
  <1>2. ASSUME NEW p \in Peticiones, Insertar(p) PROVE CobroInv'
    <2>0. /\ peticion[p].envio \in Envios /\ HijoDe[peticion[p].envio] \in Hijos
          /\ peticion[p].primero \in BOOLEAN
      <3>1. peticion[p] \in Lecturas /\ peticion[p].op = "contada"
        BY <1>2 DEF TiposCola, TypeOKCola, TypeOK, Insertar
      <3> QED BY <3>1, LecturaDeOperacion, AlmuerzosAssumption DEF DeEnvio
    <2> PICK e \in Envios, h \in Hijos : e = peticion[p].envio /\ h = HijoDe[e]
      BY <2>0
    <2>1. /\ registro[e].estado = "NINGUNO" /\ aMano' = aMano
          /\ registro' = [registro EXCEPT ![e] =
                             [SinRegistro(e) EXCEPT !.estado = "REGISTRADO",
                                                    !.cobrado = peticion[p].primero]]
          /\ IF peticion[p].primero THEN Mover(h, -1) ELSE UNCHANGED varsSaldo
      BY <1>2 DEF Insertar, IdLibre
    <2>2. /\ registro'[e].estado = "REGISTRADO" /\ registro'[e].cobrado = peticion[p].primero
          /\ registro'[e].hijo = HijoDe[e] /\ registro'[e].hoy
          /\ \A x \in Envios \ {e} : registro'[x] = registro[x]
      BY <2>1 DEF TiposCola, TypeOKCola, TypeOK, SinRegistro
    <2>3. e \notin Cobrados(h) /\ IsFiniteSet(Cobrados(h))
      BY <2>1, AlmuerzosAssumption, FS_Subset DEF CobroInv, Cobrados
    <2>4. \A k \in Hijos \ {h} : Cobrados(k)' = Cobrados(k)
      BY <2>2 DEF Cobrados
    <2>5. CASE peticion[p].primero
      <3>1. Cobrados(h)' = Cobrados(h) \cup {e}
        BY <2>2, <2>5 DEF Cobrados
      <3>2. Cardinality(Cobrados(h) \cup {e}) = Cardinality(Cobrados(h)) + 1
        BY <2>3, FS_AddElement
      <3>3. saldo'[h] = saldo[h] - 1 /\ \A k \in Hijos \ {h} : saldo'[k] = saldo[k]
        <4>1. TypeOK /\ -1 \in Int /\ Mover(h, -1)
          BY <2>1, <2>5 DEF TiposCola, TypeOKCola
        <4>2. /\ libro'[h] = libro[h] + -1 /\ saldo'[h] = libro'[h]
              /\ \A k \in Hijos \ {h} : saldo'[k] = saldo[k]
          BY <4>1, MoverEfecto
        <4>3. libro[h] \in Int /\ saldo[h] = libro[h]
          BY <4>1 DEF TypeOK, CobroInv
        <4> QED BY <4>2, <4>3
      <3>4. Cardinality(Cobrados(h)) \in Nat /\ saldo[h] = -Cardinality(Cobrados(h))
        BY <2>3, FS_CardinalityType DEF CobroInv
      <3>5. saldo'[h] = -Cardinality(Cobrados(h)')
        BY <3>1, <3>2, <3>3, <3>4
      <3>6. \A k \in Hijos : saldo'[k] = -Cardinality(Cobrados(k)')
        BY <2>4, <3>3, <3>5 DEF CobroInv
      <3>7. \A k \in Hijos : saldo'[k] = libro'[k]
        <4>1. TypeOK /\ -1 \in Int /\ Mover(h, -1)
          BY <2>1, <2>5 DEF TiposCola, TypeOKCola
        <4>2. saldo'[h] = libro'[h]
          BY <4>1, MoverEfecto
        <4>3. \A k \in Hijos \ {h} : saldo'[k] = saldo[k] /\ libro'[k] = libro[k]
          BY <4>1, MoverEfecto
        <4> QED BY <4>2, <4>3 DEF CobroInv
      <3> QED BY <2>1, <2>2, <3>6, <3>7 DEF CobroInv
    <2>6. CASE ~peticion[p].primero
      <3>1. Cobrados(h)' = Cobrados(h)
        BY <2>2, <2>3, <2>6 DEF Cobrados
      <3>2. saldo' = saldo /\ libro' = libro
        BY <2>1, <2>6 DEF varsSaldo
      <3>3. \A k \in Hijos : saldo'[k] = -Cardinality(Cobrados(k)')
        BY <2>4, <3>1, <3>2 DEF CobroInv
      <3> QED BY <2>1, <2>2, <2>6, <3>2, <3>3 DEF CobroInv
    <2> QED BY <2>5, <2>6
  <1> QED BY <1>1, <1>2, SoloInserta

LEMMA CobroImplica ==
    ASSUME CobroInv, UnCobroPorDia
    PROVE  CobradoUnaVez
  <1> SUFFICES ASSUME NEW h \in Hijos
               PROVE  saldo[h] = -Cardinality(Cobrados(h)) /\ saldo[h] >= -1
    BY DEF CobradoUnaVez, Cobrados
  <1>1. Cobrados(h) = {e \in DelDia(h) \ aMano : registro[e].cobrado}
    BY DEF CobroInv, Cobrados, DelDia
  <1>2. Cardinality(Cobrados(h)) <= 1
    BY <1>1 DEF CobroInv, UnCobroPorDia
  <1>3. Cardinality(Cobrados(h)) \in Nat
    BY AlmuerzosAssumption, FS_Subset, FS_CardinalityType DEF Cobrados
  <1> QED BY <1>2, <1>3 DEF CobroInv

EntregaInv ==
    /\ TiposCola
    /\ ListaInv
    /\ \A q \in Peticiones : RespuestaFiel(q)
    /\ NadaSePierde
    /\ CobroInv

LEMMA EntregaInicial == Init => EntregaInv
  <1> SUFFICES ASSUME Init PROVE EntregaInv
    OBVIOUS
  <1>1. TiposCola
    BY TiposColaInicial
  <1>2. ListaInv
    BY SinFetchTipo
    DEF Init, ListaInv, Pasada, ListaFiel, DeSuLista, UnFetch, Vacio, Bucles
  <1>3. \A q \in Peticiones : RespuestaFiel(q)
    BY SinFetchTipo DEF Init, RespuestaFiel
  <1>4. NadaSePierde
    BY DEF Init, NadaSePierde
  <1>5. CobroInv
    <2>1. \A e \in Envios : registro[e] = SinRegistro(e)
      BY DEF Init, InitAlmuerzos
    <2>2. \A h \in Hijos : Cobrados(h) = {}
      BY <2>1, SinRegistroTipo DEF Cobrados
    <2>3. \A h \in Hijos : saldo[h] = -Cardinality(Cobrados(h)) /\ saldo[h] = libro[h]
      BY <2>2, FS_EmptySet DEF Init, InitAlmuerzos
    <2>4. \A e \in Envios : /\ registro[e].estado # "ANULADO" /\ ~registro[e].cobrado
                            /\ registro[e].hijo = HijoDe[e] /\ registro[e].hoy
      BY <2>1, SinRegistroTipo
    <2> QED BY <2>3, <2>4 DEF Init, InitAlmuerzos, CobroInv
  <1> QED BY <1>1, <1>2, <1>3, <1>4, <1>5 DEF EntregaInv

LEMMA EntregaPaso == EntregaInv /\ [Next]_vars => EntregaInv'
  BY TiposColaPaso, ListaPaso, RespuestaPaso, NadaPaso, CobroPaso DEF EntregaInv

\* A scan the page was told is stored arrives or is known to be lost, and
\* however often it is sent again the pupil is charged once: for any number of
\* scans and requests, lost answers, two loops and their interruption.
THEOREM EntregaSegura == Spec => []EntregaExacta
  <1>1. EntregaInv /\ UnCobroPorDia => EntregaExacta
    BY CobroImplica DEF EntregaInv, EntregaExacta
  <1> QED BY <1>1, EntregaInicial, EntregaPaso, ColaImplementa, UnCobroSeguro, PTL DEF Spec
=============================================================================
