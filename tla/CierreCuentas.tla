---------------------------- MODULE CierreCuentas ----------------------------
(***************************************************************************)
(* Closing the accounts of pupils who leave: one closing per pupil and     *)
(* resolutions that empty the pockets (card and lunch) or pay their debt.  *)
(*                                                                         *)
(* A resolution is executed under the locks of its row and of the pockets  *)
(* it moves.  The closing itself is locked by cerrar_con_saldo only: an    *)
(* execution reads it in a join and writes the whole row back, and whoever *)
(* registers a resolution reads its state before the transaction.  The     *)
(* foreign key of the resolution is deferred: it asks for the row of the   *)
(* closing at the commit of the registration, and not before.              *)
(*                                                                         *)
(* The triggers of both ledgers set the balance to their sum at every      *)
(* movement; a PUT of the card or a PATCH of the lunch account writes back *)
(* the balance it read, and parts the two.                                 *)
(***************************************************************************)
EXTENDS Integers, FiniteSets

CONSTANTS
    Hijos,          \* pupils of one family
    Egresados,      \* those who leave
    Cuentas,        \* their pockets
    Tarjetas,       \* the pockets that are cards; the others are lunch accounts
    HijoDe,         \* pupil of each pocket
    Resoluciones,
    Montos,         \* amounts of a resolution
    Peticiones,     \* requests in progress at the same time
    Sin,            \* no destination
    Rango,          \* bound of each ledger when moved from elsewhere
    MaxEdiciones    \* bound on the edits of a pocket's row

ASSUME CierreAssumption ==
    /\ Egresados \subseteq Hijos
    /\ Tarjetas \subseteq Cuentas
    /\ HijoDe \in [Cuentas -> Hijos]
    /\ Montos \subseteq Nat \ {0}
    /\ Rango \in [Cuentas -> SUBSET Int]
    /\ MaxEdiciones \in Nat
    /\ Sin \notin Cuentas

VARIABLES
    cierre,         \* estado of the closing of each pupil
    saldo,          \* balance of each pocket
    libro,          \* sum of the movements of each pocket
    pisado,         \* pockets an edit wrote over since their last movement
    ediciones,      \* edits so far
    movido,         \* what each resolution moved in each pocket
    resolucion,     \* row of each resolution
    peticion

vars == <<cierre, saldo, libro, pisado, ediciones, movido, resolucion, peticion>>

EstadosCierre == {"NINGUNO", "ABIERTO", "PARCIAL", "RESUELTO", "CERRADO_CON_SALDO"}
EstadosResolucion == {"SOLICITADA", "EJECUTADA", "RECHAZADA"}

Salidas == {"DEVOLUCION", "TRASPASO_HERMANO", "COMPENSACION"}
Entradas == {"COBRO", "TRASLADO_CC", "CONDONACION"}
RequierenAdmin == {"DEVOLUCION", "CONDONACION"}

Fila == [estado : EstadosResolucion, tipo : Salidas \cup Entradas,
         origen : Cuentas, destino : Cuentas \cup {Sin}, monto : Montos]

Ninguna == [estado |-> "NINGUNA"]
Libre == [op |-> "libre"]

Lecturas ==
    {Libre}
    \cup [op : {"editar"}, cuenta : Cuentas, saldo : Int]
    \cup [op : {"abrir"}, hijo : Hijos, estado : EstadosCierre]
    \cup [op : {"registrar", "cerrar"}, hijo : Hijos]
    \cup [op : {"ejecutar"}, res : Resoluciones, fila : Fila, nueva : BOOLEAN,
          estado : EstadosCierre]
    \cup [op : {"confirmar"}, res : Resoluciones, fila : Fila, nueva : BOOLEAN,
          estado : EstadosCierre, nuevo : [Cuentas -> Int]]

TypeOK ==
    /\ cierre \in [Hijos -> EstadosCierre]
    /\ saldo \in [Cuentas -> Int]
    /\ libro \in [Cuentas -> Int]
    /\ pisado \subseteq Cuentas
    /\ ediciones \in 0 .. MaxEdiciones
    /\ movido \in [Resoluciones -> [Cuentas -> Int]]
    /\ resolucion \in [Resoluciones -> Fila \cup {Ninguna}]
    /\ peticion \in [Peticiones -> Lecturas]

Init ==
    /\ cierre = [h \in Hijos |-> "NINGUNO"]
    /\ saldo = [c \in Cuentas |-> 0]
    /\ libro = [c \in Cuentas |-> 0]
    /\ pisado = {}
    /\ ediciones = 0
    /\ movido = [r \in Resoluciones |-> [c \in Cuentas |-> 0]]
    /\ resolucion = [r \in Resoluciones |-> Ninguna]
    /\ peticion = [p \in Peticiones |-> Libre]

-----------------------------------------------------------------------------
Responder(p) == peticion' = [peticion EXCEPT ![p] = Libre]
Recordar(p, lectura) == peticion' = [peticion EXCEPT ![p] = lectura]

DelHijo(h) == {c \in Cuentas : HijoDe[c] = h}

\* Row of a closing under the lock of cerrar_con_saldo
CierreBloqueado(h) == \E q \in Peticiones : peticion[q].op = "cerrar" /\ peticion[q].hijo = h

ResolucionBloqueada(r) == \E q \in Peticiones : peticion[q].op = "confirmar" /\ peticion[q].res = r

IdLibre(r) ==
    /\ resolucion[r] = Ninguna
    /\ \A q \in Peticiones : peticion[q].op \in {"ejecutar", "confirmar"} => peticion[q].res # r

Tocadas(fila) == {fila.origen, fila.destino} \cap Cuentas

\* Bug: the pocket is validated without its lock
SinCandadoDeBolsillo(c) == FALSE

BolsilloBloqueado(c) ==
    \E q \in Peticiones : peticion[q].op = "confirmar" /\ c \in Tocadas(peticion[q].fila)

\* What a resolution moves in a pocket
Efecto(fila, c) ==
    IF c = fila.origen THEN IF fila.tipo \in Salidas THEN -fila.monto ELSE fila.monto
    ELSE IF c = fila.destino THEN fila.monto
    ELSE 0

\* _mover writes over the sum the trigger left in a card, but not in a lunch
\* account; a COBRO is a top-up, and leaves the sum in both.
Sincroniza(fila, c) == c \notin Tarjetas \/ fila.tipo = "COBRO"

\* Balances after the movements of a resolution
Tras(fila) ==
    [c \in Cuentas |->
        IF c \in Tocadas(fila) /\ Sincroniza(fila, c) THEN libro[c] + Efecto(fila, c)
                                                     ELSE saldo[c] + Efecto(fila, c)]

\* What an execution has written and not committed
Escritos(fila) == [c \in Cuentas |-> IF c \in Tocadas(fila) THEN Tras(fila)[c] ELSE 0]

\* _validar: a favour is paid out of a positive balance and a debt paid up to
\* zero; destinations as their type asks
Valida(fila) ==
    /\ IF fila.tipo \in Salidas THEN fila.monto <= saldo[fila.origen]
                                ELSE fila.monto <= -saldo[fila.origen]
    /\ fila.tipo = "TRASPASO_HERMANO" =>
          fila.destino # Sin /\ HijoDe[fila.destino] # HijoDe[fila.origen]
    /\ fila.tipo = "COMPENSACION" =>
          /\ fila.destino \in DelHijo(HijoDe[fila.origen]) \ {fila.origen}
          /\ fila.monto <= -saldo[fila.destino]
    /\ fila.tipo \notin {"TRASPASO_HERMANO", "COMPENSACION"} => fila.destino = Sin

-----------------------------------------------------------------------------
(* The closing *)

\* abrir reads the balances of the pupil ...
LeerAbrir(p, h) ==
    /\ peticion[p] = Libre
    /\ cierre[h] = "NINGUNO"
    /\ Recordar(p, [op |-> "abrir", hijo |-> h,
                    estado |-> IF \A c \in DelHijo(h) : saldo[c] = 0 THEN "RESUELTO" ELSE "ABIERTO"])
    /\ UNCHANGED <<cierre, saldo, libro, pisado, ediciones, movido, resolucion>>

\* ... and inserts the closing, unless another request has
Abrir(p) ==
    /\ peticion[p].op = "abrir"
    /\ LET h == peticion[p].hijo
       IN  cierre' = [cierre EXCEPT ![h] = IF @ = "NINGUNO" THEN peticion[p].estado ELSE @]
    /\ Responder(p)
    /\ UNCHANGED <<saldo, libro, pisado, ediciones, movido, resolucion>>

\* Bug: pending resolutions do not keep it open
SinMirarPendientes(h) == TRUE

SinPendientes(h) ==
    \A r \in Resoluciones :
        resolucion[r] # Ninguna /\ HijoDe[resolucion[r].origen] = h =>
            resolucion[r].estado # "SOLICITADA"

\* cerrar_con_saldo locks the closing; it does not see what has not been
\* committed ...
LeerCerrar(p, h) ==
    /\ peticion[p] = Libre
    /\ ~CierreBloqueado(h)
    /\ cierre[h] \in {"ABIERTO", "PARCIAL"}
    /\ SinPendientes(h)
    /\ Recordar(p, [op |-> "cerrar", hijo |-> h])
    /\ UNCHANGED <<cierre, saldo, libro, pisado, ediciones, movido, resolucion>>

\* ... and commits
Cerrar(p) ==
    /\ peticion[p].op = "cerrar"
    /\ cierre' = [cierre EXCEPT ![peticion[p].hijo] = "CERRADO_CON_SALDO"]
    /\ Responder(p)
    /\ UNCHANGED <<saldo, libro, pisado, ediciones, movido, resolucion>>

-----------------------------------------------------------------------------
(* Resolutions *)

\* registrar_resolucion looks at the closing as the view read it ...
LeerRegistrar(p, h) ==
    /\ peticion[p] = Libre
    /\ cierre[h] \notin {"NINGUNO", "CERRADO_CON_SALDO"}
    /\ Recordar(p, [op |-> "registrar", hijo |-> h])
    /\ UNCHANGED <<cierre, saldo, libro, pisado, ediciones, movido, resolucion>>

\* ... validates without locks and inserts.  What a supervisor asks for and
\* an administrator must allow stays SOLICITADA, committed once nobody holds the
\* closing; the rest goes on to _ejecutar.
Registrar(p, r, fila) ==
    /\ peticion[p].op = "registrar"
    /\ LET h == peticion[p].hijo
       IN  /\ HijoDe[fila.origen] = h
           /\ IdLibre(r)
           /\ Valida(fila)
           /\ \/ /\ fila.tipo \in RequierenAdmin
                 /\ ~CierreBloqueado(h)
                 /\ resolucion' = [resolucion EXCEPT ![r] = fila]
                 /\ Responder(p)
              \/ /\ Recordar(p, [op |-> "ejecutar", res |-> r, fila |-> fila,
                                 nueva |-> TRUE, estado |-> cierre[h]])
                 /\ UNCHANGED resolucion
    /\ UNCHANGED <<cierre, saldo, libro, pisado, ediciones, movido>>

\* aprobar: the snapshot of the closing that comes with the resolution
LeerAprobar(p, r) ==
    /\ peticion[p] = Libre
    /\ resolucion[r] # Ninguna /\ resolucion[r].estado = "SOLICITADA"
    /\ Recordar(p, [op |-> "ejecutar", res |-> r, fila |-> resolucion[r], nueva |-> FALSE,
                    estado |-> cierre[HijoDe[resolucion[r].origen]]])
    /\ UNCHANGED <<cierre, saldo, libro, pisado, ediciones, movido, resolucion>>

\* Bug: a resolution is not looked at again under its lock
SinVolverAMirar(r) == TRUE

SiguePendiente(r) == resolucion[r].estado = "SOLICITADA"

\* Bug: a state outside the list
FueraDeLista(antes, h, nuevo) == "SALDADO"

\* _recalcular_estado, which does not see what others have not committed
Recalculado(antes, h, nuevo) ==
    IF antes = "CERRADO_CON_SALDO" THEN antes
    ELSE IF \A c \in DelHijo(h) : nuevo[c] = 0 THEN "RESUELTO" ELSE "PARCIAL"

\* _ejecutar: locks, checks again, moves the pockets ...
Ejecutar(p) ==
    /\ peticion[p].op = "ejecutar"
    /\ LET r == peticion[p].res
           fila == peticion[p].fila
       IN  /\ ~ResolucionBloqueada(r)
           /\ peticion[p].nueva \/ SiguePendiente(r)
           /\ \A c \in Tocadas(fila) : ~BolsilloBloqueado(c)
           /\ Valida(fila)
           /\ Recordar(p, [op |-> "confirmar", res |-> r, fila |-> fila,
                           nueva |-> peticion[p].nueva, nuevo |-> Escritos(fila),
                           estado |-> Recalculado(peticion[p].estado, HijoDe[fila.origen],
                                                  Tras(fila))])
    /\ UNCHANGED <<cierre, saldo, libro, pisado, ediciones, movido, resolucion>>

\* ... and commits, the whole row of the closing included unless it was read
\* closed.  That write, and the foreign key of a resolution that is new, wait for
\* whoever holds the closing.
Confirmar(p) ==
    /\ peticion[p].op = "confirmar"
    /\ LET r == peticion[p].res
           fila == peticion[p].fila
           nuevo == peticion[p].nuevo
           h == HijoDe[fila.origen]
       IN  /\ resolucion' = [resolucion EXCEPT ![r] = [fila EXCEPT !.estado = "EJECUTADA"]]
           /\ saldo' = [c \in Cuentas |-> IF c \in Tocadas(fila) THEN nuevo[c] ELSE saldo[c]]
           /\ libro' = [c \in Cuentas |-> libro[c] + Efecto(fila, c)]
           /\ pisado' = pisado \ {c \in Tocadas(fila) : Sincroniza(fila, c)}
           /\ movido' = [movido EXCEPT ![r] = [c \in Cuentas |-> @[c] + Efecto(fila, c)]]
           /\ peticion[p].nueva \/ peticion[p].estado # "CERRADO_CON_SALDO" =>
                 ~CierreBloqueado(h)
           /\ cierre' = IF peticion[p].estado = "CERRADO_CON_SALDO" THEN cierre
                        ELSE [cierre EXCEPT ![h] = peticion[p].estado]
    /\ Responder(p)
    /\ UNCHANGED ediciones

Rechazar(r) ==
    /\ resolucion[r] # Ninguna /\ resolucion[r].estado = "SOLICITADA"
    /\ ~ResolucionBloqueada(r)
    /\ resolucion' = [resolucion EXCEPT ![r].estado = "RECHAZADA"]
    /\ UNCHANGED <<cierre, saldo, libro, pisado, ediciones, movido, peticion>>

-----------------------------------------------------------------------------
(* The pockets *)

\* Sales, lunches, top-ups and adjustments: each enters a movement with the row
\* of the pocket locked, and the trigger has the last word on its balance.
MoverAjeno(c, d) ==
    /\ ~BolsilloBloqueado(c)
    /\ libro[c] + d \in Rango[c]
    /\ libro' = [libro EXCEPT ![c] = @ + d]
    /\ saldo' = [saldo EXCEPT ![c] = libro[c] + d]
    /\ pisado' = pisado \ {c}
    /\ UNCHANGED <<cierre, ediciones, movido, resolucion, peticion>>

\* get_object() of a PUT of the card or a PATCH of the lunch account ...
LeerEditar(p, c) ==
    /\ peticion[p] = Libre
    /\ ediciones < MaxEdiciones
    /\ Recordar(p, [op |-> "editar", cuenta |-> c, saldo |-> saldo[c]])
    /\ UNCHANGED <<cierre, saldo, libro, pisado, ediciones, movido, resolucion>>

\* ... and its save(), which writes the whole row back, balance included
GuardarEdicion(p) ==
    /\ peticion[p].op = "editar"
    /\ LET c == peticion[p].cuenta
       IN  /\ ~BolsilloBloqueado(c)
           /\ saldo' = [saldo EXCEPT ![c] = peticion[p].saldo]
           /\ ediciones < MaxEdiciones
           /\ ediciones' = ediciones + 1
           /\ pisado' = IF peticion[p].saldo = saldo[c] THEN pisado ELSE pisado \cup {c}
    /\ Responder(p)
    /\ UNCHANGED <<cierre, libro, movido, resolucion>>

\* A refusal, an exception or a lost worker: rolled back
Deshacer(p) ==
    /\ peticion[p] # Libre
    /\ Responder(p)
    /\ UNCHANGED <<cierre, saldo, libro, pisado, ediciones, movido, resolucion>>

-----------------------------------------------------------------------------
Solicitudes == {fila \in Fila : fila.estado = "SOLICITADA"}

Next ==
    \/ \E p \in Peticiones :
          \/ \E h \in Egresados : LeerAbrir(p, h) \/ LeerCerrar(p, h) \/ LeerRegistrar(p, h)
          \/ Abrir(p) \/ Cerrar(p) \/ Ejecutar(p) \/ Confirmar(p) \/ Deshacer(p)
          \/ GuardarEdicion(p) \/ \E c \in Cuentas : LeerEditar(p, c)
          \/ \E r \in Resoluciones :
                LeerAprobar(p, r) \/ \E fila \in Solicitudes : Registrar(p, r, fila)
    \/ \E r \in Resoluciones : Rechazar(r)
    \/ \E c \in Cuentas, d \in {-1, 1} : MoverAjeno(c, d)

Spec == Init /\ [][Next]_vars

-----------------------------------------------------------------------------
(* Properties *)

\* A resolution has moved its pockets exactly once if it is EJECUTADA and not
\* at all otherwise, whoever approves and rejects it at the same time; and no
\* movement of another request is lost under it: balance and ledger agree, but
\* in a pocket that an edit wrote over and no ordinary movement has touched yet.
AsientoExacto ==
    /\ \A r \in Resoluciones, c \in Cuentas :
          movido[r][c] = IF resolucion[r] # Ninguna /\ resolucion[r].estado = "EJECUTADA"
                         THEN Efecto(resolucion[r], c) ELSE 0
    /\ \A c \in Cuentas \ pisado : saldo[c] = libro[c]

\* The balance it was validated on is the one the execution moves
Fiable(fila, c) == c \in pisado => ~Sincroniza(fila, c)

\* An execution brings the pocket it pays from, or whose debt it pays, closer to
\* zero by its amount and not past it, although the balance was first looked at
\* when the resolution was asked for; and a compensation does not overpay.  Not
\* so when an edit wrote over the balance that was validated and the trigger puts
\* the sum of the ledger in its place.
HaciaCero ==
    [][\A r \in Resoluciones :
          LET fila == resolucion'[r]
          IN  resolucion[r] # fila /\ fila.estado = "EJECUTADA" =>
                /\ Fiable(fila, fila.origen) =>
                      /\ saldo'[fila.origen] = saldo[fila.origen] + Efecto(fila, fila.origen)
                      /\ IF fila.tipo \in Salidas THEN saldo'[fila.origen] >= 0
                                                  ELSE saldo'[fila.origen] <= 0
                /\ fila.tipo = "COMPENSACION" /\ Fiable(fila, fila.destino) =>
                      saldo'[fila.destino] <= 0]_vars

\* What an administrator closed with its balances stays closed, whatever was
\* waiting for approval: only a resolution whose registration had not committed
\* when the closing was looked at, and which is executed at once, writes the
\* older row of the closing over it.
CerradoFirme ==
    [][\A h \in Hijos :
          cierre[h] = "CERRADO_CON_SALDO" /\ cierre'[h] # "CERRADO_CON_SALDO" =>
              \E p \in Peticiones :
                  /\ Confirmar(p)
                  /\ peticion[p].nueva
                  /\ HijoDe[peticion[p].fila.origen] = h]_vars
=============================================================================
