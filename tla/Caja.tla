-------------------------------- MODULE Caja --------------------------------
(***************************************************************************)
(* The cash desk: its shifts (CierreCaja), the movements that enter them,  *)
(* and the sales and top-ups, with their invoices, that bring the movement *)
(* along.                                                                  *)
(*                                                                         *)
(* Opening locks the desk, closing and registrar_movimiento lock the       *)
(* shift.  Whoever collects money reads the open shift without a lock and  *)
(* inserts the movement later.  The foreign key is checked at commit: the  *)
(* movement appears once a closing in progress is over, on a closed shift. *)
(* A unique index lets a desk have one open shift.                         *)
(***************************************************************************)
EXTENDS Facturacion, FiniteSetsExt

CONSTANTS
    Cajas,
    Cierres,
    Manuales,      \* movements entered by hand; the others bear the name of
                   \* the row they collect
    MontoDe,       \* signed amount of each movement
    Efectivo,      \* movements that count as cash
    Iniciales,     \* opening balances
    Contados       \* amounts a cashier may count

ASSUME CajaAssumption ==
    /\ Sin \notin Cierres \cup Cajas
    /\ Origenes \cap Manuales = {}
    /\ MontoDe \in [Origenes \cup Manuales -> Int]
    /\ Iniciales \subseteq Int
    /\ Contados \subseteq Int

VARIABLES
    cierre,        \* row of each shift
    movimiento,    \* shift of each movement
    tocado         \* shifts whose figures changed outside the locks

varsCierres == <<cierre, movimiento, tocado>>
vars == <<varsFacturacion, varsCierres, peticion>>

EstadosCierre == {"NINGUNO", "ABIERTO", "CERRADO", "CONCILIADO", "ELIMINADO"}

Movimientos == Origenes \cup Manuales

FilaCierre == [estado : EstadosCierre, caja : Cajas \cup {Sin}, inicial : Int,
               contado : Int, diferencia : Int]
SinCierre == [estado |-> "NINGUNO", caja |-> Sin, inicial |-> 0,
              contado |-> 0, diferencia |-> 0]

Lecturas ==
    {Libre}
    \cup [op : {"anular"}, origen : Origenes]
    \cup [op : {"abrir"}, cierre : Cierres, caja : Cajas]
    \cup [op : {"conciliar", "cobrar"}, cierre : Cierres]
    \cup [op : {"cerrar", "nocturna"}, cierre : Cierres, esperado : Int]
    \cup [op : {"patch"}, cierre : Cierres, fila : FilaCierre]

TypeOK ==
    /\ TypeOKFacturacion
    /\ cierre \in [Cierres -> FilaCierre]
    /\ movimiento \in [Movimientos -> Cierres \cup {Sin}]
    /\ tocado \subseteq Cierres
    /\ peticion \in [Peticiones -> Lecturas]

Init ==
    /\ InitFacturacion
    /\ cierre = [c \in Cierres |-> SinCierre]
    /\ movimiento = [m \in Movimientos |-> Sin]
    /\ tocado = {}
    /\ peticion = [p \in Peticiones |-> Libre]

-----------------------------------------------------------------------------
Abierto(c) == cierre[c].estado = "ABIERTO"

\* Bug: the desk is not locked
SinCandadoDeCaja(k) == FALSE

CajaBloqueada(k) ==
    \E q \in Peticiones : peticion[q].op = "abrir" /\ peticion[q].caja = k

\* uq_caja_abierta: the shift c may be open on the desk k
IndiceLibre(k, c) ==
    \A d \in Cierres \ {c} : cierre[d].caja = k => ~Abierto(d)

\* Bug: the closing does not lock the shift
SinCandadoDeCierre(c) == FALSE

CierreBloqueado(c) ==
    \E q \in Peticiones : peticion[q].op \in {"cerrar", "nocturna"} /\ peticion[q].cierre = c

Todos(c) == {m \in Movimientos : movimiento[m] = c}

\* What should be in the drawer, and what all the movements of the shift make
EfectivoEsperado(c) == cierre[c].inicial + SumFunctionOnSet(MontoDe, Todos(c) \cap Efectivo)
MontoEsperado(c) == cierre[c].inicial + SumFunctionOnSet(MontoDe, Todos(c))

\* A shift that is closed or being closed should not change any more
Tocar(cs) == tocado' = tocado \cup {c \in cs : ~Abierto(c) \/ CierreBloqueado(c)}

-----------------------------------------------------------------------------
(* The shift *)

\* abrir_caja, under the lock of the desk: no shift of it is open ...
EmpezarAbrir(p, c, k) ==
    /\ peticion[p] = Libre
    /\ ~CajaBloqueada(k)
    /\ cierre[c].estado = "NINGUNO"
    /\ \A d \in Cierres : cierre[d].caja = k => ~Abierto(d)
    /\ Recordar(p, [op |-> "abrir", cierre |-> c, caja |-> k])
    /\ UNCHANGED <<varsFacturacion, varsCierres>>

\* ... and this one is inserted, unless the index refuses it
Abrir(p, inicial) ==
    /\ peticion[p].op = "abrir"
    /\ LET c == peticion[p].cierre
           k == peticion[p].caja
       IN  /\ cierre[c].estado = "NINGUNO"
           /\ IndiceLibre(k, c)
           /\ cierre' = [cierre EXCEPT ![c] =
                            [SinCierre EXCEPT !.estado = "ABIERTO", !.caja = k,
                                              !.inicial = inicial]]
    /\ Responder(p)
    /\ UNCHANGED <<varsFacturacion, movimiento, tocado>>

\* Bug: a closing does not look at the shift again under its lock
SinVolverAMirar(c) == cierre[c].estado \notin {"NINGUNO", "ELIMINADO"}

SigueAbierto(c) == Abierto(c)

\* cerrar_caja adds up the cash movements, under the lock of the shift
EmpezarCerrar(p, c) ==
    /\ peticion[p] = Libre
    /\ ~CierreBloqueado(c)
    /\ Abierto(c)
    /\ Recordar(p, [op |-> "cerrar", cierre |-> c, esperado |-> EfectivoEsperado(c)])
    /\ UNCHANGED <<varsFacturacion, varsCierres>>

\* cierre_nocturno_cajas adds up all of them, for the shifts it listed as open
\* before it locked each; the scheduler leaves it out, it is run by hand
EmpezarNocturna(p, c) ==
    /\ peticion[p] = Libre
    /\ ~CierreBloqueado(c)
    /\ SigueAbierto(c)
    /\ Recordar(p, [op |-> "nocturna", cierre |-> c, esperado |-> MontoEsperado(c)])
    /\ UNCHANGED <<varsFacturacion, varsCierres>>

\* Bug: a state outside the list
EstadoFueraDeLista == "ARQUEADO"

EstadoAlCerrar == "CERRADO"

EscribirCierre(p, contado) ==
    /\ cierre' = [cierre EXCEPT ![peticion[p].cierre] =
                     [@ EXCEPT !.estado = EstadoAlCerrar, !.contado = contado,
                               !.diferencia = contado - peticion[p].esperado]]
    /\ Responder(p)
    /\ UNCHANGED <<varsFacturacion, movimiento, tocado>>

Cerrar(p, contado) ==
    /\ peticion[p].op = "cerrar"
    /\ EscribirCierre(p, contado)

\* Nobody counted: the amount expected is taken as counted
CerrarDeNoche(p) ==
    /\ peticion[p].op = "nocturna"
    /\ EscribirCierre(p, peticion[p].esperado)

LeerConciliar(p, c) ==
    /\ peticion[p] = Libre
    /\ cierre[c].estado = "CERRADO"
    /\ Recordar(p, [op |-> "conciliar", cierre |-> c])
    /\ UNCHANGED <<varsFacturacion, varsCierres>>

\* conciliar: not looked at again
Conciliar(p) ==
    /\ peticion[p].op = "conciliar"
    /\ LET c == peticion[p].cierre
       IN  /\ ~CierreBloqueado(c)
           /\ cierre[c].estado # "ELIMINADO"
           /\ cierre' = [cierre EXCEPT ![c].estado = "CONCILIADO"]
    /\ Responder(p)
    /\ UNCHANGED <<varsFacturacion, movimiento, tocado>>

LeerPatch(p, c) ==
    /\ peticion[p] = Libre
    /\ cierre[c].estado \notin {"NINGUNO", "ELIMINADO"}
    /\ Recordar(p, [op |-> "patch", cierre |-> c, fila |-> cierre[c]])
    /\ UNCHANGED <<varsFacturacion, varsCierres>>

\* PUT/PATCH of a shift takes caja and monto_inicial and writes back the rest of
\* the row as it was read, inserting it again if it was deleted
GuardarPatch(p, inicial, k) ==
    /\ peticion[p].op = "patch"
    /\ LET c == peticion[p].cierre
           fila == [peticion[p].fila EXCEPT !.caja = k, !.inicial = inicial]
       IN  /\ ~CierreBloqueado(c)
           /\ fila.estado = "ABIERTO" => IndiceLibre(k, c)
           /\ cierre' = [cierre EXCEPT ![c] = fila]
           /\ tocado' = IF [cierre[c] EXCEPT !.inicial = inicial] # fila
                           \/ (~Abierto(c) /\ fila # cierre[c])
                        THEN tocado \cup {c} ELSE tocado
    /\ Responder(p)
    /\ Editar
    /\ UNCHANGED <<varsOrigen, movimiento>>

\* DELETE, of a shift without movements (PROTECT)
EliminarCierre(c) ==
    /\ cierre[c].estado \notin {"NINGUNO", "ELIMINADO"}
    /\ ~CierreBloqueado(c)
    /\ Todos(c) = {}
    /\ cierre' = [cierre EXCEPT ![c].estado = "ELIMINADO"]
    /\ Editar
    /\ UNCHANGED <<varsOrigen, movimiento, tocado, peticion>>

-----------------------------------------------------------------------------
(* Movements *)

\* CajaService.registrar_movimiento, under the lock of the shift
RegistrarMovimiento(m, c) ==
    /\ movimiento[m] = Sin
    /\ ~CierreBloqueado(c)
    /\ SigueAbierto(c)
    /\ movimiento' = [movimiento EXCEPT ![m] = c]
    /\ UNCHANGED <<varsFacturacion, cierre, tocado, peticion>>

\* POST of MovimientoCajaViewSet, and a PUT/PATCH that moves a row to another
\* shift: any shift, no lock but the one its commit asks for.  A PATCH of the
\* amount is a row that goes and another one that comes.
EscribirMovimiento(m, c) ==
    /\ cierre[c].estado \notin {"NINGUNO", "ELIMINADO"}
    /\ m \in Origenes => movimiento[m] # Sin
    /\ c # movimiento[m]
    /\ ~CierreBloqueado(c)
    /\ movimiento' = [movimiento EXCEPT ![m] = c]
    /\ Tocar({c, movimiento[m]} \ {Sin})
    /\ Editar
    /\ UNCHANGED <<varsOrigen, cierre, peticion>>

EliminarMovimiento(m) ==
    /\ movimiento[m] # Sin
    /\ movimiento' = [movimiento EXCEPT ![m] = Sin]
    /\ Tocar({movimiento[m]})
    /\ Editar
    /\ UNCHANGED <<varsOrigen, cierre, peticion>>

\* A sale, a top-up or a payment looks for the open shift of the cashier ...
LeerCaja(p, c) ==
    /\ peticion[p] = Libre
    /\ Abierto(c)
    /\ Recordar(p, [op |-> "cobrar", cierre |-> c])
    /\ UNCHANGED <<varsFacturacion, varsCierres>>

\* ... and inserts its row, its movement and, if it has a number, its invoice
Cobrar(p, o) ==
    /\ peticion[p].op = "cobrar"
    /\ origen[o] = "NINGUNO"
    /\ LET c == peticion[p].cierre
       IN  /\ ~CierreBloqueado(c)
           /\ cierre[c].estado # "ELIMINADO"
           /\ movimiento' = [movimiento EXCEPT ![o] = c]
           /\ Tocar({c})
    /\ origen' = [origen EXCEPT ![o] = "VIGENTE"]
    /\ UNCHANGED varsFactura \/ \E f \in Facturas : EmitirFactura(f, {o}, Sin)
    /\ Responder(p)
    /\ UNCHANGED <<cierre, cruzados, aMano, reescritos, ediciones>>

\* An exception or a lost worker: rolled back
Deshacer(p) ==
    /\ peticion[p] # Libre
    /\ Responder(p)
    /\ UNCHANGED <<varsFacturacion, varsCierres>>

-----------------------------------------------------------------------------
DePeticion(p) ==
    \/ \E c \in Cierres :
          EmpezarCerrar(p, c) \/ EmpezarNocturna(p, c)
             \/ LeerConciliar(p, c) \/ LeerPatch(p, c) \/ LeerCaja(p, c)
    \/ \E c \in Cierres, k \in Cajas : EmpezarAbrir(p, c, k)
    \/ \E inicial \in Iniciales : Abrir(p, inicial)
    \/ \E inicial \in Iniciales, k \in Cajas : GuardarPatch(p, inicial, k)
    \/ \E contado \in Contados : Cerrar(p, contado)
    \/ CerrarDeNoche(p)
    \/ Conciliar(p)
    \/ \E o \in Origenes : Cobrar(p, o)
    \/ Deshacer(p)

DeMovimiento(m) ==
    \/ \E c \in Cierres : EscribirMovimiento(m, c)
    \/ EliminarMovimiento(m)

Next ==
    \/ \E p \in Peticiones : DePeticion(p)
    \/ \E m \in Movimientos : DeMovimiento(m)
    \/ \E m \in Manuales, c \in Cierres : RegistrarMovimiento(m, c)
    \/ \E c \in Cierres : EliminarCierre(c)
    \/ NextFacturacion /\ UNCHANGED varsCierres

Spec == Init /\ [][Next]_vars

-----------------------------------------------------------------------------
(* Properties *)

\* A desk has one open shift at most.  And who passed the check of abrir_caja is
\* not refused by the index later: while the desk is locked nobody opens another
\* shift on it, but for a PATCH that brings one back or moves one there.
UnaCajaAbierta ==
    /\ \A c, d \in {x \in Cierres : Abierto(x)} : cierre[c].caja = cierre[d].caja => c = d
    /\ \A p \in Peticiones : peticion[p].op = "abrir" =>
          \A d \in Cierres \ tocado : cierre[d].caja = peticion[p].caja => ~Abierto(d)

\* The difference noted on a shift is about its movements as they are now: one
\* that registrar_movimiento enters while the shift is being closed is either
\* added up or refused.  A sale is never refused: left out are the shifts that
\* one reached late, and those that a PUT, PATCH or DELETE touched.
ArqueoCuadra ==
    \A c \in Cierres \ tocado :
        cierre[c].estado \in {"CERRADO", "CONCILIADO"} =>
            cierre[c].contado - cierre[c].diferencia \in {EfectivoEsperado(c), MontoEsperado(c)}

\* What a cashier counted is not overwritten: neither a second closing, from the
\* till or by the task, nor a reconciliation changes the figures of a closed
\* shift, a PUT, PATCH or DELETE apart.
ConteoIntacto ==
    [][\A c \in Cierres :
          cierre[c].estado \in {"CERRADO", "CONCILIADO"} /\ c \notin tocado' =>
              /\ cierre'[c].contado = cierre[c].contado
              /\ cierre'[c].diferencia = cierre[c].diferencia]_vars
=============================================================================
