--------------------------- MODULE CuentaCorriente ---------------------------
(***************************************************************************)
(* The current account of a client: credit sales, credit notes, payments   *)
(* and charges on account, and the row of CuentaCorrienteCliente each of   *)
(* them leaves.                                                            *)
(*                                                                         *)
(* A row carries the running balance: saldo_resultante = saldo_anterior +- *)
(* monto.  Two disciplines produce saldo_anterior.  The ventas services    *)
(* lock the last row of the client (SELECT ... ORDER BY id DESC LIMIT 1    *)
(* FOR UPDATE) and chain from it; a request that waits for that lock is    *)
(* given the row it waited for, not the one inserted meanwhile, so what    *)
(* counts is what was last when it asked.  CuentaCorrienteCliente.save()   *)
(* locks the row of the client and reads the last row afterwards.          *)
(***************************************************************************)
EXTENDS Integers

CONSTANTS
    Clientes,
    Documentos,  \* what a row of the account is written for
    TipoDe,      \* kind of each document
    ClienteDe,   \* its client
    Montos,      \* amounts a document may have
    Limite,      \* Cliente.limite_credito, 0 for none
    MaxEdiciones, \* bound: manual rewrites of one document
    Peticiones   \* requests in progress at the same time

Tipos == {"VENTA", "NOTA", "PAGO", "CARGO"}

ASSUME CuentaAssumption ==
    /\ TipoDe \in [Documentos -> Tipos]
    /\ ClienteDe \in [Documentos -> Clientes]
    /\ Montos \subseteq Nat \ {0}
    /\ Limite \in Nat
    /\ MaxEdiciones \in Nat

VARIABLES
    doc,      \* the row of each document
    saldo,    \* per client and origin, debits less credits of its rows
    ultimo,   \* per client, saldo_resultante of the last row
    efecto,   \* per document, debits less credits of the rows naming it
    ediciones, \* how often each document was rewritten or deleted by hand
    cruzada,  \* clients for whom a writer that locks the last row has
              \* overlapped another writer
    peticion  \* what each request in progress has learnt

vars == <<doc, saldo, ultimo, efecto, ediciones, cruzada, peticion>>
cuenta == <<saldo, ultimo, efecto>>

-----------------------------------------------------------------------------
\* ACTIVA of Venta and EMITIDA of NotaCredito are one state here; a payment or
\* a charge, once written, stays VIGENTE.
Estados == {"NINGUNO", "VIGENTE", "ANULADO", "BORRADO"}
Origenes == {"CANTINA", "ALMUERZO", "GENERAL"}

Fila == [estado : Estados, monto : Nat, origen : Origenes]

Libre == [op |-> "libre"]

\* Requests that hold a saldo_anterior, by the lock they took for it
PorFila == {"venta", "nota", "revertir"}
PorCliente == {"cobro"}

Lecturas ==
    {Libre}
    \cup [op : PorFila \cup PorCliente, doc : Documentos, fila : Fila, anterior : Int]
    \cup [op : {"convenido"}, doc : Documentos, fila : Fila]
    \cup [op : {"anular"}, doc : Documentos]
    \cup [op : {"editar"}, doc : Documentos, fila : Fila]

TypeOK ==
    /\ doc \in [Documentos -> Fila]
    /\ saldo \in [Clientes -> [Origenes -> Int]]
    /\ ultimo \in [Clientes -> Int]
    /\ efecto \in [Documentos -> Int]
    /\ ediciones \in [Documentos -> Nat]
    /\ cruzada \subseteq Clientes
    /\ peticion \in [Peticiones -> Lecturas]

Init ==
    /\ doc = [d \in Documentos |->
                 [estado |-> "NINGUNO", monto |-> 0, origen |-> "CANTINA"]]
    /\ saldo = [c \in Clientes |-> [o \in Origenes |-> 0]]
    /\ ultimo = [c \in Clientes |-> 0]
    /\ efecto = [d \in Documentos |-> 0]
    /\ ediciones = [d \in Documentos |-> 0]
    /\ cruzada = {}
    /\ peticion = [p \in Peticiones |-> Libre]

-----------------------------------------------------------------------------
(* Requests and locks *)

\* Request q has read the saldo_anterior of client c
Encadena(q, c) ==
    /\ peticion[q].op \in PorFila \cup PorCliente
    /\ ClienteDe[peticion[q].doc] = c

\* The row of document d is locked by an annulment
Bloqueado(d) ==
    \E q \in Peticiones : peticion[q].op = "revertir" /\ peticion[q].doc = d

\* A request is about to insert document d
EnAlta(d) ==
    \E q \in Peticiones :
        peticion[q].op \in {"venta", "nota", "cobro", "convenido"} /\ peticion[q].doc = d

\* Bug: save() reads the last row without locking the client
SinBloqueoDeCliente(c) == FALSE

\* The row of client c is locked by CuentaCorrienteCliente.save()
ClienteBloqueado(c) ==
    \E q \in Peticiones : peticion[q].op \in PorCliente /\ Encadena(q, c)

Responder(p) == peticion' = [peticion EXCEPT ![p] = Libre]

Recordar(p, lectura) == peticion' = [peticion EXCEPT ![p] = lectura]

\* p learns the balance of the last row of its client
LeerUltimo(p, op, d, fila) ==
    LET c == ClienteDe[d]
    IN  /\ Recordar(p, [op |-> op, doc |-> d, fila |-> fila, anterior |-> ultimo[c]])
        /\ cruzada' =
              IF \E q \in Peticiones \ {p} :
                    Encadena(q, c) /\ (op \in PorFila \/ peticion[q].op \in PorFila)
              THEN cruzada \cup {c}
              ELSE cruzada

-----------------------------------------------------------------------------
(* The rows of the account *)

\* Sign of the row a document is entered with
Signo(tipo) == IF tipo \in {"VENTA", "CARGO"} THEN 1 ELSE -1

\* Insert a row that changes the debt of document d by delta, with the
\* saldo_anterior the request holds.
Asentar(d, origen, delta, anterior) ==
    LET c == ClienteDe[d]
    IN  /\ saldo' = [saldo EXCEPT ![c][origen] = @ + delta]
        /\ ultimo' = [ultimo EXCEPT ![c] = anterior + delta]
        /\ efecto' = [efecto EXCEPT ![d] = @ + delta]

\* Insert document d with its row
Ingresar(p, d) ==
    LET fila == peticion[p].fila
    IN  /\ doc' = [doc EXCEPT ![d] = fila]
        /\ Asentar(d, fila.origen, Signo(TipoDe[d]) * fila.monto, peticion[p].anterior)
        /\ Responder(p)
        /\ UNCHANGED <<ediciones, cruzada>>

Nuevo(p, d, tipos) ==
    /\ peticion[p] = Libre
    /\ TipoDe[d] \in tipos
    /\ doc[d].estado = "NINGUNO"
    /\ ~EnAlta(d)

\* Bug: an origen the account does not know
OrigenFueraDeLista(monto, origen) ==
    [estado |-> "VIGENTE", monto |-> monto, origen |-> "TARJETA"]

Vigente(monto, origen) == [estado |-> "VIGENTE", monto |-> monto, origen |-> origen]

\* limite_credito = 0 is no limit
DentroDelLimite(c, monto) == Limite = 0 \/ ultimo[c] + monto <= Limite

-----------------------------------------------------------------------------
(* Credit sales and credit notes *)

\* VentaService.registrar_venta of a CREDITO sale, up to its checks
EmpezarVenta(p, d, monto) ==
    /\ Nuevo(p, d, {"VENTA"})
    /\ DentroDelLimite(ClienteDe[d], monto)
    /\ LeerUltimo(p, "venta", d, Vigente(monto, "CANTINA"))
    /\ UNCHANGED <<doc, cuenta, ediciones>>

\* ... and the Venta and its DEBITO
RegistrarVenta(p) ==
    /\ peticion[p].op = "venta"
    /\ Ingresar(p, peticion[p].doc)

\* VentaService.emitir_nota_credito: a credit whether or not there is a debt
EmpezarNota(p, d, monto) ==
    /\ Nuevo(p, d, {"NOTA"})
    /\ LeerUltimo(p, "nota", d, Vigente(monto, "CANTINA"))
    /\ UNCHANGED <<doc, cuenta, ediciones>>

EmitirNota(p) ==
    /\ peticion[p].op = "nota"
    /\ Ingresar(p, peticion[p].doc)

-----------------------------------------------------------------------------
(* Annulment *)

\* get_object() and the check on the unlocked row
LeerAnular(p, d, tipo) ==
    /\ peticion[p] = Libre
    /\ TipoDe[d] = tipo
    /\ doc[d].estado = "VIGENTE"
    /\ Recordar(p, [op |-> "anular", doc |-> d])
    /\ UNCHANGED <<doc, cuenta, ediciones, cruzada>>

\* VentaViewSet.anular, NotaCreditoViewSet.anular
LeerAnularVenta(p, d) == LeerAnular(p, d, "VENTA")
LeerAnularNota(p, d) == LeerAnular(p, d, "NOTA")

\* Bug: only the unlocked check is made
SinVolverAMirar(d) == TRUE

SigueVigente(d) == doc[d].estado = "VIGENTE"

\* Both services: the row is locked and looked at again, then the last row of
\* the account is locked.
BloquearAnular(p) ==
    /\ peticion[p].op = "anular"
    /\ LET d == peticion[p].doc
       IN  /\ ~Bloqueado(d)
           /\ SigueVigente(d)
           /\ LeerUltimo(p, "revertir", d, doc[d])
    /\ UNCHANGED <<doc, cuenta, ediciones>>

\* ... the row that undoes the first one, and the new estado
Revertir(p) ==
    /\ peticion[p].op = "revertir"
    /\ LET d == peticion[p].doc
           fila == peticion[p].fila
       IN  /\ Asentar(d, "CANTINA", -Signo(TipoDe[d]) * fila.monto, peticion[p].anterior)
           /\ doc' = [doc EXCEPT ![d].estado = "ANULADO"]
    /\ Responder(p)
    /\ UNCHANGED <<ediciones, cruzada>>

\* anular_venta: a credit of its amount
AnularVenta(p) == Revertir(p) /\ TipoDe[peticion[p].doc] = "VENTA"

\* anular_nota_credito: a debit, whether or not there was a debt to reduce
AnularNota(p) == Revertir(p) /\ TipoDe[peticion[p].doc] = "NOTA"

-----------------------------------------------------------------------------
(* Payments and charges *)

\* resolver_origen_pago_cc: the categories a payment may go to ...
OrigenesDePago(c) ==
    LET deudas == {o \in {"CANTINA", "ALMUERZO"} : saldo[c][o] > 0}
    IN  IF deudas = {} THEN Origenes ELSE deudas

\* ... and how much of it: without a debt in a category there is no bound
Adeudado(c, origen, monto) ==
    saldo[c][origen] > 0 => monto <= saldo[c][origen] /\ monto <= ultimo[c]

\* CuentaCorrienteClienteViewSet.create, bancard_iniciar_cc: checked on
\* unlocked reads
ConvenirPago(p, d, monto, origen) ==
    /\ Nuevo(p, d, {"PAGO"})
    /\ origen \in OrigenesDePago(ClienteDe[d])
    /\ Adeudado(ClienteDe[d], origen, monto)
    /\ Recordar(p, [op |-> "convenido", doc |-> d, fila |-> Vigente(monto, origen)])
    /\ UNCHANGED <<doc, cuenta, ediciones, cruzada>>

\* A top-up on account: the limit is checked first
ConvenirCargo(p, d, monto, origen) ==
    /\ Nuevo(p, d, {"CARGO"})
    /\ DentroDelLimite(ClienteDe[d], monto)
    /\ Recordar(p, [op |-> "convenido", doc |-> d, fila |-> Vigente(monto, origen)])
    /\ UNCHANGED <<doc, cuenta, ediciones, cruzada>>

\* CargaSaldoViewSet.create and RecargaSaldoAlmuerzoViewSet.create with
\* metodo_pago CUENTA_CORRIENTE; who may have an account does not change here
ConvenirCarga(p, d, monto) == ConvenirCargo(p, d, monto, "CANTINA")
ConvenirRecargaAlmuerzo(p, d, monto) == ConvenirCargo(p, d, monto, "ALMUERZO")

\* CuentaCorrienteCliente.save(): lock the client, read the last row
BloquearCliente(p) ==
    /\ peticion[p].op = "convenido"
    /\ ~ClienteBloqueado(ClienteDe[peticion[p].doc])
    /\ LeerUltimo(p, "cobro", peticion[p].doc, peticion[p].fila)
    /\ UNCHANGED <<doc, cuenta, ediciones>>

\* ... and insert
AsentarCobro(p) ==
    /\ peticion[p].op = "cobro"
    /\ Ingresar(p, peticion[p].doc)

-----------------------------------------------------------------------------
(* Writes that go round the services *)

\* get_object() of a PUT/PATCH of a sale or a credit note
LeerEditar(p, d) ==
    /\ peticion[p] = Libre
    /\ TipoDe[d] \in {"VENTA", "NOTA"}
    /\ doc[d].estado \in {"VIGENTE", "ANULADO"}
    /\ Recordar(p, [op |-> "editar", doc |-> d, fila |-> doc[d]])
    /\ UNCHANGED <<doc, cuenta, ediciones, cruzada>>

\* serializer.save() writes every column: those of the body, and the others
\* as they were read.  A row deleted meanwhile is inserted again.
GuardarEdicion(p) ==
    /\ peticion[p].op = "editar"
    /\ LET d == peticion[p].doc
       IN  /\ ~Bloqueado(d)
           /\ ediciones[d] < MaxEdiciones
           /\ \E estado \in {"VIGENTE", "ANULADO"}, monto \in Montos :
                 LET fila == [peticion[p].fila EXCEPT !.estado = estado, !.monto = monto]
                 IN  /\ doc' = [doc EXCEPT ![d] = fila]
                     /\ ediciones' = [ediciones EXCEPT ![d] =
                                          IF fila = doc[d] THEN @ ELSE @ + 1]
    /\ Responder(p)
    /\ UNCHANGED <<cuenta, cruzada>>

\* DELETE of a sale or a credit note: the rows of the account stay and lose
\* their document (SET_NULL).
Eliminar(d) ==
    /\ TipoDe[d] \in {"VENTA", "NOTA"}
    /\ doc[d].estado \in {"VIGENTE", "ANULADO"}
    /\ ~Bloqueado(d)
    /\ doc' = [doc EXCEPT ![d].estado = "BORRADO"]
    /\ ediciones' = [ediciones EXCEPT ![d] = @ + 1]
    /\ UNCHANGED <<cuenta, cruzada, peticion>>

\* A validation that fails, an exception or a lost worker: rolled back
Deshacer(p) ==
    /\ peticion[p] # Libre
    /\ Responder(p)
    /\ UNCHANGED <<doc, cuenta, ediciones, cruzada>>

-----------------------------------------------------------------------------
Convenir(p, d, monto) ==
    \/ EmpezarVenta(p, d, monto)
    \/ EmpezarNota(p, d, monto)
    \/ \E origen \in Origenes : ConvenirPago(p, d, monto, origen)
    \/ ConvenirCarga(p, d, monto)
    \/ ConvenirRecargaAlmuerzo(p, d, monto)

DePeticion(p) ==
    \/ \E d \in Documentos, monto \in Montos : Convenir(p, d, monto)
    \/ \E d \in Documentos :
          LeerAnularVenta(p, d) \/ LeerAnularNota(p, d) \/ LeerEditar(p, d)
    \/ RegistrarVenta(p)
    \/ EmitirNota(p)
    \/ BloquearAnular(p)
    \/ AnularVenta(p) \/ AnularNota(p)
    \/ BloquearCliente(p)
    \/ AsentarCobro(p)
    \/ GuardarEdicion(p)
    \/ Deshacer(p)

Next ==
    \/ \E p \in Peticiones : DePeticion(p)
    \/ \E d \in Documentos : Eliminar(d)

Spec == Init /\ [][Next]_vars

-----------------------------------------------------------------------------
(* Properties *)

\* What a document owes the account is what the account holds for it: its
\* amount while it stands, nothing once it is annulled, and nothing before it
\* exists.  Two annulments that both read it standing do not undo it twice.
EfectoExacto ==
    \A d \in Documentos :
        ediciones[d] = 0 =>
            efecto[d] = IF doc[d].estado = "VIGENTE"
                        THEN Signo(TipoDe[d]) * doc[d].monto
                        ELSE 0

\* Sum of the three origins: what the client owes
Deuda(c) == saldo[c]["CANTINA"] + saldo[c]["ALMUERZO"] + saldo[c]["GENERAL"]

\* The running balance of the last row, which the credit limit and the cap of
\* a payment are checked against, is the sum of the rows, as long as no sale,
\* credit note or annulment ran together with another writer of the client:
\* payments and charges may overlap one another at will.
CadenaCuadra == \A c \in Clientes \ cruzada : ultimo[c] = Deuda(c)
=============================================================================
