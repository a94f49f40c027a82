--------------------------- MODULE BancardProofs ---------------------------
(***************************************************************************)
(* Proofs about the online payment, for every set of payments of any kind  *)
(* and any number of concurrent requests: what it keeps true, and that it  *)
(* implements the life of a payment of PagoIdeal.                          *)
(***************************************************************************)
EXTENDS Bancard, TLAPS

-----------------------------------------------------------------------------
(* The inductive invariant *)

Cobrada(x) == banco[x] \in {"aprobada", "reversada"}

\* What the state of a payment says of its credits
PagoFiel(x) ==
    /\ pago[x] = "APROBADO" => credito[x] >= 1
    /\ reverso[x] <= 1
    /\ reverso[x] = 1 => banco[x] = "reversada" /\ credito[x] >= 1

\* What a request p for x has learnt is still true, whatever the others did
LecturaFiel(p, x) ==
    /\ peticion[p].op = "charge" <=> pago[x] = "NINGUNO"
    /\ peticion[p].op = "charge" /\ peticion[p].sabe = "nada"
          => banco[x] = "sinOperacion"
    /\ peticion[p].sabe = "00" => Cobrada(x)
    /\ peticion[p].sabe = "reversado" => banco[x] = "reversada" /\ reverso[x] = 0
    /\ peticion[p].op = "anular" => credito[x] >= 1
    /\ peticion[p].sabe = "existe" => credito[x] >= 1

\* The row of a charge is not visible to another request, and Bancard
\* accepts one rollback.
LecturasDistintas(p, q) ==
    /\ ~(peticion[p].op = "charge" /\ peticion[q].op = "charge")
    /\ ~(peticion[p].sabe = "reversado" /\ peticion[q].sabe = "reversado")

PagosInv == \A x \in Pagos : PagoFiel(x)

LecturasInv ==
    \A p \in Peticiones, x \in Pagos : EnCurso(p, x) => LecturaFiel(p, x)

ParejasInv ==
    \A p, q \in Peticiones, x \in Pagos :
        p # q /\ EnCurso(p, x) /\ EnCurso(q, x) => LecturasDistintas(p, q)

IInv == TypeOK /\ PagosInv /\ LecturasInv /\ ParejasInv

\* What holds in addition of a payment whose requests never overlapped: its
\* state says how often it was credited, and no request acts on a state that
\* another one changed.
Cuenta(x) ==
    /\ credito[x] <= 1
    /\ pago[x] \in {"NINGUNO", "PENDIENTE", "ERROR"} => credito[x] = 0
    /\ pago[x] \in {"NINGUNO", "PENDIENTE"} => banco[x] # "reversada"
    /\ pago[x] = "CANCELADO" => banco[x] = "reversada"

Turno(p, x) ==
    /\ peticion[p].op \in {"webhook", "reconsulta", "cierre"} => pago[x] = "PENDIENTE"
    /\ peticion[p].op = "retorno"
          => \/ pago[x] = "PENDIENTE"
             \/ pago[x] = "CANCELADO" /\ peticion[p].sabe # "00"
    /\ peticion[p].op = "reintento" => pago[x] = "ERROR"
    /\ peticion[p].op = "anular" => pago[x] = "APROBADO"

Secuencial(x) ==
    /\ Cuenta(x)
    /\ \A p, q \in Peticiones : EnCurso(p, x) /\ EnCurso(q, x) => p = q
    /\ \A p \in Peticiones : EnCurso(p, x) => Turno(p, x)

SecuencialInv == \A x \in Pagos : ~solapada[x] => Secuencial(x)

-----------------------------------------------------------------------------
(* Requests *)

Registro == [op : Operaciones, pago : Pagos, sabe : Respuestas]

\* A request for x in progress has a record of its own.
LEMMA EnCursoRegistro ==
    ASSUME TypeOK, NEW p \in Peticiones, NEW x, EnCurso(p, x)
    PROVE  peticion[p] \in Registro /\ x = peticion[p].pago /\ x \in Pagos
  BY DEF TypeOK, Lecturas, Registro, EnCurso

LEMMA RegistroLectura ==
    /\ Registro \subseteq Lecturas /\ Libre \in Lecturas
    /\ \A r \in Registro : r # Libre
    /\ \A r \in Registro, sabe \in Respuestas :
          /\ [r EXCEPT !.sabe = sabe] \in Registro
          /\ [r EXCEPT !.sabe = sabe].op = r.op
          /\ [r EXCEPT !.sabe = sabe].pago = r.pago
          /\ [r EXCEPT !.sabe = sabe].sabe = sabe
  BY DEF Registro, Lecturas, Libre, Operaciones

\* What becomes of the requests when p, which was for x, is answered: the
\* ones in progress afterwards are the others, and know what they knew.
LEMMA ResponderEfecto ==
    ASSUME TypeOK, NEW p \in Peticiones, Responder(p)
    PROVE  /\ peticion' \in [Peticiones -> Lecturas]
           /\ \A q \in Peticiones, y \in Pagos :
                 EnCurso(q, y)' => /\ q # p /\ EnCurso(q, y)
                                   /\ peticion'[q] = peticion[q]
  BY RegistroLectura DEF TypeOK, Responder, EnCurso

\* p learns something: it is the same request and the others are untouched.
LEMMA AprenderEfecto ==
    ASSUME TypeOK, NEW p \in Peticiones, NEW x \in Pagos, EnCurso(p, x),
           NEW sabe \in Respuestas, Aprender(p, sabe)
    PROVE  /\ peticion' \in [Peticiones -> Lecturas]
           /\ peticion'[p].op = peticion[p].op /\ peticion'[p].sabe = sabe
           /\ \A q \in Peticiones \ {p} : peticion'[q] = peticion[q]
           /\ \A q \in Peticiones, y \in Pagos : EnCurso(q, y)' <=> EnCurso(q, y)
  <1>1. peticion[p] \in Registro
    BY EnCursoRegistro
  <1>2. peticion' = [peticion EXCEPT ![p] = [peticion[p] EXCEPT !.sabe = sabe]]
    BY DEF Aprender
  <1> DEFINE r == [peticion[p] EXCEPT !.sabe = sabe]
  <1>3. /\ r \in Registro /\ r \in Lecturas /\ r # Libre /\ peticion[p] # Libre
        /\ r.op = peticion[p].op /\ r.pago = peticion[p].pago /\ r.sabe = sabe
    BY <1>1, RegistroLectura
  <1> HIDE DEF r
  <1>4. /\ peticion' \in [Peticiones -> Lecturas] /\ peticion'[p] = r
        /\ \A q \in Peticiones \ {p} : peticion'[q] = peticion[q]
    BY <1>2, <1>3 DEF TypeOK, r
  <1>5. \A q \in Peticiones, y \in Pagos : EnCurso(q, y)' <=> EnCurso(q, y)
    BY <1>3, <1>4 DEF EnCurso
  <1> QED BY <1>3, <1>4, <1>5

\* p begins: it is in progress for x and the others are untouched.
LEMMA EmpezarEfecto ==
    ASSUME TypeOK, NEW p \in Peticiones, NEW x \in Pagos,
           NEW op \in Operaciones, NEW sabe \in Respuestas,
           Empezar(p, op, x, sabe)
    PROVE  /\ TypeOK'
           /\ peticion'[p].op = op /\ peticion'[p].sabe = sabe
           /\ \A q \in Peticiones \ {p} : peticion'[q] = peticion[q]
           /\ \A y \in Pagos : EnCurso(p, y)' <=> y = x
           /\ \A q \in Peticiones \ {p}, y \in Pagos : EnCurso(q, y)' <=> EnCurso(q, y)
           /\ \A y \in Pagos \ {x} : solapada'[y] = solapada[y]
           /\ ~solapada'[x] => /\ ~solapada[x]
                               /\ \A q \in Peticiones \ {p} : ~EnCurso(q, x)
           /\ UNCHANGED <<tipo, pago, banco, credito, reverso, activa>>
  <1> DEFINE r == [op |-> op, pago |-> x, sabe |-> sabe]
  <1>1. r \in Registro /\ r.op = op /\ r.pago = x /\ r.sabe = sabe
    BY DEF Registro
  <1>2. r \in Lecturas /\ r # Libre
    BY <1>1, RegistroLectura
  <1>3. peticion' = [peticion EXCEPT ![p] = r]
    BY DEF Empezar
  <1> HIDE DEF r
  <1>4. /\ peticion' \in [Peticiones -> Lecturas] /\ peticion'[p] = r
        /\ \A q \in Peticiones \ {p} : peticion'[q] = peticion[q]
    BY <1>2, <1>3 DEF TypeOK
  <1>5. /\ \A y \in Pagos : EnCurso(p, y)' <=> y = x
        /\ \A q \in Peticiones \ {p}, y \in Pagos : EnCurso(q, y)' <=> EnCurso(q, y)
    BY <1>1, <1>2, <1>4 DEF EnCurso
  <1>6. /\ \A y \in Pagos \ {x} : solapada'[y] = solapada[y]
        /\ solapada'[x] = (solapada[x] \/ \E q \in Peticiones \ {p} : EnCurso(q, x))
        /\ solapada' \in [Pagos -> BOOLEAN]
    <2> DEFINE s == solapada[x] \/ \E q \in Peticiones \ {p} : EnCurso(q, x)
    <2>1. s \in BOOLEAN /\ solapada' = [solapada EXCEPT ![x] = s]
      BY DEF Empezar, TypeOK
    <2> HIDE DEF s
    <2>2. /\ \A y \in Pagos \ {x} : solapada'[y] = solapada[y]
          /\ solapada'[x] = s /\ solapada' \in [Pagos -> BOOLEAN]
      BY <2>1 DEF TypeOK
    <2> QED BY <2>2 DEF s
  <1>7. UNCHANGED <<tipo, pago, banco, credito, reverso, activa>>
    BY DEF Empezar
  <1>8. TypeOK'
    BY <1>4, <1>6, <1>7 DEF TypeOK
  <1> QED BY <1>1, <1>4, <1>5, <1>6, <1>7, <1>8

-----------------------------------------------------------------------------
(* Credits *)

\* Writing the row of x and crediting touch x alone; APROBADO comes with a
\* credit, and a credit is never lost.
Resuelto(x) ==
    /\ pago' \in [Pagos -> EstadosPago] /\ credito' \in [Pagos -> Nat]
    /\ \A y \in Pagos \ {x} : pago'[y] = pago[y] /\ credito'[y] = credito[y]
    /\ pago'[x] # "NINGUNO" /\ credito'[x] >= credito[x]
    /\ pago'[x] = "APROBADO" => credito'[x] >= 1

LEMMA EscribirResuelve ==
    ASSUME TypeOK, NEW x \in Pagos, NEW estado \in EstadosPago \ {"NINGUNO"},
           estado = "APROBADO" => credito[x] >= 1, Escribir(x, estado)
    PROVE  Resuelto(x) /\ pago'[x] = estado /\ credito'[x] = credito[x]
  BY DEF TypeOK, Escribir, Resuelto

LEMMA AcreditarResuelve ==
    ASSUME TypeOK, NEW x \in Pagos, Acreditar(x)
    PROVE  /\ Resuelto(x)
           /\ \/ pago'[x] = "APROBADO" /\ credito'[x] = credito[x] + 1
              \/ pago'[x] = "ERROR" /\ credito'[x] = credito[x]
  <1>1. CASE Acreditable(x)
    BY <1>1 DEF TypeOK, Acreditar, EstadoTrasAcreditar, Resuelto, EstadosPago
  <1>2. CASE ~Acreditable(x)
    BY <1>2 DEF TypeOK, Acreditar, EstadoTrasAcreditar, Resuelto, EstadosPago
  <1> QED BY <1>1, <1>2

\* A result is a credit, a failed credit or a rejection; only "00" credits.
LEMMA ProcesarResuelve ==
    ASSUME TypeOK, NEW x \in Pagos, NEW codigo \in Respuestas,
           ProcesarResultado(x, codigo)
    PROVE  /\ Resuelto(x)
           /\ \/ /\ codigo = "00" /\ pago'[x] = "APROBADO"
                 /\ credito'[x] = credito[x] + 1
              \/ /\ codigo = "00" /\ pago'[x] = "ERROR"
                 /\ credito'[x] = credito[x]
              \/ pago'[x] = "RECHAZADO" /\ credito'[x] = credito[x]
  <1>1. CASE CodigoAprobado(codigo) /\ Acreditar(x)
    BY <1>1, AcreditarResuelve DEF CodigoAprobado
  <1>2. CASE Escribir(x, "RECHAZADO")
    BY <1>2, EscribirResuelve DEF EstadosPago
  <1> QED BY <1>1, <1>2 DEF ProcesarResultado

-----------------------------------------------------------------------------
(* The kinds of step keep the invariant *)

\* A request begins, and what it reads is true.
LEMMA EmpezarPaso ==
    ASSUME IInv, NEW p \in Peticiones, NEW x \in Pagos,
           NEW op \in Operaciones, NEW sabe \in {"nada", "00", "rechazo"},
           Empezar(p, op, x, sabe),
           op = "charge" <=> pago[x] = "NINGUNO",
           op = "charge" => /\ banco[x] = "sinOperacion"
                            /\ \A q \in Peticiones : ~EnCurso(q, x),
           sabe = "00" => Cobrada(x),
           op = "anular" => credito[x] >= 1
    PROVE  IInv'
  <1> USE DEF IInv
  <1>1. /\ TypeOK'
        /\ peticion'[p].op = op /\ peticion'[p].sabe = sabe
        /\ \A q \in Peticiones \ {p} : peticion'[q] = peticion[q]
        /\ \A y \in Pagos : EnCurso(p, y)' <=> y = x
        /\ \A q \in Peticiones \ {p}, y \in Pagos : EnCurso(q, y)' <=> EnCurso(q, y)
        /\ UNCHANGED <<tipo, pago, banco, credito, reverso, activa>>
    BY EmpezarEfecto DEF Respuestas
  <1>2. PagosInv'
    BY <1>1 DEF PagosInv, PagoFiel
  <1>3. LecturaFiel(p, x)'
    BY <1>1 DEF LecturaFiel, Cobrada
  <1>4. ASSUME NEW q \in Peticiones \ {p}, NEW y \in Pagos, EnCurso(q, y)
        PROVE  LecturaFiel(q, y)'
    BY <1>1, <1>4 DEF LecturasInv, LecturaFiel, Cobrada
  <1>5. LecturasInv'
    BY <1>1, <1>3, <1>4 DEF LecturasInv
  <1>6. ASSUME NEW q \in Peticiones \ {p}, EnCurso(q, x)
        PROVE  op # "charge"
    BY <1>6
  <1>7. ParejasInv'
    BY <1>1, <1>6 DEF ParejasInv, LecturasDistintas
  <1> QED BY <1>1, <1>2, <1>5, <1>7

\* A request learns what is true, and Bancard is not moved by the question.
LEMMA AprenderPaso ==
    ASSUME IInv, NEW p \in Peticiones, NEW x \in Pagos, EnCurso(p, x),
           NEW sabe \in Respuestas \ {"nada", "reversado"},
           Aprender(p, sabe),
           sabe = "00" => Cobrada(x),
           sabe = "existe" => credito[x] >= 1,
           UNCHANGED <<tipo, pago, banco, credito, reverso, activa, solapada>>
    PROVE  IInv'
  <1> USE DEF IInv
  <1>1. /\ peticion' \in [Peticiones -> Lecturas]
        /\ peticion'[p].op = peticion[p].op /\ peticion'[p].sabe = sabe
        /\ \A q \in Peticiones \ {p} : peticion'[q] = peticion[q]
        /\ \A q \in Peticiones, y \in Pagos : EnCurso(q, y)' <=> EnCurso(q, y)
    BY AprenderEfecto
  <1>2. TypeOK' /\ PagosInv'
    BY <1>1 DEF TypeOK, PagosInv, PagoFiel
  <1>3. LecturaFiel(p, x)'
    BY <1>1 DEF LecturasInv, LecturaFiel, Cobrada
  <1>4. ASSUME NEW y \in Pagos, EnCurso(p, y) PROVE y = x
    BY <1>4, EnCursoRegistro
  <1>5. LecturasInv'
    BY <1>1, <1>3, <1>4 DEF LecturasInv, LecturaFiel, Cobrada
  <1>6. ParejasInv'
    BY <1>1 DEF ParejasInv, LecturasDistintas
  <1> QED BY <1>2, <1>5, <1>6

\* A request is answered without having written.
LEMMA ResponderPaso ==
    ASSUME IInv, NEW p \in Peticiones, Responder(p),
           UNCHANGED <<tipo, pago, banco, credito, reverso, activa, solapada>>
    PROVE  IInv'
  <1> USE DEF IInv
  <1>1. /\ peticion' \in [Peticiones -> Lecturas]
        /\ \A q \in Peticiones, y \in Pagos :
              EnCurso(q, y)' => /\ q # p /\ EnCurso(q, y)
                                /\ peticion'[q] = peticion[q]
    BY ResponderEfecto
  <1>2. TypeOK' /\ PagosInv'
    BY <1>1 DEF TypeOK, PagosInv, PagoFiel
  <1>3. LecturasInv'
    BY <1>1 DEF LecturasInv, LecturaFiel, Cobrada
  <1>4. ParejasInv'
    BY <1>1 DEF ParejasInv, LecturasDistintas
  <1> QED BY <1>2, <1>3, <1>4

\* A request writes its result and is answered.  If it was a charge it was
\* the only request for x; if not, the row was there.
LEMMA ResolverPaso ==
    ASSUME IInv, NEW p \in Peticiones, NEW x \in Pagos, EnCurso(p, x),
           Responder(p), Resuelto(x),
           UNCHANGED <<tipo, banco, reverso, activa, solapada>>
    PROVE  IInv'
  <1> USE DEF IInv
  <1>1. /\ peticion' \in [Peticiones -> Lecturas]
        /\ \A q \in Peticiones, y \in Pagos :
              EnCurso(q, y)' => /\ q # p /\ EnCurso(q, y)
                                /\ peticion'[q] = peticion[q]
    BY ResponderEfecto
  <1>2. /\ credito[x] \in Nat /\ credito'[x] \in Nat
        /\ \A y \in Pagos : credito'[y] >= credito[y] /\ credito[y] \in Nat
    BY DEF TypeOK, Resuelto
  <1>3. TypeOK'
    BY <1>1 DEF TypeOK, Resuelto
  <1>4. PagosInv'
    BY <1>2, <1>3 DEF PagosInv, PagoFiel, Resuelto, TypeOK
  <1>5. ASSUME NEW q \in Peticiones, EnCurso(q, x), q # p PROVE pago[x] # "NINGUNO"
    <2>1. LecturaFiel(p, x) /\ LecturaFiel(q, x) /\ LecturasDistintas(p, q)
      BY <1>5 DEF LecturasInv, ParejasInv
    <2> QED BY <2>1 DEF LecturaFiel, LecturasDistintas
  <1>6. LecturasInv'
    <2> SUFFICES ASSUME NEW q \in Peticiones, NEW y \in Pagos, EnCurso(q, y)'
                 PROVE  LecturaFiel(q, y)'
      BY DEF LecturasInv
    <2>1. q # p /\ EnCurso(q, y) /\ peticion'[q] = peticion[q] /\ LecturaFiel(q, y)
      BY <1>1 DEF LecturasInv
    <2>2. pago'[y] = "NINGUNO" <=> pago[y] = "NINGUNO"
      BY <1>5, <2>1 DEF Resuelto
    <2>3. credito[y] >= 1 => credito'[y] >= 1
      BY <1>2, <1>3 DEF TypeOK
    <2> QED BY <2>1, <2>2, <2>3 DEF LecturaFiel, Cobrada
  <1>7. ParejasInv'
    BY <1>1 DEF ParejasInv, LecturasDistintas
  <1> QED BY <1>3, <1>4, <1>6, <1>7

-----------------------------------------------------------------------------
(* The steps in which Bancard moves *)

\* The operation of a charge is opened by its only request.
LEMMA ChargePaso ==
    ASSUME IInv, NEW p \in Peticiones, NEW x \in Pagos, LlamarCharge(p, x)
    PROVE  IInv'
  <1> USE DEF IInv
  <1>1. EnCurso(p, x) /\ peticion[p].op = "charge" /\ peticion[p].sabe = "nada"
    BY DEF LlamarCharge, Espera, EnCurso
  <1>2. PICK r \in RespuestaCharge :
           Aprender(p, r[1]) /\ banco' = [banco EXCEPT ![x] = r[2]]
    BY DEF LlamarCharge
  <1>3. /\ r[1] \in {"00", "rechazo", "3ds", "sinRespuesta"} /\ r[1] \in Respuestas
        /\ r[2] \in EstadosBanco \ {"reversada"}
        /\ r[1] = "00" => r[2] = "aprobada"
    BY DEF RespuestaCharge, Respuestas, EstadosBanco
  <1>4. /\ peticion' \in [Peticiones -> Lecturas]
        /\ peticion'[p].op = "charge" /\ peticion'[p].sabe = r[1]
        /\ \A q \in Peticiones \ {p} : peticion'[q] = peticion[q]
        /\ \A q \in Peticiones, y \in Pagos : EnCurso(q, y)' <=> EnCurso(q, y)
    BY <1>1, <1>2, <1>3, AprenderEfecto
  <1>5. /\ banco' \in [Pagos -> EstadosBanco] /\ banco'[x] = r[2]
        /\ \A y \in Pagos \ {x} : banco'[y] = banco[y]
        /\ UNCHANGED <<tipo, pago, credito, reverso, activa, solapada>>
    BY <1>2, <1>3 DEF LlamarCharge, TypeOK
  <1>6. LecturaFiel(p, x)
    BY <1>1 DEF LecturasInv
  <1>7. TypeOK'
    BY <1>4, <1>5 DEF TypeOK
  <1>8. PagosInv'
    BY <1>1, <1>5, <1>6 DEF PagosInv, PagoFiel, LecturaFiel
  <1>9. ASSUME NEW q \in Peticiones, EnCurso(q, x) PROVE q = p
    <2> SUFFICES ASSUME q # p PROVE FALSE
      OBVIOUS
    <2>1. LecturaFiel(q, x) /\ LecturasDistintas(p, q)
      BY <1>1, <1>9 DEF LecturasInv, ParejasInv
    <2> QED BY <1>1, <1>6, <2>1 DEF LecturaFiel, LecturasDistintas
  <1>10. LecturaFiel(p, x)'
    BY <1>1, <1>3, <1>4, <1>5, <1>6 DEF LecturaFiel, Cobrada
  <1>11. LecturasInv'
    BY <1>1, <1>4, <1>5, <1>9, <1>10, EnCursoRegistro
    DEF LecturasInv, LecturaFiel, Cobrada
  <1>12. ParejasInv'
    BY <1>1, <1>3, <1>4 DEF ParejasInv, LecturasDistintas
  <1> QED BY <1>7, <1>8, <1>11, <1>12

\* A rollback that succeeds moves an approved operation: no other request
\* has seen it reversed, and nothing was taken back yet.
LEMMA RollbackPaso ==
    ASSUME IInv, NEW p \in Peticiones, NEW x \in Pagos, LlamarRollback(p, x)
    PROVE  IInv'
  <1> USE DEF IInv
  <1>1. EnCurso(p, x) /\ peticion[p].op = "anular" /\ peticion[p].sabe = "nada"
    BY DEF LlamarRollback, Espera, EnCurso
  <1>2. CASE Aprender(p, "sinRespuesta") /\ UNCHANGED banco
    BY <1>1, <1>2, AprenderPaso DEF LlamarRollback, Respuestas
  <1>3. CASE /\ banco[x] = "aprobada"
             /\ banco' = [banco EXCEPT ![x] = "reversada"]
             /\ \E r \in {"reversado", "sinRespuesta"} : Aprender(p, r)
    <2>1. PICK r \in {"reversado", "sinRespuesta"} : Aprender(p, r)
      BY <1>3
    <2>2. /\ peticion' \in [Peticiones -> Lecturas]
          /\ peticion'[p].op = "anular" /\ peticion'[p].sabe = r
          /\ \A q \in Peticiones \ {p} : peticion'[q] = peticion[q]
          /\ \A q \in Peticiones, y \in Pagos : EnCurso(q, y)' <=> EnCurso(q, y)
      BY <1>1, <2>1, AprenderEfecto DEF Respuestas
    <2>3. /\ banco' \in [Pagos -> EstadosBanco] /\ banco'[x] = "reversada"
          /\ \A y \in Pagos \ {x} : banco'[y] = banco[y]
          /\ UNCHANGED <<tipo, pago, credito, reverso, activa, solapada>>
      BY <1>3 DEF LlamarRollback, TypeOK, EstadosBanco
    <2>4. TypeOK'
      BY <2>2, <2>3 DEF TypeOK
    <2>5. PagosInv'
      BY <1>3, <2>3 DEF PagosInv, PagoFiel
    <2>6. reverso[x] = 0
      BY <1>3 DEF PagosInv, PagoFiel, TypeOK
    <2>7. ASSUME NEW q \in Peticiones, EnCurso(q, x)
          PROVE  LecturaFiel(q, x)' /\ (q # p => peticion[q].sabe # "reversado")
      <3>1. LecturaFiel(q, x) /\ LecturaFiel(p, x)
        BY <1>1, <2>7 DEF LecturasInv
      <3>2. CASE q = p
        BY <1>1, <2>2, <2>3, <2>6, <3>1, <3>2 DEF LecturaFiel, Cobrada
      <3>3. CASE q # p
        BY <1>3, <2>2, <2>3, <3>1, <3>3 DEF LecturaFiel, Cobrada
      <3> QED BY <3>2, <3>3
    <2>8. ASSUME NEW q \in Peticiones, NEW y \in Pagos, EnCurso(q, y), y # x
          PROVE  LecturaFiel(q, y)'
      <3>1. LecturaFiel(q, y) /\ q # p
        BY <1>1, <2>8, EnCursoRegistro DEF LecturasInv
      <3> QED BY <2>2, <2>3, <2>8, <3>1 DEF LecturaFiel, Cobrada
    <2>9. LecturasInv'
      BY <2>2, <2>7, <2>8 DEF LecturasInv
    <2>10. ParejasInv'
      <3> SUFFICES ASSUME NEW q \in Peticiones, NEW w \in Peticiones, NEW y \in Pagos,
                          q # w, EnCurso(q, y)', EnCurso(w, y)'
                   PROVE  LecturasDistintas(q, w)'
        BY DEF ParejasInv
      <3>1. EnCurso(q, y) /\ EnCurso(w, y) /\ LecturasDistintas(q, w)
        BY <2>2 DEF ParejasInv
      <3>2. CASE y = x
        BY <1>1, <2>2, <2>7, <3>1, <3>2 DEF LecturasDistintas
      <3>3. CASE y # x
        <4>1. q # p /\ w # p
          BY <1>1, <3>1, <3>3, EnCursoRegistro
        <4> QED BY <2>2, <3>1, <4>1 DEF LecturasDistintas
      <3> QED BY <3>2, <3>3
    <2> QED BY <2>4, <2>5, <2>9, <2>10
  <1> QED BY <1>2, <1>3 DEF LlamarRollback

\* The compensating movement uses up the only rollback that was accepted.
LEMMA AnulacionPaso ==
    ASSUME IInv, NEW p \in Peticiones, NEW x \in Pagos, AplicarAnulacion(p, x)
    PROVE  IInv'
  <1> USE DEF IInv
  <1>1. /\ EnCurso(p, x) /\ peticion[p].op = "anular" /\ Responder(p)
        /\ UNCHANGED <<tipo, banco, activa, solapada>>
    BY DEF AplicarAnulacion, Resuelve, EnCurso
  <1>2. LecturaFiel(p, x)
    BY <1>1 DEF LecturasInv
  <1>3. CASE ~RollbackAceptado(peticion[p].sabe) /\ UNCHANGED <<pago, credito, reverso>>
    BY <1>1, <1>3, ResponderPaso
  <1>4. CASE /\ peticion[p].sabe = "reversado"
             /\ reverso' = [reverso EXCEPT ![x] = @ + 1]
             /\ Escribir(x, "CANCELADO")
    <2>1. /\ banco[x] = "reversada" /\ reverso[x] = 0 /\ credito[x] >= 1
          /\ pago[x] # "NINGUNO"
      BY <1>1, <1>2, <1>4 DEF LecturaFiel
    <2>2. /\ pago' \in [Pagos -> EstadosPago] /\ pago'[x] = "CANCELADO"
          /\ \A y \in Pagos \ {x} : pago'[y] = pago[y] /\ reverso'[y] = reverso[y]
          /\ reverso' \in [Pagos -> Nat] /\ reverso'[x] = 1
          /\ UNCHANGED <<tipo, banco, credito, activa, solapada>>
      BY <1>1, <1>4, <2>1 DEF Escribir, TypeOK, EstadosPago
    <2>3. /\ peticion' \in [Peticiones -> Lecturas]
          /\ \A q \in Peticiones, y \in Pagos :
                EnCurso(q, y)' => /\ q # p /\ EnCurso(q, y)
                                  /\ peticion'[q] = peticion[q]
      BY <1>1, ResponderEfecto
    <2>4. TypeOK'
      BY <2>2, <2>3 DEF TypeOK
    <2>5. PagosInv'
      BY <2>1, <2>2 DEF PagosInv, PagoFiel
    <2>6. ASSUME NEW q \in Peticiones, EnCurso(q, x), q # p
          PROVE  peticion[q].sabe # "reversado"
      BY <1>1, <1>4, <2>6 DEF ParejasInv, LecturasDistintas
    <2>7. LecturasInv'
      BY <2>1, <2>2, <2>3, <2>6 DEF LecturasInv, LecturaFiel, Cobrada
    <2>8. ParejasInv'
      BY <2>3 DEF ParejasInv, LecturasDistintas
    <2> QED BY <2>4, <2>5, <2>7, <2>8
  <1> QED BY <1>3, <1>4 DEF AplicarAnulacion, RollbackAceptado

\* The steps without a request: the payment page and the estado of the card.
LEMMA PagoPaso ==
    ASSUME IInv, NEW x \in Pagos, DePago(x)
    PROVE  IInv'
  <1> USE DEF IInv
  <1>1. CASE Iniciar(x)
    <2>1. /\ pago[x] = "NINGUNO" /\ \A q \in Peticiones : ~EnCurso(q, x)
          /\ banco[x] = "sinOperacion"
          /\ pago' \in [Pagos -> EstadosPago] /\ banco' \in [Pagos -> EstadosBanco]
          /\ pago'[x] \in {"PENDIENTE", "ERROR"} /\ banco'[x] \in {"abierta", "sinOperacion"}
          /\ \A y \in Pagos \ {x} : pago'[y] = pago[y] /\ banco'[y] = banco[y]
          /\ UNCHANGED <<tipo, credito, reverso, activa, solapada, peticion>>
      BY <1>1 DEF Iniciar, Nuevo, TypeOK, EstadosPago, EstadosBanco, EstadoFallido
    <2>2. \A q \in Peticiones, y \in Pagos : EnCurso(q, y)' => EnCurso(q, y) /\ y # x
      BY <2>1 DEF EnCurso
    <2>3. TypeOK'
      BY <2>1 DEF TypeOK
    <2>4. PagosInv'
      BY <2>1 DEF PagosInv, PagoFiel
    <2>5. LecturasInv'
      BY <2>1, <2>2 DEF LecturasInv, LecturaFiel, Cobrada
    <2>6. ParejasInv'
      BY <2>1, <2>2 DEF ParejasInv, LecturasDistintas
    <2> QED BY <2>3, <2>4, <2>5, <2>6
  <1>2. CASE PagarEnBancard(x)
    <2>1. /\ banco[x] = "abierta"
          /\ banco' \in [Pagos -> EstadosBanco]
          /\ \A y \in Pagos \ {x} : banco'[y] = banco[y]
          /\ UNCHANGED <<tipo, pago, credito, reverso, activa, solapada, peticion>>
      BY <1>2 DEF PagarEnBancard, TypeOK, EstadosBanco
    <2>2. \A q \in Peticiones, y \in Pagos : EnCurso(q, y)' <=> EnCurso(q, y)
      BY <2>1 DEF EnCurso
    <2>3. TypeOK' /\ PagosInv'
      BY <2>1 DEF TypeOK, PagosInv, PagoFiel
    <2>4. LecturasInv'
      BY <2>1, <2>2 DEF LecturasInv, LecturaFiel, Cobrada
    <2>5. ParejasInv'
      BY <2>1, <2>2 DEF ParejasInv, LecturasDistintas
    <2> QED BY <2>3, <2>4, <2>5
  <1>3. CASE CambiarEstadoTarjeta(x)
    <2>1. /\ activa' \in [Pagos -> BOOLEAN]
          /\ UNCHANGED <<tipo, pago, banco, credito, reverso, solapada, peticion>>
      BY <1>3 DEF CambiarEstadoTarjeta, TypeOK
    <2> QED
      BY <2>1 DEF TypeOK, PagosInv, PagoFiel, LecturasInv, LecturaFiel, Cobrada,
                  ParejasInv, LecturasDistintas, EnCurso
  <1> QED BY <1>1, <1>2, <1>3 DEF DePago, IniciarTarjeta, IniciarAlmuerzo, IniciarCC

-----------------------------------------------------------------------------
(* The invariant *)

LEMMA PeticionPaso ==
    ASSUME IInv, NEW p \in Peticiones, NEW x \in Pagos, DePeticion(p, x)
    PROVE  IInv'
  <1> TypeOK
    BY DEF IInv
  <1>1. CASE EmpezarCharge(p, x)
    BY <1>1, EmpezarPaso DEF EmpezarCharge, Nuevo, Operaciones
  <1>2. CASE LlamarCharge(p, x)
    BY <1>2, ChargePaso
  <1>3. CASE ResolverCharge(p, x)
    <2>1. /\ EnCurso(p, x) /\ Responder(p)
          /\ UNCHANGED <<tipo, banco, reverso, activa, solapada>>
      BY <1>3 DEF ResolverCharge, Resuelve, EnCurso
    <2>2. CASE Escribir(x, EstadoFallido) \/ Escribir(x, "PENDIENTE")
      <3>1. Resuelto(x)
        BY <2>2, EscribirResuelve DEF EstadosPago, EstadoFallido
      <3> QED BY <2>1, <3>1, ResolverPaso
    <2>3. CASE /\ peticion[p].sabe \in {"00", "rechazo"}
               /\ ProcesarResultado(x, peticion[p].sabe)
      <3>1. Resuelto(x)
        BY <2>3, ProcesarResuelve DEF Respuestas
      <3> QED BY <2>1, <3>1, ResolverPaso
    <2> QED BY <1>3, <2>2, <2>3 DEF ResolverCharge
  <1>4. CASE LeerWebhook(p, x)
    BY <1>4, EmpezarPaso DEF LeerWebhook, PorResolver, Operaciones, Cobrada
  <1>5. CASE LeerRetorno(p, x)
    BY <1>5, EmpezarPaso DEF LeerRetorno, Operaciones
  <1>6. CASE LeerPendiente(p, x)
    <2>1. PICK op \in {"reconsulta", "cierre"} : Empezar(p, op, x, "nada")
      BY <1>6 DEF LeerPendiente
    <2>2. pago[x] = "PENDIENTE"
      BY <1>6 DEF LeerPendiente, PorResolver
    <2> QED BY <2>1, <2>2, EmpezarPaso DEF Operaciones
  <1>7. CASE LeerReintentar(p, x)
    BY <1>7, EmpezarPaso DEF LeerReintentar, Operaciones
  <1>8. CASE LeerAnular(p, x)
    <2>1. credito[x] >= 1
      BY <1>8 DEF LeerAnular, IInv, PagosInv, PagoFiel
    <2> QED BY <1>8, <2>1, EmpezarPaso DEF LeerAnular, Operaciones
  <1>9. CASE AplicarWebhook(p, x) \/ AplicarRetorno(p, x)
    <2>1. /\ EnCurso(p, x) /\ Responder(p)
          /\ UNCHANGED <<tipo, banco, reverso, activa, solapada>>
          /\ ProcesarResultado(x, peticion[p].sabe)
      BY <1>9 DEF AplicarWebhook, AplicarRetorno, Resuelve, EnCurso
    <2>2. peticion[p].sabe \in Respuestas
      BY <2>1, EnCursoRegistro DEF Registro
    <2>3. Resuelto(x)
      BY <2>1, <2>2, ProcesarResuelve
    <2> QED BY <2>1, <2>3, ResolverPaso
  <1>10. CASE AplicarReconsulta(p, x)
    <2>1. /\ EnCurso(p, x) /\ Responder(p) /\ peticion[p].op \in {"reconsulta", "cierre"}
          /\ UNCHANGED <<tipo, banco, reverso, activa, solapada>>
      BY <1>10 DEF AplicarReconsulta, Resuelve, EnCurso
    <2>2. peticion[p].sabe \in Respuestas
      BY <2>1, EnCursoRegistro DEF Registro
    <2>3. LecturaFiel(p, x) /\ PagoFiel(x)
      BY <2>1 DEF IInv, LecturasInv, PagosInv
    <2>4. CASE ProcesarResultado(x, peticion[p].sabe)
      <3>1. Resuelto(x)
        BY <2>2, <2>4, ProcesarResuelve
      <3> QED BY <2>1, <3>1, ResolverPaso
    <2>5. CASE Escribir(x, IF peticion[p].op = "cierre" THEN "RECHAZADO" ELSE pago[x])
      <3> DEFINE estado == IF peticion[p].op = "cierre" THEN "RECHAZADO" ELSE pago[x]
      <3>1. estado \in EstadosPago \ {"NINGUNO"}
        BY <2>1, <2>3 DEF TypeOK, EstadosPago, LecturaFiel
      <3>2. estado = "APROBADO" => credito[x] >= 1
        BY <2>3 DEF PagoFiel
      <3> HIDE DEF estado
      <3>3. Resuelto(x)
        <4>1. Escribir(x, estado)
          BY <2>5 DEF estado
        <4> QED BY <3>1, <3>2, <4>1, EscribirResuelve
      <3> QED BY <2>1, <3>3, ResolverPaso
    <2> QED BY <1>10, <2>4, <2>5 DEF AplicarReconsulta
  <1>11. CASE AplicarReintento(p, x)
    <2>1. /\ EnCurso(p, x) /\ Responder(p)
          /\ UNCHANGED <<tipo, banco, reverso, activa, solapada>>
      BY <1>11 DEF AplicarReintento, Resuelve, EnCurso
    <2>2. CASE peticion[p].sabe = "existe" /\ Escribir(x, "APROBADO")
      <3>1. credito[x] >= 1
        BY <2>1, <2>2 DEF IInv, LecturasInv, LecturaFiel
      <3>2. Resuelto(x)
        BY <2>2, <3>1, EscribirResuelve DEF EstadosPago
      <3> QED BY <2>1, <3>2, ResolverPaso
    <2>3. CASE Acreditar(x)
      BY <2>1, <2>3, AcreditarResuelve, ResolverPaso
    <2> QED BY <1>11, <2>2, <2>3 DEF AplicarReintento
  <1>12. CASE Consultar(p, x)
    <2>1. EnCurso(p, x) /\ UNCHANGED <<tipo, pago, banco, credito, reverso, activa, solapada>>
      BY <1>12 DEF Consultar, Espera, EnCurso
    <2>2. PICK r \in RespuestaConsulta(x) : Aprender(p, r)
      BY <1>12 DEF Consultar
    <2>3. /\ r \in Respuestas \ {"nada", "reversado", "existe"}
          /\ r = "00" => Cobrada(x)
      BY DEF RespuestaConsulta, Respuestas, Cobrada
    <2> QED BY <2>1, <2>2, <2>3, AprenderPaso
  <1>13. CASE BuscarCredito(p, x)
    <2>1. EnCurso(p, x) /\ UNCHANGED <<tipo, pago, banco, credito, reverso, activa, solapada>>
      BY <1>13 DEF BuscarCredito, Espera, EnCurso
    <2> DEFINE r == IF credito[x] > 0 THEN "existe" ELSE "noExiste"
    <2>2. /\ r \in Respuestas \ {"nada", "reversado", "00"}
          /\ r = "existe" => credito[x] >= 1
      BY DEF Respuestas, TypeOK
    <2>3. Aprender(p, r)
      BY <1>13 DEF BuscarCredito
    <2> HIDE DEF r
    <2> QED BY <2>1, <2>2, <2>3, AprenderPaso
  <1>14. CASE LlamarRollback(p, x)
    BY <1>14, RollbackPaso
  <1>15. CASE AplicarAnulacion(p, x)
    BY <1>15, AnulacionPaso
  <1> QED
    BY <1>1, <1>2, <1>3, <1>4, <1>5, <1>6, <1>7, <1>8, <1>9, <1>10, <1>11,
       <1>12, <1>13, <1>14, <1>15
    DEF DePeticion, PagarConTarjeta, PagarAlmuerzoConTarjeta, PagarCCConTarjeta

LEMMA IInicial == Init => IInv
  BY BancardAssumption
  DEF Init, IInv, TypeOK, PagosInv, PagoFiel, LecturasInv, ParejasInv, EnCurso,
         EstadosPago, EstadosBanco, Lecturas

LEMMA IPaso == IInv /\ [Next]_vars => IInv'
  <1> SUFFICES ASSUME IInv, [Next]_vars PROVE IInv'
    OBVIOUS
  <1>1. ASSUME NEW p \in Peticiones, Caida(p) PROVE IInv'
    BY <1>1, ResponderPaso DEF Caida
  <1>2. CASE UNCHANGED vars
    <2>1. TypeOK' /\ PagosInv'
      BY <1>2 DEF vars, IInv, TypeOK, PagosInv, PagoFiel
    <2>2. LecturasInv'
      BY <1>2 DEF vars, IInv, LecturasInv, LecturaFiel, Cobrada, EnCurso
    <2>3. ParejasInv'
      BY <1>2 DEF vars, IInv, ParejasInv, LecturasDistintas, EnCurso
    <2> QED BY <2>1, <2>2, <2>3 DEF IInv
  <1> QED BY <1>1, <1>2, PagoPaso, PeticionPaso DEF Next

LEMMA Invariante == Spec => []IInv
  BY IInicial, IPaso, PTL DEF Spec

\* Every variable keeps its type, whatever the constants are.
THEOREM Tipos == Spec => []TypeOK
  <1>1. IInv => TypeOK
    BY DEF IInv
  <1> QED BY <1>1, Invariante, PTL

\* A payment is APROBADO only with a credit behind it.
THEOREM AprobadoSeguro == Spec => []AprobadoTieneCredito
  <1>1. IInv => AprobadoTieneCredito
    BY DEF IInv, PagosInv, PagoFiel, AprobadoTieneCredito
  <1> QED BY <1>1, Invariante, PTL

\* What is taken back was given back by Bancard, once, and had been credited.
THEOREM ReversoSeguro == Spec => []ReversoRespaldado
  <1>1. IInv => ReversoRespaldado
    BY DEF IInv, PagosInv, PagoFiel, ReversoRespaldado
  <1> QED BY <1>1, Invariante, PTL

-----------------------------------------------------------------------------
(* Requests that do not overlap *)

\* A step that is not about y, except that a request for y may be answered,
\* leaves what holds of y.
LEMMA AjenoPaso ==
    ASSUME SecuencialInv, NEW y \in Pagos, solapada'[y] = solapada[y],
           pago'[y] = pago[y], banco'[y] = banco[y], credito'[y] = credito[y],
           \A q \in Peticiones :
               EnCurso(q, y)' => EnCurso(q, y) /\ peticion'[q] = peticion[q]
    PROVE  ~solapada'[y] => Secuencial(y)'
  BY DEF SecuencialInv, Secuencial, Cuenta, Turno

\* A request that begins while no other is in progress reads the state it
\* will act upon.
LEMMA EmpezarSecuencial ==
    ASSUME IInv, SecuencialInv, NEW p \in Peticiones, NEW x \in Pagos,
           NEW op \in Operaciones, NEW sabe \in Respuestas,
           Empezar(p, op, x, sabe),
           op \in {"webhook", "reconsulta", "cierre"} => pago[x] = "PENDIENTE",
           op = "retorno" => \/ pago[x] = "PENDIENTE"
                             \/ pago[x] = "CANCELADO" /\ sabe # "00",
           op = "reintento" => pago[x] = "ERROR",
           op = "anular" => pago[x] = "APROBADO"
    PROVE  SecuencialInv'
  <1>1. /\ peticion'[p].op = op /\ peticion'[p].sabe = sabe
        /\ \A q \in Peticiones \ {p} : peticion'[q] = peticion[q]
        /\ \A y \in Pagos : EnCurso(p, y)' <=> y = x
        /\ \A q \in Peticiones \ {p}, y \in Pagos : EnCurso(q, y)' <=> EnCurso(q, y)
        /\ \A y \in Pagos \ {x} : solapada'[y] = solapada[y]
        /\ ~solapada'[x] => /\ ~solapada[x]
                            /\ \A q \in Peticiones \ {p} : ~EnCurso(q, x)
        /\ UNCHANGED <<tipo, pago, banco, credito, reverso, activa>>
    BY EmpezarEfecto DEF IInv
  <1>2. ASSUME ~solapada'[x] PROVE Secuencial(x)'
    <2>1. Cuenta(x)'
      BY <1>1, <1>2 DEF SecuencialInv, Secuencial, Cuenta
    <2>2. \A q \in Peticiones : EnCurso(q, x)' => q = p
      BY <1>1, <1>2
    <2>3. Turno(p, x)'
      BY <1>1 DEF Turno
    <2> QED BY <2>1, <2>2, <2>3 DEF Secuencial
  <1>3. ASSUME NEW y \in Pagos \ {x} PROVE ~solapada'[y] => Secuencial(y)'
    BY <1>1, AjenoPaso
  <1> QED BY <1>2, <1>3 DEF SecuencialInv

\* An answer the request gets changes neither its turn nor the payment.
LEMMA AprenderSecuencial ==
    ASSUME IInv, SecuencialInv, NEW p \in Peticiones, NEW x \in Pagos,
           EnCurso(p, x), NEW sabe \in Respuestas, Aprender(p, sabe),
           sabe = "00" => banco[x] # "reversada",
           UNCHANGED <<tipo, pago, banco, credito, reverso, activa, solapada>>
    PROVE  SecuencialInv'
  <1>1. /\ peticion'[p].op = peticion[p].op /\ peticion'[p].sabe = sabe
        /\ \A q \in Peticiones \ {p} : peticion'[q] = peticion[q]
        /\ \A q \in Peticiones, y \in Pagos : EnCurso(q, y)' <=> EnCurso(q, y)
    BY AprenderEfecto DEF IInv
  <1>2. ASSUME ~solapada'[x] PROVE Secuencial(x)'
    <2>1. Secuencial(x)
      BY <1>2 DEF SecuencialInv
    <2>2. Turno(p, x)'
      BY <1>1, <2>1 DEF Secuencial, Cuenta, Turno
    <2> QED BY <1>1, <2>1, <2>2 DEF Secuencial, Cuenta
  <1>3. ASSUME NEW y \in Pagos \ {x} PROVE ~solapada'[y] => Secuencial(y)'
    <2>1. ~EnCurso(p, y)
      BY <1>3, EnCursoRegistro DEF IInv
    <2> QED BY <1>1, <2>1, AjenoPaso
  <1> QED BY <1>2, <1>3 DEF SecuencialInv

\* The request for x is answered; it was the only one, so what it wrote is
\* all there is to say of x.
LEMMA ResponderSecuencial ==
    ASSUME IInv, SecuencialInv, NEW p \in Peticiones, NEW x \in Pagos,
           EnCurso(p, x), Responder(p), UNCHANGED <<banco, solapada>>,
           \A y \in Pagos \ {x} : pago'[y] = pago[y] /\ credito'[y] = credito[y],
           ~solapada[x] => Cuenta(x)'
    PROVE  SecuencialInv'
  <1>1. \A q \in Peticiones, y \in Pagos :
            EnCurso(q, y)' => /\ q # p /\ EnCurso(q, y)
                              /\ peticion'[q] = peticion[q]
    BY ResponderEfecto DEF IInv
  <1>2. ASSUME ~solapada'[x] PROVE Secuencial(x)'
    <2>1. \A q \in Peticiones : ~EnCurso(q, x)'
      BY <1>1, <1>2 DEF SecuencialInv, Secuencial
    <2> QED BY <1>2, <2>1 DEF Secuencial
  <1>3. ASSUME NEW y \in Pagos \ {x} PROVE ~solapada'[y] => Secuencial(y)'
    BY <1>1, AjenoPaso
  <1> QED BY <1>2, <1>3 DEF SecuencialInv

\* Bancard moves the operation of x, which the code asked for or not, while
\* the payment stays as it was.
LEMMA BancoSecuencial ==
    ASSUME SecuencialInv, NEW x \in Pagos,
           \A y \in Pagos \ {x} : banco'[y] = banco[y],
           UNCHANGED <<pago, credito, solapada>>,
           \A q \in Peticiones, y \in Pagos : EnCurso(q, y)' <=> EnCurso(q, y),
           \A q \in Peticiones : peticion'[q].op = peticion[q].op,
           \A q \in Peticiones :
               peticion'[q].op = "retorno" => peticion'[q] = peticion[q],
           ~solapada[x] => Cuenta(x)'
    PROVE  SecuencialInv'
  <1>1. ASSUME NEW y \in Pagos, ~solapada[y], Secuencial(y) PROVE Secuencial(y)'
    <2>1. Cuenta(y)'
      <3>1. CASE y = x
        BY <1>1, <3>1
      <3>2. CASE y # x
        BY <1>1, <3>2 DEF Secuencial, Cuenta
      <3> QED BY <3>1, <3>2
    <2>2. ASSUME NEW q \in Peticiones, EnCurso(q, y)' PROVE Turno(q, y)'
      BY <1>1, <2>2 DEF Secuencial, Turno
    <2> QED BY <1>1, <2>1, <2>2 DEF Secuencial
  <1> QED BY <1>1 DEF SecuencialInv
\* The four ways of applying a result: only "00" credits, and ERROR without
\* a "00" is left to a charge.
Resultado(p, x) ==
    \/ ResolverCharge(p, x) \/ AplicarWebhook(p, x)
    \/ AplicarRetorno(p, x) \/ AplicarReconsulta(p, x)

LEMMA ResultadoEfecto ==
    ASSUME IInv, NEW p \in Peticiones, NEW x \in Pagos, Resultado(p, x)
    PROVE  /\ EnCurso(p, x) /\ Responder(p)
           /\ peticion[p].op \in {"charge", "webhook", "retorno", "reconsulta", "cierre"}
           /\ UNCHANGED <<banco, solapada>>
           /\ \A y \in Pagos \ {x} : pago'[y] = pago[y] /\ credito'[y] = credito[y]
           /\ \/ /\ peticion[p].sabe = "00" /\ pago'[x] = "APROBADO"
                 /\ credito'[x] = credito[x] + 1
              \/ /\ credito'[x] = credito[x]
                 /\ \/ peticion[p].sabe = "00" /\ pago'[x] = "ERROR"
                    \/ /\ peticion[p].op = "charge"
                       /\ pago'[x] \in {"ERROR", "PENDIENTE"}
                    \/ pago'[x] = "RECHAZADO"
                    \/ peticion[p].op = "reconsulta" /\ pago'[x] = pago[x]
  <1> TypeOK
    BY DEF IInv
  <1>1. /\ EnCurso(p, x) /\ Responder(p)
        /\ peticion[p].op \in {"charge", "webhook", "retorno", "reconsulta", "cierre"}
        /\ UNCHANGED <<banco, solapada>>
    BY DEF Resultado, ResolverCharge, AplicarWebhook, AplicarRetorno,
           AplicarReconsulta, Resuelve, EnCurso
  <1>2. peticion[p].sabe \in Respuestas
    BY <1>1, EnCursoRegistro DEF Registro
  <1>3. CASE ProcesarResultado(x, peticion[p].sabe)
    <2>1. \A y \in Pagos \ {x} : pago'[y] = pago[y] /\ credito'[y] = credito[y]
      BY <1>2, <1>3, ProcesarResuelve DEF Resuelto
    <2> QED BY <1>1, <1>2, <1>3, <2>1, ProcesarResuelve
  <1>4. CASE ResolverCharge(p, x) /\ (\/ Escribir(x, EstadoFallido)
                                     \/ Escribir(x, "PENDIENTE"))
    <2>1. peticion[p].op = "charge"
      BY <1>4 DEF ResolverCharge, Resuelve
    <2>2. /\ pago'[x] \in {"ERROR", "PENDIENTE"} /\ credito' = credito
          /\ \A y \in Pagos \ {x} : pago'[y] = pago[y]
      BY <1>4 DEF Escribir, EstadoFallido, TypeOK
    <2> QED BY <1>1, <2>1, <2>2
  <1>5. CASE Escribir(x, IF peticion[p].op = "cierre" THEN "RECHAZADO" ELSE pago[x])
             /\ peticion[p].op \in {"reconsulta", "cierre"}
    <2>1. /\ pago'[x] = IF peticion[p].op = "cierre" THEN "RECHAZADO" ELSE pago[x]
          /\ credito' = credito
          /\ \A y \in Pagos \ {x} : pago'[y] = pago[y]
      BY <1>5 DEF Escribir, TypeOK
    <2> QED BY <1>1, <1>5, <2>1
  <1> QED
    BY <1>3, <1>4, <1>5
    DEF Resultado, ResolverCharge, AplicarWebhook, AplicarRetorno,
        AplicarReconsulta, Resuelve

LEMMA ResultadoSecuencial ==
    ASSUME IInv, SecuencialInv, NEW p \in Peticiones, NEW x \in Pagos, Resultado(p, x)
    PROVE  SecuencialInv'
  <1>1. ASSUME ~solapada[x] PROVE Cuenta(x)'
    <2>1. Secuencial(x) /\ Turno(p, x) /\ LecturaFiel(p, x)
      BY <1>1, ResultadoEfecto DEF SecuencialInv, Secuencial, IInv, LecturasInv
    <2>2. credito[x] \in Nat
      BY DEF IInv, TypeOK
    <2>3. peticion[p].sabe = "00" => pago[x] \in {"NINGUNO", "PENDIENTE"}
      BY <2>1, ResultadoEfecto DEF Turno, LecturaFiel
    <2>4. peticion[p].op = "charge" => pago[x] = "NINGUNO"
      BY <2>1 DEF LecturaFiel
    <2> QED BY <2>1, <2>2, <2>3, <2>4, ResultadoEfecto DEF Secuencial, Cuenta, Turno
  <1> QED BY <1>1, ResultadoEfecto, ResponderSecuencial

LEMMA AdministrarSecuencial ==
    ASSUME IInv, SecuencialInv, NEW p \in Peticiones, NEW x \in Pagos,
           AplicarReintento(p, x) \/ AplicarAnulacion(p, x)
    PROVE  SecuencialInv'
  <1> TypeOK
    BY DEF IInv
  <1>1. CASE AplicarReintento(p, x)
    <2>1. /\ EnCurso(p, x) /\ Responder(p) /\ peticion[p].op = "reintento"
          /\ UNCHANGED <<banco, solapada>>
      BY <1>1 DEF AplicarReintento, Resuelve, EnCurso
    <2>2. CASE Escribir(x, "APROBADO")
      <3>1. /\ pago'[x] = "APROBADO" /\ credito' = credito
            /\ \A y \in Pagos \ {x} : pago'[y] = pago[y]
        BY <2>2 DEF Escribir, TypeOK
      <3>2. ~solapada[x] => Cuenta(x)'
        BY <2>1, <3>1 DEF SecuencialInv, Secuencial, Cuenta
      <3> QED BY <2>1, <3>1, <3>2, ResponderSecuencial
    <2>3. CASE Acreditar(x)
      <3>1. /\ \/ pago'[x] = "APROBADO" /\ credito'[x] = credito[x] + 1
               \/ pago'[x] = "ERROR" /\ credito'[x] = credito[x]
            /\ \A y \in Pagos \ {x} : pago'[y] = pago[y] /\ credito'[y] = credito[y]
        BY <2>3, AcreditarResuelve DEF Resuelto
      <3>2. ~solapada[x] => credito[x] = 0
        BY <2>1 DEF SecuencialInv, Secuencial, Cuenta, Turno
      <3>3. ~solapada[x] => Cuenta(x)'
        BY <2>1, <3>1, <3>2 DEF Cuenta
      <3> QED BY <2>1, <3>1, <3>3, ResponderSecuencial
    <2> QED BY <1>1, <2>2, <2>3 DEF AplicarReintento
  <1>2. CASE AplicarAnulacion(p, x)
    <2>1. /\ EnCurso(p, x) /\ Responder(p) /\ UNCHANGED <<banco, solapada>>
      BY <1>2 DEF AplicarAnulacion, Resuelve, EnCurso
    <2>2. CASE UNCHANGED <<pago, credito, reverso>>
      <3>1. ~solapada[x] => Cuenta(x)'
        BY <2>1, <2>2 DEF SecuencialInv, Secuencial, Cuenta
      <3> QED BY <2>1, <2>2, <3>1, ResponderSecuencial
    <2>3. CASE peticion[p].sabe = "reversado" /\ Escribir(x, "CANCELADO")
      <3>1. /\ pago'[x] = "CANCELADO" /\ credito' = credito
            /\ \A y \in Pagos \ {x} : pago'[y] = pago[y]
        BY <2>3 DEF Escribir, TypeOK
      <3>2. banco[x] = "reversada"
        BY <2>1, <2>3 DEF IInv, LecturasInv, LecturaFiel
      <3>3. ~solapada[x] => Cuenta(x)'
        BY <2>1, <3>1, <3>2 DEF SecuencialInv, Secuencial, Cuenta
      <3> QED BY <2>1, <3>1, <3>3, ResponderSecuencial
    <2> QED BY <1>2, <2>2, <2>3 DEF AplicarAnulacion, RollbackAceptado
  <1> QED BY <1>1, <1>2
LEMMA MueveBancoSecuencial ==
    ASSUME IInv, SecuencialInv, NEW p \in Peticiones, NEW x \in Pagos,
           LlamarCharge(p, x) \/ LlamarRollback(p, x)
    PROVE  SecuencialInv'
  <1>1. CASE LlamarCharge(p, x)
    <2>1. EnCurso(p, x) /\ peticion[p].op = "charge"
      BY <1>1 DEF LlamarCharge, Espera, EnCurso
    <2>2. PICK r \in RespuestaCharge :
              Aprender(p, r[1]) /\ banco' = [banco EXCEPT ![x] = r[2]]
      BY <1>1 DEF LlamarCharge
    <2>3. r[1] \in Respuestas /\ r[2] # "reversada"
      BY DEF RespuestaCharge, Respuestas
    <2>4. /\ peticion'[p].op = "charge"
          /\ \A q \in Peticiones \ {p} : peticion'[q] = peticion[q]
          /\ \A q \in Peticiones, y \in Pagos : EnCurso(q, y)' <=> EnCurso(q, y)
      BY <2>1, <2>2, <2>3, AprenderEfecto DEF IInv
    <2>5. /\ banco'[x] # "reversada" /\ \A y \in Pagos \ {x} : banco'[y] = banco[y]
          /\ UNCHANGED <<pago, credito, solapada>>
      BY <1>1, <2>2, <2>3 DEF LlamarCharge, IInv, TypeOK
    <2>6. pago[x] = "NINGUNO"
      BY <2>1 DEF IInv, LecturasInv, LecturaFiel
    <2>7. ~solapada[x] => Cuenta(x)'
      BY <2>5, <2>6 DEF SecuencialInv, Secuencial, Cuenta
    <2> QED BY <2>1, <2>4, <2>5, <2>7, BancoSecuencial
  <1>2. CASE LlamarRollback(p, x)
    <2>1. EnCurso(p, x) /\ peticion[p].op = "anular"
      BY <1>2 DEF LlamarRollback, Espera, EnCurso
    <2>2. PICK r \in {"reversado", "sinRespuesta"} : Aprender(p, r)
      BY <1>2 DEF LlamarRollback
    <2>3. /\ peticion'[p].op = "anular"
          /\ \A q \in Peticiones \ {p} : peticion'[q] = peticion[q]
          /\ \A q \in Peticiones, y \in Pagos : EnCurso(q, y)' <=> EnCurso(q, y)
      BY <2>1, <2>2, AprenderEfecto DEF IInv, Respuestas
    <2>4. /\ \A y \in Pagos \ {x} : banco'[y] = banco[y]
          /\ UNCHANGED <<pago, credito, solapada>>
      BY <1>2 DEF LlamarRollback, IInv, TypeOK
    <2>5. ~solapada[x] => Cuenta(x)'
      BY <2>1, <2>4 DEF SecuencialInv, Secuencial, Cuenta, Turno
    <2> QED BY <2>1, <2>3, <2>4, <2>5, BancoSecuencial
  <1> QED BY <1>1, <1>2

LEMMA PagoSecuencial ==
    ASSUME IInv, SecuencialInv, NEW x \in Pagos, DePago(x)
    PROVE  SecuencialInv'
  <1>1. CASE Iniciar(x)
    <2>1. /\ pago[x] = "NINGUNO" /\ \A q \in Peticiones : ~EnCurso(q, x)
          /\ pago'[x] \in {"PENDIENTE", "ERROR"} /\ banco'[x] # "reversada"
          /\ \A y \in Pagos \ {x} : pago'[y] = pago[y] /\ banco'[y] = banco[y]
          /\ UNCHANGED <<credito, solapada, peticion>>
      BY <1>1 DEF Iniciar, Nuevo, IInv, TypeOK, EstadoFallido
    <2>2. \A q \in Peticiones, y \in Pagos : EnCurso(q, y)' <=> EnCurso(q, y)
      BY <2>1 DEF EnCurso
    <2>3. ~solapada[x] => Secuencial(x)'
      BY <2>1, <2>2 DEF SecuencialInv, Secuencial, Cuenta
    <2>4. ASSUME NEW y \in Pagos \ {x} PROVE ~solapada'[y] => Secuencial(y)'
      BY <2>1, <2>2, AjenoPaso
    <2> QED BY <2>1, <2>3, <2>4 DEF SecuencialInv
  <1>2. CASE PagarEnBancard(x)
    <2>1. /\ banco[x] = "abierta" /\ banco'[x] # "reversada"
          /\ \A y \in Pagos \ {x} : banco'[y] = banco[y]
          /\ UNCHANGED <<pago, credito, solapada, peticion>>
      BY <1>2 DEF PagarEnBancard, IInv, TypeOK
    <2>2. \A q \in Peticiones, y \in Pagos : EnCurso(q, y)' <=> EnCurso(q, y)
      BY <2>1 DEF EnCurso
    <2>3. ~solapada[x] => Cuenta(x)'
      BY <2>1 DEF SecuencialInv, Secuencial, Cuenta
    <2> QED BY <2>1, <2>2, <2>3, BancoSecuencial
  <1>3. CASE CambiarEstadoTarjeta(x)
    BY <1>3 DEF CambiarEstadoTarjeta, SecuencialInv, Secuencial, Cuenta, Turno, EnCurso
  <1> QED BY <1>1, <1>2, <1>3 DEF DePago, IniciarTarjeta, IniciarAlmuerzo, IniciarCC

LEMMA PeticionSecuencial ==
    ASSUME IInv, SecuencialInv, NEW p \in Peticiones, NEW x \in Pagos, DePeticion(p, x)
    PROVE  SecuencialInv'
  <1>1. CASE EmpezarCharge(p, x)
    BY <1>1, EmpezarSecuencial DEF EmpezarCharge, Operaciones, Respuestas
  <1>2. CASE LeerWebhook(p, x)
    <2>1. PICK sabe \in {"00", "rechazo"} : Empezar(p, "webhook", x, sabe)
      BY <1>2 DEF LeerWebhook
    <2>2. pago[x] = "PENDIENTE"
      BY <1>2 DEF LeerWebhook, PorResolver
    <2> QED BY <2>1, <2>2, EmpezarSecuencial DEF Operaciones, Respuestas
  <1>3. CASE LeerRetorno(p, x)
    BY <1>3, EmpezarSecuencial DEF LeerRetorno, Operaciones, Respuestas
  <1>4. CASE LeerPendiente(p, x)
    <2>1. PICK op \in {"reconsulta", "cierre"} : Empezar(p, op, x, "nada")
      BY <1>4 DEF LeerPendiente
    <2>2. pago[x] = "PENDIENTE"
      BY <1>4 DEF LeerPendiente, PorResolver
    <2> QED BY <2>1, <2>2, EmpezarSecuencial DEF Operaciones, Respuestas
  <1>5. CASE LeerReintentar(p, x)
    BY <1>5, EmpezarSecuencial DEF LeerReintentar, Operaciones, Respuestas
  <1>6. CASE LeerAnular(p, x)
    BY <1>6, EmpezarSecuencial DEF LeerAnular, Operaciones, Respuestas
  <1>7. CASE Consultar(p, x)
    <2>1. EnCurso(p, x) /\ UNCHANGED <<tipo, pago, banco, credito, reverso, activa, solapada>>
      BY <1>7 DEF Consultar, Espera, EnCurso
    <2>2. PICK r \in RespuestaConsulta(x) : Aprender(p, r)
      BY <1>7 DEF Consultar
    <2>3. r \in Respuestas /\ (r = "00" => banco[x] # "reversada")
      BY DEF RespuestaConsulta, Respuestas
    <2> QED BY <2>1, <2>2, <2>3, AprenderSecuencial
  <1>8. CASE BuscarCredito(p, x)
    <2>1. EnCurso(p, x) /\ UNCHANGED <<tipo, pago, banco, credito, reverso, activa, solapada>>
      BY <1>8 DEF BuscarCredito, Espera, EnCurso
    <2>2. PICK r \in {"existe", "noExiste"} : Aprender(p, r)
      BY <1>8 DEF BuscarCredito
    <2> QED BY <2>1, <2>2, AprenderSecuencial DEF Respuestas
  <1> QED
    BY <1>1, <1>2, <1>3, <1>4, <1>5, <1>6, <1>7, <1>8, ResultadoSecuencial,
       AdministrarSecuencial, MueveBancoSecuencial
    DEF DePeticion, Resultado, PagarConTarjeta, PagarAlmuerzoConTarjeta, PagarCCConTarjeta

LEMMA SecuencialPaso == IInv /\ SecuencialInv /\ [Next]_vars => SecuencialInv'
  <1> SUFFICES ASSUME IInv, SecuencialInv, [Next]_vars PROVE SecuencialInv'
    OBVIOUS
  <1>1. ASSUME NEW p \in Peticiones, Caida(p) PROVE SecuencialInv'
    <2>1. PICK x \in Pagos : EnCurso(p, x)
      BY <1>1 DEF Caida, IInv, TypeOK, Lecturas, EnCurso
    <2>2. ~solapada[x] => Cuenta(x)'
      BY <1>1 DEF Caida, SecuencialInv, Secuencial, Cuenta
    <2> QED BY <1>1, <2>1, <2>2, ResponderSecuencial DEF Caida
  <1>2. CASE UNCHANGED vars
    BY <1>2 DEF vars, SecuencialInv, Secuencial, Cuenta, Turno, EnCurso
  <1> QED BY <1>1, <1>2, PagoSecuencial, PeticionSecuencial DEF Next

LEMMA InvarianteSecuencial == Spec => [](IInv /\ SecuencialInv)
  <1>1. Init => SecuencialInv
    BY DEF Init, SecuencialInv, Secuencial, Cuenta, EnCurso
  <1> QED BY <1>1, IInicial, IPaso, SecuencialPaso, PTL DEF Spec

\* Requests that do not overlap never credit a payment twice.
THEOREM SinSolape == Spec => []SinSolapeUnCredito
  <1>1. SecuencialInv => SinSolapeUnCredito
    BY DEF SecuencialInv, Secuencial, Cuenta, SinSolapeUnCredito
  <1> QED BY <1>1, InvarianteSecuencial, PTL

\* A step that credits x applies a result or retries.
LEMMA QuienAcredita ==
    ASSUME IInv, NEW x \in Pagos, Next, credito'[x] > credito[x]
    PROVE  \E p \in Peticiones :
              \/ AplicarReintento(p, x)
              \/ Resultado(p, x) /\ peticion[p].sabe = "00"
  <1> TypeOK
    BY DEF IInv
  <1>1. credito[x] \in Nat /\ ~(credito[x] > credito[x])
    BY DEF TypeOK
  <1>2. \E p \in Peticiones, y \in Pagos : Resultado(p, y) \/ AplicarReintento(p, y)
    <2>1. credito' # credito
      BY <1>1
    <2>2. ASSUME NEW y \in Pagos, DePago(y) PROVE FALSE
      BY <2>1, <2>2 DEF DePago, IniciarTarjeta, IniciarAlmuerzo, IniciarCC, Iniciar,
                           PagarEnBancard, CambiarEstadoTarjeta
    <2>3. ASSUME NEW p \in Peticiones, Caida(p) PROVE FALSE
      BY <2>1, <2>3 DEF Caida
    <2>4. ASSUME NEW p \in Peticiones, NEW y \in Pagos, DePeticion(p, y)
          PROVE  Resultado(p, y) \/ AplicarReintento(p, y)
      BY <2>1, <2>4
      DEF DePeticion, Resultado, PagarConTarjeta, PagarAlmuerzoConTarjeta,
          PagarCCConTarjeta,
          EmpezarCharge, LlamarCharge, LeerWebhook,
          LeerRetorno, LeerPendiente, Consultar, LeerReintentar, BuscarCredito,
          LeerAnular, LlamarRollback, AplicarAnulacion, Empezar, Escribir
    <2> QED BY <2>2, <2>3, <2>4 DEF Next
  <1>3. PICK p \in Peticiones, y \in Pagos : Resultado(p, y) \/ AplicarReintento(p, y)
    BY <1>2
  <1>4. CASE Resultado(p, y)
    <2>1. y = x /\ peticion[p].sabe = "00"
      BY <1>1, <1>4, ResultadoEfecto
    <2> QED BY <1>4, <2>1
  <1>5. CASE AplicarReintento(p, y)
    <2>1. \A z \in Pagos \ {y} : credito'[z] = credito[z]
      <3>1. CASE Escribir(y, "APROBADO")
        BY <3>1 DEF Escribir
      <3>2. CASE Acreditar(y)
        BY <3>2, AcreditarResuelve DEF Resuelto
      <3> QED BY <1>5, <3>1, <3>2 DEF AplicarReintento
    <2> QED BY <1>1, <1>5, <2>1
  <1> QED BY <1>3, <1>4, <1>5

\* Every credit but the administrator's retry has a charge at Bancard.
THEOREM CreditoCobrado == Spec => CreditoConCobro
  <1> DEFINE ConCobro(x) ==
          \/ \E p \in Peticiones : AplicarReintento(p, x)
          \/ banco[x] = "aprobada"
          \/ banco[x] = "reversada" /\ solapada[x]
  <1>1. ASSUME IInv, SecuencialInv, Next, NEW x \in Pagos, credito'[x] > credito[x]
        PROVE  ConCobro(x)
    <2>1. PICK p \in Peticiones : \/ AplicarReintento(p, x)
                                  \/ Resultado(p, x) /\ peticion[p].sabe = "00"
      BY <1>1, QuienAcredita
    <2>2. CASE Resultado(p, x) /\ peticion[p].sabe = "00"
      <3>1. /\ EnCurso(p, x)
            /\ peticion[p].op \in {"charge", "webhook", "retorno", "reconsulta", "cierre"}
        BY <1>1, <2>2, ResultadoEfecto
      <3>2. LecturaFiel(p, x)
        BY <1>1, <3>1 DEF IInv, LecturasInv
      <3>3. CASE ~solapada[x]
        <4>1. Turno(p, x) /\ Cuenta(x)
          BY <1>1, <3>1, <3>3 DEF SecuencialInv, Secuencial
        <4> QED BY <2>2, <3>1, <3>2, <4>1 DEF Turno, Cuenta, LecturaFiel, Cobrada
      <3>4. CASE solapada[x]
        BY <2>2, <3>2, <3>4 DEF LecturaFiel, Cobrada
      <3> QED BY <3>3, <3>4
    <2> QED BY <2>1, <2>2
  <1>2. ASSUME IInv, SecuencialInv, [Next]_vars
        PROVE  [\A x \in Pagos : credito'[x] > credito[x] => ConCobro(x)]_vars
    BY <1>1, <1>2
  <1>3. [][\A x \in Pagos : credito'[x] > credito[x] => ConCobro(x)]_vars
            => CreditoConCobro
    BY PTL DEF CreditoConCobro
  <1> QED BY <1>2, <1>3, InvarianteSecuencial, PTL DEF Spec

-----------------------------------------------------------------------------
(* An operation that is open at Bancard is not of a settled payment *)

Abierta(x) ==
    /\ pago[x] \in {"NINGUNO", "PENDIENTE", "RECHAZADO"}
    /\ \A p \in Peticiones :
          EnCurso(p, x) =>
              /\ peticion[p].op \notin {"reintento", "anular"}
              /\ peticion[p].op = "charge" => peticion[p].sabe # "sinRespuesta"

AbiertaInv == \A x \in Pagos : banco[x] = "abierta" => Abierta(x)

\* A request that begins for an open operation is of another kind.
LEMMA EmpezarAbierta ==
    ASSUME IInv, AbiertaInv, NEW p \in Peticiones, NEW x \in Pagos,
           NEW op \in Operaciones, NEW sabe \in Respuestas,
           Empezar(p, op, x, sabe),
           op = "charge" => sabe = "nada",
           op \in {"reintento", "anular"} => pago[x] \in {"ERROR", "APROBADO"}
    PROVE  AbiertaInv'
  <1>1. /\ peticion'[p].op = op /\ peticion'[p].sabe = sabe
        /\ \A q \in Peticiones \ {p} : peticion'[q] = peticion[q]
        /\ \A y \in Pagos : EnCurso(p, y)' <=> y = x
        /\ \A q \in Peticiones \ {p}, y \in Pagos : EnCurso(q, y)' <=> EnCurso(q, y)
        /\ UNCHANGED <<pago, banco>>
    BY EmpezarEfecto DEF IInv
  <1> QED BY <1>1 DEF AbiertaInv, Abierta

\* An answer of the gateway does not change what the request is; only a
\* charge may go without one, and then the operation is not open.
LEMMA AprenderAbierta ==
    ASSUME IInv, AbiertaInv, NEW p \in Peticiones, NEW x \in Pagos, EnCurso(p, x),
           NEW sabe \in Respuestas, Aprender(p, sabe), pago' = pago,
           \A y \in Pagos : banco'[y] = "abierta" =>
               \/ banco[y] = "abierta" /\ peticion[p].op # "charge"
               \/ banco[y] = "abierta" /\ y # x
               \/ /\ y = x /\ peticion[p].op = "charge" /\ sabe # "sinRespuesta"
                  /\ pago[x] = "NINGUNO" /\ \A q \in Peticiones : EnCurso(q, x) => q = p
    PROVE  AbiertaInv'
  <1>1. /\ peticion'[p].op = peticion[p].op /\ peticion'[p].sabe = sabe
        /\ \A q \in Peticiones \ {p} : peticion'[q] = peticion[q]
        /\ \A q \in Peticiones, y \in Pagos : EnCurso(q, y)' <=> EnCurso(q, y)
    BY AprenderEfecto DEF IInv
  <1>2. \A y \in Pagos : EnCurso(p, y) => y = x
    BY EnCursoRegistro DEF IInv
  <1> SUFFICES ASSUME NEW y \in Pagos, banco'[y] = "abierta" PROVE Abierta(y)'
    BY DEF AbiertaInv
  <1>3. CASE banco[y] = "abierta" /\ (peticion[p].op # "charge" \/ y # x)
    BY <1>1, <1>2, <1>3 DEF AbiertaInv, Abierta
  <1>4. CASE /\ y = x /\ peticion[p].op = "charge" /\ sabe # "sinRespuesta"
             /\ pago[x] = "NINGUNO" /\ \A q \in Peticiones : EnCurso(q, x) => q = p
    BY <1>1, <1>4 DEF Abierta
  <1> QED BY <1>3, <1>4

\* A request that is answered leaves an open operation with a payment that is
\* still to be resolved.
LEMMA ResponderAbierta ==
    ASSUME IInv, AbiertaInv, NEW p \in Peticiones, NEW x \in Pagos, EnCurso(p, x),
           Responder(p), banco' = banco, \A y \in Pagos \ {x} : pago'[y] = pago[y],
           banco[x] = "abierta" => pago'[x] \in {"NINGUNO", "PENDIENTE", "RECHAZADO"}
    PROVE  AbiertaInv'
  <1>1. \A q \in Peticiones, y \in Pagos :
            EnCurso(q, y)' => EnCurso(q, y) /\ peticion'[q] = peticion[q]
    BY ResponderEfecto DEF IInv
  <1> QED BY <1>1 DEF AbiertaInv, Abierta

\* The two calls to Bancard that move the operation.
LEMMA BancoAbierta ==
    ASSUME IInv, AbiertaInv, NEW p \in Peticiones, NEW x \in Pagos,
           LlamarCharge(p, x) \/ LlamarRollback(p, x)
    PROVE  AbiertaInv'
  <1>1. CASE LlamarCharge(p, x)
    <2>1. EnCurso(p, x) /\ peticion[p].op = "charge" /\ pago' = pago
      BY <1>1 DEF LlamarCharge, Espera, EnCurso
    <2>2. PICK r \in RespuestaCharge :
              Aprender(p, r[1]) /\ banco' = [banco EXCEPT ![x] = r[2]]
      BY <1>1 DEF LlamarCharge
    <2>3. /\ r[1] \in Respuestas
          /\ r[2] = "abierta" => r[1] # "sinRespuesta"
      BY DEF RespuestaCharge, Respuestas
    <2>4. banco'[x] = r[2] /\ \A y \in Pagos \ {x} : banco'[y] = banco[y]
      BY <2>2 DEF IInv, TypeOK
    <2>5. pago[x] = "NINGUNO" /\ \A q \in Peticiones : EnCurso(q, x) => q = p
      BY <2>1 DEF IInv, LecturasInv, LecturaFiel, ParejasInv, LecturasDistintas
    <2> QED BY <2>1, <2>2, <2>3, <2>4, <2>5, AprenderAbierta
  <1>2. CASE LlamarRollback(p, x)
    <2>1. EnCurso(p, x) /\ peticion[p].op = "anular" /\ pago' = pago
      BY <1>2 DEF LlamarRollback, Espera, EnCurso
    <2>2. PICK r \in {"reversado", "sinRespuesta"} : Aprender(p, r)
      BY <1>2 DEF LlamarRollback
    <2>3. \A y \in Pagos : banco'[y] = "abierta" => banco[y] = "abierta"
      BY <1>2 DEF LlamarRollback, IInv, TypeOK
    <2> QED BY <2>1, <2>2, <2>3, AprenderAbierta DEF Respuestas
  <1> QED BY <1>1, <1>2

\* A request that writes a result, retries or annuls.
LEMMA ResultadoAbierta ==
    ASSUME IInv, AbiertaInv, NEW p \in Peticiones, NEW x \in Pagos,
           Resultado(p, x) \/ AplicarReintento(p, x) \/ AplicarAnulacion(p, x)
    PROVE  AbiertaInv'
  <1> TypeOK
    BY DEF IInv
  <1>1. CASE Resultado(p, x)
    <2>1. /\ EnCurso(p, x) /\ Responder(p) /\ banco' = banco
          /\ \A y \in Pagos \ {x} : pago'[y] = pago[y]
      BY <1>1, ResultadoEfecto
    <2>2. banco[x] = "abierta" => peticion[p].sabe # "00"
      BY <2>1 DEF IInv, LecturasInv, LecturaFiel, Cobrada
    <2>3. ASSUME banco[x] = "abierta", peticion[p].op = "charge" PROVE pago'[x] # "ERROR"
      <3>1. ResolverCharge(p, x)
        BY <1>1, <2>3 DEF Resultado, AplicarWebhook, AplicarRetorno, AplicarReconsulta, Resuelve
      <3>2. peticion[p].sabe # "sinRespuesta"
        BY <2>1, <2>3 DEF AbiertaInv, Abierta
      <3>3. CASE Escribir(x, "PENDIENTE")
        BY <3>3 DEF Escribir, TypeOK
      <3>4. CASE peticion[p].sabe \in {"00", "rechazo"} /\ ProcesarResultado(x, peticion[p].sabe)
        BY <2>2, <2>3, <3>4, ProcesarResuelve DEF Respuestas
      <3> QED BY <3>1, <3>2, <3>3, <3>4 DEF ResolverCharge
    <2>4. banco[x] = "abierta" => pago'[x] \in {"NINGUNO", "PENDIENTE", "RECHAZADO"}
      BY <1>1, <2>2, <2>3, ResultadoEfecto DEF AbiertaInv, Abierta
    <2> QED BY <2>1, <2>4, ResponderAbierta
  <1>2. CASE AplicarReintento(p, x) \/ AplicarAnulacion(p, x)
    <2>1. /\ EnCurso(p, x) /\ Responder(p) /\ banco' = banco
          /\ peticion[p].op \in {"reintento", "anular"}
      BY <1>2 DEF AplicarReintento, AplicarAnulacion, Resuelve, EnCurso
    <2>2. banco[x] # "abierta"
      BY <2>1 DEF AbiertaInv, Abierta
    <2>3. \A y \in Pagos \ {x} : pago'[y] = pago[y]
      BY <1>2 DEF AplicarReintento, AplicarAnulacion, Acreditar, Escribir, TypeOK
    <2> QED BY <2>1, <2>2, <2>3, ResponderAbierta
  <1> QED BY <1>1, <1>2

LEMMA AbiertaPaso == IInv /\ AbiertaInv /\ [Next]_vars => AbiertaInv'
  <1> SUFFICES ASSUME IInv, AbiertaInv, [Next]_vars PROVE AbiertaInv'
    OBVIOUS
  <1>1. ASSUME NEW x \in Pagos, DePago(x) PROVE AbiertaInv'
    <2>1. peticion' = peticion /\ \A q \in Peticiones, y \in Pagos : EnCurso(q, y)' <=> EnCurso(q, y)
      BY <1>1 DEF DePago, IniciarTarjeta, IniciarAlmuerzo, IniciarCC, Iniciar,
                    PagarEnBancard, CambiarEstadoTarjeta, EnCurso
    <2>2. CASE Iniciar(x)
      <3>1. /\ banco'[x] = "abierta" => pago'[x] = "PENDIENTE"
            /\ \A y \in Pagos \ {x} : pago'[y] = pago[y] /\ banco'[y] = banco[y]
            /\ \A q \in Peticiones : ~EnCurso(q, x)
        BY <2>2 DEF Iniciar, Nuevo, IInv, TypeOK
      <3> QED BY <2>1, <3>1 DEF AbiertaInv, Abierta
    <2>3. CASE PagarEnBancard(x)
      <3>1. pago' = pago /\ \A y \in Pagos : banco'[y] = "abierta" => banco[y] = "abierta"
        BY <2>3 DEF PagarEnBancard, IInv, TypeOK
      <3> QED BY <2>1, <3>1 DEF AbiertaInv, Abierta
    <2>4. CASE CambiarEstadoTarjeta(x)
      BY <2>1, <2>4 DEF CambiarEstadoTarjeta, AbiertaInv, Abierta
    <2> QED BY <1>1, <2>2, <2>3, <2>4 DEF DePago, IniciarTarjeta, IniciarAlmuerzo, IniciarCC
  <1>2. ASSUME NEW p \in Peticiones, NEW x \in Pagos, DePeticion(p, x) PROVE AbiertaInv'
    <2>1. CASE EmpezarCharge(p, x)
      BY <2>1, EmpezarAbierta DEF EmpezarCharge, Operaciones, Respuestas
    <2>2. CASE LeerWebhook(p, x)
      BY <2>2, EmpezarAbierta DEF LeerWebhook, Operaciones, Respuestas
    <2>3. CASE LeerRetorno(p, x)
      BY <2>3, EmpezarAbierta DEF LeerRetorno, Operaciones, Respuestas
    <2>4. CASE LeerPendiente(p, x)
      BY <2>4, EmpezarAbierta DEF LeerPendiente, Operaciones, Respuestas
    <2>5. CASE LeerReintentar(p, x)
      BY <2>5, EmpezarAbierta DEF LeerReintentar, Operaciones, Respuestas
    <2>6. CASE LeerAnular(p, x)
      BY <2>6, EmpezarAbierta DEF LeerAnular, Operaciones, Respuestas
    <2>7. CASE Consultar(p, x)
      <3>1. EnCurso(p, x) /\ pago' = pago /\ banco' = banco /\ peticion[p].op # "charge"
        BY <2>7 DEF Consultar, Espera, EnCurso
      <3>2. PICK r \in RespuestaConsulta(x) : Aprender(p, r)
        BY <2>7 DEF Consultar
      <3>3. r \in Respuestas
        BY DEF RespuestaConsulta, Respuestas
      <3> QED BY <3>1, <3>2, <3>3, AprenderAbierta
    <2>8. CASE BuscarCredito(p, x)
      <3>1. EnCurso(p, x) /\ pago' = pago /\ banco' = banco /\ peticion[p].op # "charge"
        BY <2>8 DEF BuscarCredito, Espera, EnCurso
      <3>2. PICK r \in {"existe", "noExiste"} : Aprender(p, r)
        BY <2>8 DEF BuscarCredito
      <3> QED BY <3>1, <3>2, AprenderAbierta DEF Respuestas
    <2> QED
      BY <1>2, <2>1, <2>2, <2>3, <2>4, <2>5, <2>6, <2>7, <2>8, BancoAbierta, ResultadoAbierta
      DEF DePeticion, Resultado, PagarConTarjeta, PagarAlmuerzoConTarjeta, PagarCCConTarjeta
  <1>3. ASSUME NEW p \in Peticiones, Caida(p) PROVE AbiertaInv'
    <2>1. PICK x \in Pagos : EnCurso(p, x)
      BY <1>3 DEF Caida, IInv, TypeOK, Lecturas, EnCurso
    <2> QED BY <1>3, <2>1, ResponderAbierta DEF Caida, AbiertaInv, Abierta
  <1>4. CASE UNCHANGED vars
    BY <1>4 DEF vars, AbiertaInv, Abierta, EnCurso
  <1> QED BY <1>1, <1>2, <1>3, <1>4 DEF Next

LEMMA InvarianteRefinamiento == Spec => [](IInv /\ SecuencialInv /\ AbiertaInv)
  <1>1. Init => AbiertaInv
    BY DEF Init, AbiertaInv
  <1> QED BY <1>1, InvarianteSecuencial, AbiertaPaso, PTL DEF Spec

-----------------------------------------------------------------------------
(* Steps seen from PagoIdeal *)

\* Only the payment x changes
Local(x) ==
    \A y \in Pagos \ {x} :
        /\ pago'[y] = pago[y] /\ banco'[y] = banco[y] /\ credito'[y] = credito[y]
        /\ reverso'[y] = reverso[y] /\ solapada'[y] = solapada[y]

\* What PagoIdeal sees then changes at x at most, and not at all where the
\* value for x does not.
LEMMA LocalEfecto ==
    ASSUME TypeOK, TypeOK', NEW x \in Pagos, Local(x)
    PROVE  /\ EstadoIdeal' = [EstadoIdeal EXCEPT ![x] = EstadoIdeal'[x]]
           /\ DineroIdeal' = [DineroIdeal EXCEPT ![x] = DineroIdeal'[x]]
           /\ credito' = [credito EXCEPT ![x] = credito'[x]]
           /\ reverso' = [reverso EXCEPT ![x] = reverso'[x]]
           /\ SolaIdeal' = [SolaIdeal EXCEPT ![x] = SolaIdeal'[x]]
           /\ pago'[x] = pago[x] => EstadoIdeal' = EstadoIdeal
           /\ banco'[x] = banco[x] => DineroIdeal' = DineroIdeal
           /\ credito'[x] = credito[x] => credito' = credito
           /\ reverso'[x] = reverso[x] => reverso' = reverso
           /\ solapada'[x] = solapada[x] => SolaIdeal' = SolaIdeal
  <1>1. /\ EstadoIdeal' = [EstadoIdeal EXCEPT ![x] = EstadoIdeal'[x]]
        /\ pago'[x] = pago[x] => EstadoIdeal' = EstadoIdeal
    BY DEF EstadoIdeal, Local
  <1>2. /\ DineroIdeal' = [DineroIdeal EXCEPT ![x] = DineroIdeal'[x]]
        /\ banco'[x] = banco[x] => DineroIdeal' = DineroIdeal
    BY DEF DineroIdeal, Local
  <1>3. /\ credito' = [credito EXCEPT ![x] = credito'[x]]
        /\ credito'[x] = credito[x] => credito' = credito
    BY DEF TypeOK, Local
  <1>4. /\ reverso' = [reverso EXCEPT ![x] = reverso'[x]]
        /\ reverso'[x] = reverso[x] => reverso' = reverso
    BY DEF TypeOK, Local
  <1>5. /\ SolaIdeal' = [SolaIdeal EXCEPT ![x] = SolaIdeal'[x]]
        /\ solapada'[x] = solapada[x] => SolaIdeal' = SolaIdeal
    BY DEF SolaIdeal, Local
  <1> QED BY <1>1, <1>2, <1>3, <1>4, <1>5

LEMMA IdealValores ==
    ASSUME TypeOK, NEW x \in Pagos
    PROVE  /\ pago[x] \in {"NINGUNO", "PENDIENTE"} => EstadoIdeal[x] = "enCurso"
           /\ pago[x] = "APROBADO" <=> EstadoIdeal[x] = "acreditado"
           /\ pago[x] = "RECHAZADO" <=> EstadoIdeal[x] = "rechazado"
           /\ pago[x] = "ERROR" <=> EstadoIdeal[x] = "enError"
           /\ pago[x] = "CANCELADO" <=> EstadoIdeal[x] = "anulado"
           /\ EstadoIdeal[x] \in Ideal!Estados
           /\ banco[x] \in {"sinOperacion", "abierta", "rechazada"} <=> DineroIdeal[x] = "titular"
           /\ banco[x] = "aprobada" <=> DineroIdeal[x] = "comercio"
           /\ banco[x] = "reversada" <=> DineroIdeal[x] = "devuelto"
           /\ SolaIdeal[x] = ~solapada[x]
  BY DEF TypeOK, EstadosPago, EstadosBanco, EstadoIdeal, DineroIdeal, SolaIdeal, Ideal!Estados

\* A request that begins may be the one that overlaps.
LEMMA EmpezarIdeal ==
    ASSUME IInv, IInv', NEW p \in Peticiones, NEW x \in Pagos,
           NEW op \in Operaciones, NEW sabe \in Respuestas, Empezar(p, op, x, sabe)
    PROVE  Ideal!Paso(x) \/ UNCHANGED Ideal!idealVars
  <1>1. /\ TypeOK /\ TypeOK' /\ Local(x) /\ UNCHANGED <<pago, banco, credito, reverso>>
        /\ ~solapada'[x] => ~solapada[x]
    BY EmpezarEfecto DEF IInv, Local
  <1>2. CASE solapada'[x] = solapada[x]
    BY <1>1, <1>2, LocalEfecto DEF Ideal!idealVars
  <1>3. CASE solapada'[x] # solapada[x]
    <2>1. SolaIdeal'[x] = FALSE
      BY <1>1, <1>3 DEF TypeOK, SolaIdeal
    <2>2. Ideal!Solapar(x)
      BY <1>1, <2>1, LocalEfecto DEF Ideal!Solapar
    <2> QED BY <2>2 DEF Ideal!Paso
  <1> QED BY <1>2, <1>3

\* The operation at Bancard moves: the holder is charged or paid back.
LEMMA BancoIdeal ==
    ASSUME IInv, IInv', NEW x \in Pagos,
           \A y \in Pagos \ {x} : banco'[y] = banco[y],
           UNCHANGED <<pago, credito, reverso, solapada>>,
           \/ /\ banco[x] \in {"abierta", "sinOperacion"}
              /\ pago[x] \in {"NINGUNO", "PENDIENTE", "RECHAZADO"}
              /\ banco'[x] # "reversada"
           \/ /\ banco[x] = "aprobada" /\ banco'[x] = "reversada" /\ credito[x] >= 1
              /\ ~solapada[x] => pago[x] = "APROBADO"
    PROVE  Ideal!Paso(x) \/ UNCHANGED Ideal!idealVars
  <1>1. TypeOK /\ TypeOK' /\ Local(x)
    BY DEF IInv, Local
  <1>2. /\ UNCHANGED <<EstadoIdeal, credito, reverso, SolaIdeal>>
        /\ DineroIdeal' = [DineroIdeal EXCEPT ![x] = DineroIdeal'[x]]
    BY <1>1, LocalEfecto
  <1>3. CASE /\ banco[x] \in {"abierta", "sinOperacion"}
             /\ pago[x] \in {"NINGUNO", "PENDIENTE", "RECHAZADO"}
             /\ banco'[x] # "reversada"
    <2>1. DineroIdeal[x] = "titular" /\ EstadoIdeal[x] \in {"enCurso", "rechazado"}
      BY <1>1, <1>3, IdealValores
    <2>2. CASE banco'[x] = "aprobada"
      <3>1. DineroIdeal'[x] = "comercio"
        BY <2>2 DEF DineroIdeal
      <3>2. Ideal!Cobrar(x)
        BY <1>2, <2>1, <3>1 DEF Ideal!Cobrar
      <3> QED BY <3>2 DEF Ideal!Paso
    <2>3. CASE banco'[x] # "aprobada"
      <3>1. DineroIdeal'[x] = "titular"
        BY <1>3, <2>3 DEF DineroIdeal
      <3>2. DineroIdeal' = DineroIdeal
        BY <1>2, <2>1, <3>1 DEF DineroIdeal
      <3> QED BY <1>2, <3>2 DEF Ideal!idealVars
    <2> QED BY <2>2, <2>3
  <1>4. CASE /\ banco[x] = "aprobada" /\ banco'[x] = "reversada" /\ credito[x] >= 1
             /\ ~solapada[x] => pago[x] = "APROBADO"
    <2>1. /\ DineroIdeal[x] = "comercio" /\ SolaIdeal[x] = ~solapada[x]
          /\ pago[x] = "APROBADO" => EstadoIdeal[x] = "acreditado"
      BY <1>1, <1>4, IdealValores
    <2>2. DineroIdeal'[x] = "devuelto"
      BY <1>4 DEF DineroIdeal
    <2>3. Ideal!Devolver(x)
      BY <1>2, <1>4, <2>1, <2>2 DEF Ideal!Devolver
    <2> QED BY <2>3 DEF Ideal!Paso
  <1> QED BY <1>3, <1>4

\* The row of x is written, and credited perhaps: for a payment attended by one
\* request it is an end or a credit, for the others a disorder.
LEMMA EscribirIdeal ==
    ASSUME IInv, IInv', SecuencialInv, NEW x \in Pagos,
           \A y \in Pagos \ {x} : pago'[y] = pago[y] /\ credito'[y] = credito[y],
           UNCHANGED <<banco, reverso, solapada>>,
           pago'[x] # "CANCELADO" \/ pago'[x] = pago[x],
           credito'[x] \in {credito[x], credito[x] + 1},
           ~solapada[x] =>
               \/ pago'[x] = pago[x] /\ credito'[x] = credito[x]
               \/ /\ pago[x] \in {"NINGUNO", "PENDIENTE"} /\ credito'[x] = credito[x]
                  /\ pago'[x] \in {"PENDIENTE", "ERROR", "RECHAZADO"}
               \/ /\ pago[x] = "CANCELADO" /\ credito'[x] = credito[x]
                  /\ pago'[x] = "RECHAZADO"
               \/ /\ \/ pago[x] \in {"NINGUNO", "PENDIENTE"} /\ banco[x] = "aprobada"
                     \/ pago[x] = "ERROR"
                  /\ pago'[x] = "APROBADO" /\ credito'[x] = credito[x] + 1
    PROVE  Ideal!Paso(x) \/ UNCHANGED Ideal!idealVars
  <1>1. TypeOK /\ TypeOK' /\ Local(x)
    BY DEF IInv, Local
  <1>2. /\ UNCHANGED <<DineroIdeal, reverso, SolaIdeal>>
        /\ EstadoIdeal' = [EstadoIdeal EXCEPT ![x] = EstadoIdeal'[x]]
        /\ credito' = [credito EXCEPT ![x] = credito'[x]]
        /\ pago'[x] = pago[x] => EstadoIdeal' = EstadoIdeal
        /\ credito'[x] = credito[x] => credito' = credito
    BY <1>1, LocalEfecto
  <1>3. /\ pago[x] \in {"NINGUNO", "PENDIENTE"} => EstadoIdeal[x] = "enCurso"
        /\ pago[x] = "ERROR" => EstadoIdeal[x] = "enError"
        /\ pago[x] = "CANCELADO" => EstadoIdeal[x] = "anulado"
        /\ banco[x] = "aprobada" => DineroIdeal[x] = "comercio"
        /\ SolaIdeal[x] = ~solapada[x] /\ credito[x] \in Nat
    BY <1>1, IdealValores DEF TypeOK
  <1>4. /\ pago'[x] \in {"NINGUNO", "PENDIENTE"} => EstadoIdeal'[x] = "enCurso"
        /\ pago'[x] = "ERROR" => EstadoIdeal'[x] = "enError"
        /\ pago'[x] = "RECHAZADO" => EstadoIdeal'[x] = "rechazado"
        /\ pago'[x] = "APROBADO" <=> EstadoIdeal'[x] = "acreditado"
        /\ EstadoIdeal'[x] \in Ideal!Estados
    <2>1. pago'[x] \in EstadosPago
      BY <1>1 DEF TypeOK
    <2>2. EstadoIdeal'[x] = CASE pago'[x] = "APROBADO" -> "acreditado"
                              [] pago'[x] = "RECHAZADO" -> "rechazado"
                              [] pago'[x] = "ERROR" -> "enError"
                              [] pago'[x] = "CANCELADO" -> "anulado"
                              [] OTHER -> "enCurso"
      BY DEF EstadoIdeal
    <2> QED BY <2>1, <2>2 DEF EstadosPago, Ideal!Estados
  <1>5. CASE pago'[x] = pago[x] /\ credito'[x] = credito[x]
    BY <1>2, <1>5 DEF Ideal!idealVars
  <1>6. CASE solapada[x]
    <2>1. pago'[x] = "APROBADO" => credito'[x] >= 1
      BY DEF IInv, PagosInv, PagoFiel
    <2>2. PICK n \in {0, 1} : credito'[x] = credito[x] + n
      BY <1>3
    <2>3. credito' = [credito EXCEPT ![x] = @ + n]
      BY <1>2, <2>2
    <2>4. Ideal!Desordenar(x)
      BY <1>2, <1>3, <1>4, <1>6, <2>1, <2>3 DEF Ideal!Desordenar
    <2> QED BY <2>4 DEF Ideal!Paso
  <1>7. CASE /\ ~solapada[x] /\ credito'[x] = credito[x]
             /\ pago[x] \in {"NINGUNO", "PENDIENTE"}
             /\ pago'[x] \in {"PENDIENTE", "ERROR", "RECHAZADO"}
    <2>1. CASE pago'[x] = "PENDIENTE"
      <3>1. EstadoIdeal' = EstadoIdeal
        BY <1>2, <1>3, <1>4, <1>7, <2>1 DEF EstadoIdeal
      <3> QED BY <1>2, <1>7, <3>1 DEF Ideal!idealVars
    <2>2. CASE pago'[x] \in {"ERROR", "RECHAZADO"}
      <3>1. Ideal!Terminar(x)
        BY <1>2, <1>3, <1>4, <1>7, <2>2 DEF Ideal!Terminar
      <3> QED BY <3>1 DEF Ideal!Paso
    <2> QED BY <1>7, <2>1, <2>2
  <1>8. CASE /\ ~solapada[x] /\ credito'[x] = credito[x]
             /\ pago[x] = "CANCELADO" /\ pago'[x] = "RECHAZADO"
    <2>1. Ideal!Terminar(x)
      BY <1>2, <1>3, <1>4, <1>8 DEF Ideal!Terminar
    <2> QED BY <2>1 DEF Ideal!Paso
  <1>9. CASE /\ ~solapada[x]
             /\ \/ pago[x] \in {"NINGUNO", "PENDIENTE"} /\ banco[x] = "aprobada"
                \/ pago[x] = "ERROR"
             /\ pago'[x] = "APROBADO" /\ credito'[x] = credito[x] + 1
    <2>1. credito[x] = 0
      BY <1>9 DEF SecuencialInv, Secuencial, Cuenta
    <2>2. credito'[x] = 1 /\ EstadoIdeal'[x] = "acreditado"
      BY <1>4, <1>9, <2>1
    <2>3. /\ credito' = [credito EXCEPT ![x] = 1]
          /\ EstadoIdeal' = [EstadoIdeal EXCEPT ![x] = "acreditado"]
      BY <1>2, <2>2
    <2>4. SolaIdeal[x] /\ (\/ EstadoIdeal[x] = "enCurso" /\ DineroIdeal[x] = "comercio"
                           \/ EstadoIdeal[x] = "enError")
      BY <1>3, <1>9
    <2>5. Ideal!Acreditar(x)
      BY <1>2, <2>1, <2>3, <2>4 DEF Ideal!Acreditar
    <2> QED BY <2>5 DEF Ideal!Paso
  <1> QED BY <1>5, <1>6, <1>7, <1>8, <1>9

\* The credit is taken back, after the return at Bancard.
LEMMA AnulacionIdeal ==
    ASSUME IInv, IInv', SecuencialInv, NEW p \in Peticiones, NEW x \in Pagos,
           AplicarAnulacion(p, x)
    PROVE  Ideal!Paso(x) \/ UNCHANGED Ideal!idealVars
  <1>1. /\ TypeOK /\ TypeOK' /\ UNCHANGED <<banco, solapada>>
        /\ EnCurso(p, x) /\ peticion[p].op = "anular"
    BY DEF IInv, AplicarAnulacion, Resuelve, EnCurso
  <1>2. CASE UNCHANGED <<pago, credito, reverso>>
    BY <1>1, <1>2 DEF Ideal!idealVars, EstadoIdeal, DineroIdeal, SolaIdeal
  <1>3. CASE /\ peticion[p].sabe = "reversado"
             /\ reverso' = [reverso EXCEPT ![x] = @ + 1]
             /\ Escribir(x, "CANCELADO")
    <2>1. /\ pago' = [pago EXCEPT ![x] = "CANCELADO"] /\ credito' = credito
          /\ pago'[x] = "CANCELADO" /\ Local(x)
      BY <1>1, <1>3 DEF Escribir, TypeOK, Local
    <2>2. banco[x] = "reversada" /\ reverso[x] = 0 /\ credito[x] >= 1
      BY <1>1, <1>3 DEF IInv, LecturasInv, LecturaFiel
    <2>3. ~solapada[x] => pago[x] = "APROBADO"
      BY <1>1 DEF SecuencialInv, Secuencial, Turno
    <2>4. /\ EstadoIdeal' = [EstadoIdeal EXCEPT ![x] = EstadoIdeal'[x]]
          /\ UNCHANGED <<DineroIdeal, credito, SolaIdeal>>
      BY <1>1, <2>1, LocalEfecto
    <2>5. reverso' = [reverso EXCEPT ![x] = 1]
      BY <1>1, <1>3, <2>2 DEF TypeOK
    <2>6. EstadoIdeal'[x] = "anulado"
      BY <2>1 DEF EstadoIdeal
    <2>7. /\ DineroIdeal[x] = "devuelto" /\ SolaIdeal[x] = ~solapada[x]
          /\ SolaIdeal[x] => EstadoIdeal[x] = "acreditado"
      BY <1>1, <2>2, <2>3, IdealValores
    <2>8. Ideal!Anular(x)
      BY <2>2, <2>4, <2>5, <2>6, <2>7 DEF Ideal!Anular
    <2> QED BY <2>8 DEF Ideal!Paso
  <1> QED BY <1>2, <1>3 DEF AplicarAnulacion, RollbackAceptado

\* Applying a result, and retrying.
LEMMA ResultadoIdeal ==
    ASSUME IInv, IInv', SecuencialInv, NEW p \in Peticiones, NEW x \in Pagos,
           Resultado(p, x) \/ AplicarReintento(p, x)
    PROVE  Ideal!Paso(x) \/ UNCHANGED Ideal!idealVars
  <1> TypeOK
    BY DEF IInv
  <1>1. CASE Resultado(p, x)
    <2>1. EnCurso(p, x) /\ UNCHANGED <<banco, reverso, solapada>>
      BY <1>1, ResultadoEfecto
      DEF Resultado, ResolverCharge, AplicarWebhook, AplicarRetorno, AplicarReconsulta
    <2>2. ASSUME ~solapada[x]
          PROVE  /\ Turno(p, x) /\ Cuenta(x) /\ LecturaFiel(p, x)
                 /\ \/ pago[x] \in {"NINGUNO", "PENDIENTE"}
                    \/ /\ pago[x] = "CANCELADO" /\ peticion[p].op = "retorno"
                       /\ peticion[p].sabe # "00"
      <3>1. Turno(p, x) /\ Cuenta(x) /\ LecturaFiel(p, x)
        BY <2>1, <2>2 DEF SecuencialInv, Secuencial, IInv, LecturasInv
      <3> QED BY <1>1, <3>1, ResultadoEfecto DEF Turno, LecturaFiel
    <2>3. ASSUME ~solapada[x], peticion[p].sabe = "00"
          PROVE  banco[x] = "aprobada" /\ pago[x] \in {"NINGUNO", "PENDIENTE"}
      BY <2>2, <2>3 DEF LecturaFiel, Cobrada, Cuenta
    <2>4. /\ credito'[x] \in {credito[x], credito[x] + 1}
          /\ pago'[x] # "CANCELADO" \/ pago'[x] = pago[x]
      BY <1>1, ResultadoEfecto
    <2> QED BY <1>1, <2>1, <2>2, <2>3, <2>4, ResultadoEfecto, EscribirIdeal
  <1>2. CASE AplicarReintento(p, x)
    <2>1. /\ EnCurso(p, x) /\ peticion[p].op = "reintento"
          /\ UNCHANGED <<banco, reverso, solapada>>
      BY <1>2 DEF AplicarReintento, Resuelve, EnCurso
    <2>2. ~solapada[x] => pago[x] = "ERROR" /\ credito[x] = 0
      BY <2>1 DEF SecuencialInv, Secuencial, Turno, Cuenta
    <2>3. CASE peticion[p].sabe = "existe" /\ Escribir(x, "APROBADO")
      <3>1. /\ \A y \in Pagos \ {x} : pago'[y] = pago[y] /\ credito'[y] = credito[y]
            /\ pago'[x] = "APROBADO" /\ credito'[x] = credito[x]
        BY <2>3 DEF Escribir, TypeOK
      <3>2. credito[x] >= 1
        BY <2>1, <2>3 DEF IInv, LecturasInv, LecturaFiel
      <3> QED BY <2>1, <2>2, <3>1, <3>2, EscribirIdeal
    <2>4. CASE Acreditar(x)
      <3>1. /\ \A y \in Pagos \ {x} : pago'[y] = pago[y] /\ credito'[y] = credito[y]
            /\ \/ pago'[x] = "APROBADO" /\ credito'[x] = credito[x] + 1
               \/ pago'[x] = "ERROR" /\ credito'[x] = credito[x]
        BY <2>4, AcreditarResuelve DEF Resuelto
      <3> QED BY <2>1, <2>2, <3>1, EscribirIdeal
    <2> QED BY <1>2, <2>3, <2>4 DEF AplicarReintento
  <1> QED BY <1>1, <1>2

LEMMA PagoIdealPaso ==
    ASSUME IInv, IInv', SecuencialInv, AbiertaInv, NEW x \in Pagos, DePago(x)
    PROVE  Ideal!Paso(x) \/ UNCHANGED Ideal!idealVars
  <1> TypeOK
    BY DEF IInv
  <1>1. CASE Iniciar(x)
    <2>1. /\ pago[x] = "NINGUNO" /\ pago'[x] \in {"PENDIENTE", "ERROR"}
          /\ banco[x] = "sinOperacion" /\ banco'[x] \in {"abierta", "sinOperacion"}
          /\ \A y \in Pagos \ {x} : pago'[y] = pago[y] /\ banco'[y] = banco[y]
          /\ UNCHANGED <<credito, reverso, solapada>>
      BY <1>1 DEF Iniciar, Nuevo, TypeOK, EstadoFallido
    <2>2. CASE pago'[x] = "ERROR"
      <3>1. banco' = banco
        BY <1>1, <2>2 DEF Iniciar, TypeOK
      <3> QED BY <2>1, <2>2, <3>1, EscribirIdeal DEF TypeOK
    <2>3. CASE pago'[x] = "PENDIENTE"
      <3>1. EstadoIdeal' = EstadoIdeal /\ DineroIdeal' = DineroIdeal
        <4>1. \A y \in Pagos : EstadoIdeal'[y] = EstadoIdeal[y]
          BY <2>1, <2>3 DEF EstadoIdeal
        <4>2. \A y \in Pagos : DineroIdeal'[y] = DineroIdeal[y]
          BY <2>1 DEF DineroIdeal
        <4> QED BY <4>1, <4>2 DEF EstadoIdeal, DineroIdeal
      <3> QED BY <2>1, <3>1 DEF Ideal!idealVars, SolaIdeal
    <2> QED BY <2>1, <2>2, <2>3
  <1>2. CASE PagarEnBancard(x)
    <2>1. /\ banco[x] = "abierta" /\ banco'[x] # "reversada"
          /\ \A y \in Pagos \ {x} : banco'[y] = banco[y]
          /\ UNCHANGED <<pago, credito, reverso, solapada>>
      BY <1>2 DEF PagarEnBancard, TypeOK
    <2>2. pago[x] \in {"NINGUNO", "PENDIENTE", "RECHAZADO"}
      BY <2>1 DEF AbiertaInv, Abierta
    <2> QED BY <2>1, <2>2, BancoIdeal
  <1>3. CASE CambiarEstadoTarjeta(x)
    BY <1>3 DEF CambiarEstadoTarjeta, Ideal!idealVars, EstadoIdeal, DineroIdeal, SolaIdeal
  <1> QED BY <1>1, <1>2, <1>3 DEF DePago, IniciarTarjeta, IniciarAlmuerzo, IniciarCC

LEMMA LlamadaIdeal ==
    ASSUME IInv, IInv', SecuencialInv, NEW p \in Peticiones, NEW x \in Pagos,
           LlamarCharge(p, x) \/ LlamarRollback(p, x)
    PROVE  Ideal!Paso(x) \/ UNCHANGED Ideal!idealVars
  <1> TypeOK
    BY DEF IInv
  <1>1. CASE LlamarCharge(p, x)
    <2>1. /\ EnCurso(p, x) /\ peticion[p].op = "charge" /\ peticion[p].sabe = "nada"
          /\ UNCHANGED <<pago, credito, reverso, solapada>>
      BY <1>1 DEF LlamarCharge, Espera, EnCurso
    <2>2. pago[x] = "NINGUNO" /\ banco[x] = "sinOperacion"
      BY <2>1 DEF IInv, LecturasInv, LecturaFiel
    <2>3. PICK r \in RespuestaCharge : banco' = [banco EXCEPT ![x] = r[2]]
      BY <1>1 DEF LlamarCharge
    <2>4. r[2] # "reversada"
      BY DEF RespuestaCharge
    <2>5. banco'[x] # "reversada" /\ \A y \in Pagos \ {x} : banco'[y] = banco[y]
      BY <2>3, <2>4 DEF TypeOK
    <2> QED BY <2>1, <2>2, <2>5, BancoIdeal
  <1>2. CASE LlamarRollback(p, x)
    <2>1. /\ EnCurso(p, x) /\ peticion[p].op = "anular"
          /\ UNCHANGED <<tipo, pago, credito, reverso, activa, solapada>>
      BY <1>2 DEF LlamarRollback, Espera, EnCurso
    <2>2. CASE UNCHANGED banco
      BY <2>1, <2>2 DEF Ideal!idealVars, EstadoIdeal, DineroIdeal, SolaIdeal
    <2>3. CASE banco[x] = "aprobada" /\ banco' = [banco EXCEPT ![x] = "reversada"]
      <3>1. banco'[x] = "reversada" /\ \A y \in Pagos \ {x} : banco'[y] = banco[y]
        BY <2>3 DEF TypeOK
      <3>2. credito[x] >= 1
        BY <2>1 DEF IInv, LecturasInv, LecturaFiel
      <3>3. ~solapada[x] => pago[x] = "APROBADO"
        BY <2>1 DEF SecuencialInv, Secuencial, Turno
      <3> QED BY <2>1, <2>3, <3>1, <3>2, <3>3, BancoIdeal
    <2> QED BY <1>2, <2>2, <2>3 DEF LlamarRollback
  <1> QED BY <1>1, <1>2

LEMMA PeticionIdealPaso ==
    ASSUME IInv, IInv', SecuencialInv, AbiertaInv,
           NEW p \in Peticiones, NEW x \in Pagos, DePeticion(p, x)
    PROVE  Ideal!Paso(x) \/ UNCHANGED Ideal!idealVars
  <1>1. CASE EmpezarCharge(p, x)
    BY <1>1, EmpezarIdeal DEF EmpezarCharge, Operaciones, Respuestas
  <1>2. CASE LeerWebhook(p, x)
    BY <1>2, EmpezarIdeal DEF LeerWebhook, Operaciones, Respuestas
  <1>3. CASE LeerRetorno(p, x)
    BY <1>3, EmpezarIdeal DEF LeerRetorno, Operaciones, Respuestas
  <1>4. CASE LeerPendiente(p, x)
    BY <1>4, EmpezarIdeal DEF LeerPendiente, Operaciones, Respuestas
  <1>5. CASE LeerReintentar(p, x)
    BY <1>5, EmpezarIdeal DEF LeerReintentar, Operaciones, Respuestas
  <1>6. CASE LeerAnular(p, x)
    BY <1>6, EmpezarIdeal DEF LeerAnular, Operaciones, Respuestas
  <1>7. CASE Consultar(p, x) \/ BuscarCredito(p, x)
    BY <1>7 DEF Consultar, BuscarCredito, Ideal!idealVars, EstadoIdeal, DineroIdeal, SolaIdeal
  <1> QED
    BY <1>1, <1>2, <1>3, <1>4, <1>5, <1>6, <1>7, LlamadaIdeal, ResultadoIdeal, AnulacionIdeal
    DEF DePeticion, Resultado, PagarConTarjeta, PagarAlmuerzoConTarjeta, PagarCCConTarjeta

LEMMA RefinaPaso ==
    IInv /\ IInv' /\ SecuencialInv /\ AbiertaInv /\ [Next]_vars => [Ideal!Next]_(Ideal!idealVars)
  <1> SUFFICES ASSUME IInv, IInv', SecuencialInv, AbiertaInv, [Next]_vars
               PROVE  Ideal!Next \/ UNCHANGED Ideal!idealVars
    OBVIOUS
  <1>1. ASSUME NEW p \in Peticiones, Caida(p) PROVE UNCHANGED Ideal!idealVars
    BY <1>1 DEF Caida, Ideal!idealVars, EstadoIdeal, DineroIdeal, SolaIdeal
  <1>2. CASE UNCHANGED vars
    BY <1>2 DEF vars, Ideal!idealVars, EstadoIdeal, DineroIdeal, SolaIdeal
  <1> QED BY <1>1, <1>2, PagoIdealPaso, PeticionIdealPaso DEF Next, Ideal!Next

LEMMA RefinaInicio == Init => Ideal!Init
  <1> SUFFICES ASSUME Init PROVE Ideal!Init
    OBVIOUS
  <1>1. EstadoIdeal = [x \in Pagos |-> "enCurso"]
    BY DEF Init, EstadoIdeal
  <1>2. DineroIdeal = [x \in Pagos |-> "titular"]
    BY DEF Init, DineroIdeal
  <1>3. SolaIdeal = [x \in Pagos |-> TRUE]
    BY DEF Init, SolaIdeal
  <1> QED BY <1>1, <1>2, <1>3 DEF Init, Ideal!Init

\* Requests, calls to Bancard, replays and lost workers implement the life of a
\* payment: every behaviour of Bancard, seen through its refinement mapping, is
\* one of PagoIdeal.
THEOREM Refinamiento == Spec => CicloIdeal
  <1> QED
    BY InvarianteRefinamiento, RefinaInicio, RefinaPaso, PTL
    DEF Spec, CicloIdeal, Ideal!Spec
=============================================================================
