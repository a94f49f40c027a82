------------------------- MODULE CierreCuentasProofs -------------------------
(***************************************************************************)
(* Proofs about the closing of accounts, for any family, pockets, amounts, *)
(* resolutions and number of concurrent requests.                          *)
(***************************************************************************)
EXTENDS CierreCuentas, TLAPS

-----------------------------------------------------------------------------
(* Types *)

\* A request executes a resolution from the moment it holds its row
EnCurso(q) == peticion[q].op \in {"ejecutar", "confirmar"}

\* What a leaf needs to know of a request in progress.
LEMMA LecturaDeOperacion ==
    ASSUME NEW q \in Peticiones, peticion[q] \in Lecturas
    PROVE  /\ peticion[q].op \in {"abrir", "registrar", "cerrar"}
                => peticion[q].hijo \in Hijos
           /\ peticion[q].op = "abrir" => peticion[q].estado \in EstadosCierre
           /\ EnCurso(q)
                => /\ peticion[q].res \in Resoluciones
                   /\ peticion[q].fila \in Fila
                   /\ peticion[q].nueva \in BOOLEAN
                   /\ peticion[q].estado \in EstadosCierre
           /\ peticion[q].op = "confirmar" => peticion[q].nuevo \in [Cuentas -> Int]
           /\ peticion[q].op = "editar"
                => peticion[q].cuenta \in Cuentas /\ peticion[q].saldo \in Int
  BY DEF Lecturas, Libre, EnCurso

\* A resolution moves a whole number of guaranies in a pocket.
LEMMA EfectoEntero ==
    ASSUME NEW fila \in Fila, NEW c \in Cuentas
    PROVE  /\ Efecto(fila, c) \in Int
           /\ c \notin Tocadas(fila) => Efecto(fila, c) = 0
  <1>1. fila.monto \in Montos
    BY DEF Fila
  <1>2. fila.monto \in Nat
    BY <1>1, CierreAssumption
  <1>3. -fila.monto \in Int
    BY <1>2
  <1> QED BY <1>2, <1>3 DEF Efecto, Tocadas

\* The balances after a resolution are whole, and change in its pockets only.
LEMMA TrasEntero ==
    ASSUME NEW fila \in Fila, saldo \in [Cuentas -> Int], libro \in [Cuentas -> Int]
    PROVE  /\ Tras(fila) \in [Cuentas -> Int]
           /\ \A c \in Cuentas \ Tocadas(fila) : Tras(fila)[c] = saldo[c]
  <1>2. ASSUME NEW c \in Cuentas
        PROVE  /\ Tras(fila)[c] \in Int
               /\ c \notin Tocadas(fila) => Tras(fila)[c] = saldo[c]
    <2>4. Efecto(fila, c) \in Int /\ (c \notin Tocadas(fila) => Efecto(fila, c) = 0)
      BY EfectoEntero
    <2>1. PICK e \in Int : e = Efecto(fila, c) /\ (c \notin Tocadas(fila) => e = 0)
      BY <2>4
    <2>2. Tras(fila)[c] = IF c \in Tocadas(fila) /\ Sincroniza(fila, c) THEN libro[c] + e
                                                                        ELSE saldo[c] + e
      BY <2>1 DEF Tras
    <2>3. saldo[c] \in Int /\ libro[c] \in Int
      OBVIOUS
    <2> QED BY <2>1, <2>2, <2>3
  <1>3. Tras(fila) = [c \in Cuentas |-> Tras(fila)[c]]
    BY DEF Tras
  <1> QED BY <1>2, <1>3

\* What a request remembers is of the type of the readings.
LEMMA RecordarTipo ==
    ASSUME TypeOK, NEW p \in Peticiones, NEW lectura \in Lecturas, Recordar(p, lectura)
    PROVE  peticion' \in [Peticiones -> Lecturas]
  BY DEF Recordar, TypeOK

\* Every step keeps the types.
LEMMA TiposPaso == TypeOK /\ [Next]_vars => TypeOK'
  <1> SUFFICES ASSUME TypeOK, [Next]_vars PROVE TypeOK'
    OBVIOUS
  <1>1. ASSUME NEW p \in Peticiones, NEW h \in Egresados,
               LeerAbrir(p, h) \/ LeerCerrar(p, h) \/ LeerRegistrar(p, h)
        PROVE  TypeOK'
    <2>1. h \in Hijos /\ cierre[h] \in EstadosCierre
      BY CierreAssumption DEF TypeOK
    <2>2. /\ \A e \in EstadosCierre : [op |-> "abrir", hijo |-> h, estado |-> e] \in Lecturas
          /\ \A op \in {"registrar", "cerrar"} : [op |-> op, hijo |-> h] \in Lecturas
      BY <2>1 DEF Lecturas
    <2>3. peticion' \in [Peticiones -> Lecturas]
      <3>1. CASE LeerAbrir(p, h)
        <4>1. (IF \A c \in DelHijo(h) : saldo[c] = 0 THEN "RESUELTO" ELSE "ABIERTO")
                 \in EstadosCierre
          BY DEF EstadosCierre
        <4> QED BY <2>2, <3>1, <4>1, RecordarTipo DEF LeerAbrir
      <3>2. CASE LeerCerrar(p, h)
        BY <2>1, <2>2, <3>2, RecordarTipo DEF LeerCerrar
      <3>3. CASE LeerRegistrar(p, h)
        BY <2>1, <2>2, <3>3, RecordarTipo DEF LeerRegistrar
      <3> QED BY <1>1, <3>1, <3>2, <3>3
    <2> QED BY <1>1, <2>3 DEF TypeOK, LeerAbrir, LeerCerrar, LeerRegistrar
  <1>2. ASSUME NEW p \in Peticiones, Abrir(p) \/ Cerrar(p) \/ Deshacer(p)
        PROVE  TypeOK'
    <2>1. peticion' \in [Peticiones -> Lecturas]
      BY <1>2 DEF Abrir, Cerrar, Deshacer, Responder, TypeOK, Lecturas
    <2>2. cierre' \in [Hijos -> EstadosCierre]
      BY <1>2, LecturaDeOperacion DEF Abrir, Cerrar, Deshacer, TypeOK, EstadosCierre
    <2> QED BY <1>2, <2>1, <2>2 DEF Abrir, Cerrar, Deshacer, TypeOK
  <1>3. ASSUME NEW p \in Peticiones, NEW r \in Resoluciones, LeerAprobar(p, r)
        PROVE  TypeOK'
    <2>1. resolucion[r] \in Fila
      BY <1>3 DEF LeerAprobar, TypeOK
    <2>2. HijoDe[resolucion[r].origen] \in Hijos
      BY <2>1, CierreAssumption DEF Fila
    <2>3. cierre[HijoDe[resolucion[r].origen]] \in EstadosCierre
      BY <2>2 DEF TypeOK
    <2>4. peticion' \in [Peticiones -> Lecturas]
      <3>1. [op |-> "ejecutar", res |-> r, fila |-> resolucion[r], nueva |-> FALSE,
             estado |-> cierre[HijoDe[resolucion[r].origen]]] \in Lecturas
        BY <2>1, <2>3 DEF Lecturas
      <3> QED BY <1>3, <3>1, RecordarTipo DEF LeerAprobar
    <2> QED BY <1>3, <2>4 DEF LeerAprobar, TypeOK
  <1>4. ASSUME NEW p \in Peticiones, NEW r \in Resoluciones, NEW fila \in Solicitudes,
               Registrar(p, r, fila)
        PROVE  TypeOK'
    <2>1. fila \in Fila /\ peticion[p].hijo \in Hijos
      BY <1>4, LecturaDeOperacion DEF Solicitudes, Registrar, TypeOK
    <2>2. cierre[peticion[p].hijo] \in EstadosCierre
      BY <2>1 DEF TypeOK
    <2>3. peticion' \in [Peticiones -> Lecturas]
      <3>1. [op |-> "ejecutar", res |-> r, fila |-> fila, nueva |-> TRUE,
             estado |-> cierre[peticion[p].hijo]] \in Lecturas
        BY <2>1, <2>2 DEF Lecturas
      <3>2. Libre \in Lecturas
        BY DEF Lecturas
      <3> QED BY <1>4, <3>1, <3>2, RecordarTipo DEF Registrar, Responder, Recordar
    <2>4. resolucion' \in [Resoluciones -> Fila \cup {Ninguna}]
      BY <1>4, <2>1 DEF Registrar, TypeOK
    <2> QED BY <1>4, <2>3, <2>4 DEF Registrar, TypeOK
  <1>5. ASSUME NEW p \in Peticiones, Ejecutar(p)
        PROVE  TypeOK'
    <2>1. /\ peticion[p].res \in Resoluciones
          /\ peticion[p].fila \in Fila
          /\ peticion[p].nueva \in BOOLEAN
          /\ peticion[p].estado \in EstadosCierre
      BY <1>5, LecturaDeOperacion DEF Ejecutar, TypeOK, EnCurso
    <2>2. Escritos(peticion[p].fila) \in [Cuentas -> Int]
      <3>1. Tras(peticion[p].fila) \in [Cuentas -> Int]
        BY <2>1, TrasEntero DEF TypeOK
      <3> QED BY <3>1 DEF Escritos
    <2>3. \A h, nuevo : Recalculado(peticion[p].estado, h, nuevo) \in EstadosCierre
      BY <2>1 DEF Recalculado, EstadosCierre
    <2>4. \A nuevo \in [Cuentas -> Int], e \in EstadosCierre :
             [op |-> "confirmar", res |-> peticion[p].res, fila |-> peticion[p].fila,
              nueva |-> peticion[p].nueva, nuevo |-> nuevo, estado |-> e] \in Lecturas
      BY <2>1 DEF Lecturas
    <2>5. peticion' \in [Peticiones -> Lecturas]
      BY <1>5, <2>2, <2>3, <2>4, RecordarTipo DEF Ejecutar
    <2> QED BY <1>5, <2>5 DEF Ejecutar, TypeOK
  <1>6. ASSUME NEW p \in Peticiones, Confirmar(p)
        PROVE  TypeOK'
    <2>1. /\ peticion[p].res \in Resoluciones
          /\ peticion[p].fila \in Fila
          /\ peticion[p].estado \in EstadosCierre
          /\ peticion[p].nuevo \in [Cuentas -> Int]
      BY <1>6, LecturaDeOperacion DEF Confirmar, TypeOK, EnCurso
    <2>2. [peticion[p].fila EXCEPT !.estado = "EJECUTADA"] \in Fila
      BY <2>1 DEF Fila, EstadosResolucion
    <2>3. resolucion' \in [Resoluciones -> Fila \cup {Ninguna}]
      BY <1>6, <2>1, <2>2 DEF Confirmar, TypeOK
    <2>4. saldo' \in [Cuentas -> Int]
      BY <1>6, <2>1 DEF Confirmar, TypeOK
    <2>5. libro' \in [Cuentas -> Int]
      BY <1>6, <2>1, EfectoEntero DEF Confirmar, TypeOK
    <2>6. movido' \in [Resoluciones -> [Cuentas -> Int]]
      <3>1. [c \in Cuentas |-> movido[peticion[p].res][c] + Efecto(peticion[p].fila, c)]
              \in [Cuentas -> Int]
        BY <2>1, EfectoEntero DEF TypeOK
      <3> QED BY <1>6, <2>1, <3>1 DEF Confirmar, TypeOK
    <2>7. cierre' \in [Hijos -> EstadosCierre]
      BY <1>6, <2>1 DEF Confirmar, TypeOK
    <2>8. peticion' \in [Peticiones -> Lecturas]
      BY <1>6 DEF Confirmar, Responder, TypeOK, Lecturas
    <2>9. pisado' \subseteq Cuentas /\ ediciones' \in 0 .. MaxEdiciones
      BY <1>6 DEF Confirmar, TypeOK
    <2> QED BY <2>3, <2>4, <2>5, <2>6, <2>7, <2>8, <2>9 DEF TypeOK
  <1>7. ASSUME NEW r \in Resoluciones, Rechazar(r)
        PROVE  TypeOK'
    <2>1. resolucion[r] \in Fila
      BY <1>7 DEF Rechazar, TypeOK
    <2>2. [resolucion[r] EXCEPT !.estado = "RECHAZADA"] \in Fila
      BY <2>1 DEF Fila, EstadosResolucion
    <2> QED BY <1>7, <2>2 DEF Rechazar, TypeOK
  <1>8. ASSUME NEW c \in Cuentas, NEW d \in {-1, 1}, MoverAjeno(c, d)
        PROVE  TypeOK'
    BY <1>8 DEF MoverAjeno, TypeOK
  <1>10. ASSUME NEW p \in Peticiones, NEW c \in Cuentas, LeerEditar(p, c)
         PROVE  TypeOK'
    <2>1. [op |-> "editar", cuenta |-> c, saldo |-> saldo[c]] \in Lecturas
      BY DEF TypeOK, Lecturas
    <2>2. peticion' \in [Peticiones -> Lecturas]
      BY <1>10, <2>1, RecordarTipo DEF LeerEditar
    <2> QED BY <1>10, <2>2 DEF LeerEditar, TypeOK
  <1>11. ASSUME NEW p \in Peticiones, GuardarEdicion(p)
         PROVE  TypeOK'
    <2>1. peticion[p].cuenta \in Cuentas /\ peticion[p].saldo \in Int
      BY <1>11, LecturaDeOperacion DEF GuardarEdicion, TypeOK
    <2>2. peticion' \in [Peticiones -> Lecturas]
      BY <1>11 DEF GuardarEdicion, Responder, TypeOK, Lecturas
    <2>3. saldo' \in [Cuentas -> Int] /\ pisado' \subseteq Cuentas
      BY <1>11, <2>1 DEF GuardarEdicion, TypeOK
    <2>4. ediciones' \in 0 .. MaxEdiciones
      BY <1>11, CierreAssumption DEF GuardarEdicion, TypeOK
    <2> QED BY <1>11, <2>2, <2>3, <2>4 DEF GuardarEdicion, TypeOK
  <1>9. CASE UNCHANGED vars
    BY <1>9 DEF vars, TypeOK
  <1> QED BY <1>1, <1>2, <1>3, <1>4, <1>5, <1>6, <1>7, <1>8, <1>9, <1>10, <1>11
          DEF Next

LEMMA TiposInicio == Init => TypeOK
  BY CierreAssumption DEF Init, TypeOK, EstadosCierre, Lecturas

\* Type correctness: every variable of the closings keeps its type.
THEOREM TypeCorrect == Spec => []TypeOK
  BY TiposInicio, TiposPaso, PTL DEF Spec

-----------------------------------------------------------------------------
(* Resolutions *)

\* What a request in progress knows of its resolution: it holds the row it is
\* about to insert, or one that exists, which stays SOLICITADA once it is locked.
LecturaFiel(q) ==
    EnCurso(q) =>
        LET r == peticion[q].res
            fila == peticion[q].fila
        IN  /\ peticion[q].nueva => resolucion[r] = Ninguna
            /\ ~peticion[q].nueva =>
                  resolucion[r] # Ninguna /\ resolucion[r].origen = fila.origen
            /\ peticion[q].op = "confirmar" /\ ~peticion[q].nueva =>
                  resolucion[r].estado = "SOLICITADA"

\* Nobody else holds a row that is being inserted or is locked
Exclusiva(q, s) ==
    EnCurso(q) /\ EnCurso(s) /\ peticion[q].res = peticion[s].res =>
        /\ ~peticion[q].nueva
        /\ peticion[q].op = "ejecutar" \/ peticion[s].op = "ejecutar"

\* The pockets a request has locked are as it found them
Vigente(q) ==
    peticion[q].op = "confirmar" =>
        /\ Valida(peticion[q].fila)
        /\ \A c \in Tocadas(peticion[q].fila) : peticion[q].nuevo[c] = Tras(peticion[q].fila)[c]

\* Two requests do not lock the same pocket
Disjuntas(q, s) ==
    peticion[q].op = "confirmar" /\ peticion[s].op = "confirmar" =>
        Tocadas(peticion[q].fila) \cap Tocadas(peticion[s].fila) = {}

ResolucionInv ==
    /\ \A q \in Peticiones : LecturaFiel(q) /\ Vigente(q)
    /\ \A q, s \in Peticiones : q # s => Exclusiva(q, s) /\ Disjuntas(q, s)

IInv == TypeOK /\ ResolucionInv /\ AsientoExacto

\* A step of one request that leaves resolutions and pockets alone, and after
\* which it executes nothing, disturbs nobody.
LEMMA SinEfecto ==
    ASSUME IInv, NEW p \in Peticiones, NEW lectura,
           peticion' = [peticion EXCEPT ![p] = lectura],
           lectura.op \notin {"ejecutar", "confirmar"},
           UNCHANGED <<saldo, libro, pisado, movido, resolucion>>
    PROVE  ResolucionInv' /\ AsientoExacto'
  <1>1. /\ \A q \in Peticiones \ {p} : peticion'[q] = peticion[q]
        /\ peticion'[p].op \notin {"ejecutar", "confirmar"}
    BY DEF IInv, TypeOK
  <1>2. AsientoExacto'
    BY DEF IInv, AsientoExacto, Efecto
  <1>3. \A q \in Peticiones : LecturaFiel(q)' /\ Vigente(q)'
    BY <1>1 DEF IInv, ResolucionInv, LecturaFiel, Vigente, EnCurso, Valida, Efecto, Tocadas,
              Tras, Sincroniza
  <1>4. \A q, s \in Peticiones : q # s => Exclusiva(q, s)' /\ Disjuntas(q, s)'
    BY <1>1 DEF IInv, ResolucionInv, Exclusiva, Disjuntas, EnCurso, Tocadas
  <1> QED BY <1>2, <1>3, <1>4 DEF ResolucionInv

\* Whatever a step does to one request, what the others know stays true as long
\* as their resolution and their pockets are as they were.
LEMMA Otras ==
    ASSUME IInv, NEW p \in Peticiones,
           \A q \in Peticiones \ {p} : peticion'[q] = peticion[q],
           \A q \in Peticiones \ {p} : EnCurso(q) =>
               \/ resolucion'[peticion[q].res] = resolucion[peticion[q].res]
               \/ /\ peticion[q].op = "ejecutar" /\ ~peticion[q].nueva
                  /\ resolucion'[peticion[q].res] # Ninguna
                  /\ resolucion'[peticion[q].res].origen = resolucion[peticion[q].res].origen,
           \A q \in Peticiones \ {p} : peticion[q].op = "confirmar" =>
               \A c \in Tocadas(peticion[q].fila) : saldo'[c] = saldo[c] /\ libro'[c] = libro[c]
    PROVE  \A q \in Peticiones \ {p} : LecturaFiel(q)' /\ Vigente(q)'
  <1> SUFFICES ASSUME NEW q \in Peticiones \ {p} PROVE LecturaFiel(q)' /\ Vigente(q)'
    OBVIOUS
  <1>1. LecturaFiel(q) /\ Vigente(q) /\ peticion'[q] = peticion[q]
    BY DEF IInv, ResolucionInv
  <1>2. LecturaFiel(q)'
    BY <1>1 DEF LecturaFiel, EnCurso
  <1>3. ASSUME peticion[q].op = "confirmar" PROVE Vigente(q)'
    <2>1. peticion[q].fila \in Fila
      BY <1>3, LecturaDeOperacion DEF EnCurso, IInv, TypeOK
    <2>2. peticion[q].fila.origen \in Tocadas(peticion[q].fila)
      BY <2>1 DEF Fila, Tocadas
    <2>3. peticion[q].fila.destino \in Cuentas => peticion[q].fila.destino \in Tocadas(peticion[q].fila)
      BY DEF Tocadas
    <2>4. Valida(peticion[q].fila)
      BY <1>1, <1>3 DEF Vigente
    <2>5. Valida(peticion[q].fila)'
      BY <1>1, <1>3, <2>2, <2>3, <2>4 DEF Valida, DelHijo
    <2>6. \A c \in Tocadas(peticion[q].fila) :
             Tras(peticion[q].fila)'[c] = Tras(peticion[q].fila)[c]
      BY <1>1, <1>3 DEF Tras, Sincroniza, Efecto, Tocadas
    <2> QED BY <1>1, <1>3, <2>5, <2>6 DEF Vigente, Tocadas
  <1> QED BY <1>1, <1>2, <1>3 DEF Vigente

\* The commit of an execution: the rows it locked are still as it found them.
LEMMA ConfirmarPaso ==
    ASSUME IInv, NEW p \in Peticiones, Confirmar(p)
    PROVE  ResolucionInv' /\ AsientoExacto'
  <1> USE DEF IInv
  <1>1. PICK r \in Resoluciones, fila \in Fila :
           /\ peticion[p].op = "confirmar" /\ EnCurso(p)
           /\ r = peticion[p].res /\ fila = peticion[p].fila
    BY LecturaDeOperacion DEF Confirmar, TypeOK, EnCurso
  <1>2. /\ resolucion' = [resolucion EXCEPT ![r] = [fila EXCEPT !.estado = "EJECUTADA"]]
        /\ saldo' = [c \in Cuentas |->
                        IF c \in Tocadas(fila) THEN peticion[p].nuevo[c] ELSE saldo[c]]
        /\ libro' = [c \in Cuentas |-> libro[c] + Efecto(fila, c)]
        /\ pisado' = pisado \ {c \in Tocadas(fila) : Sincroniza(fila, c)}
        /\ movido' = [movido EXCEPT ![r] = [c \in Cuentas |-> movido[r][c] + Efecto(fila, c)]]
        /\ peticion'[p].op = "libre"
        /\ \A q \in Peticiones \ {p} : peticion'[q] = peticion[q]
    BY <1>1 DEF Confirmar, Responder, Libre, TypeOK
  <1>3. /\ resolucion'[r] \in Fila /\ resolucion'[r].estado = "EJECUTADA"
        /\ resolucion'[r].origen = fila.origen
        /\ \A c \in Cuentas : Efecto(resolucion'[r], c) = Efecto(fila, c)
        /\ \A t \in Resoluciones \ {r} : resolucion'[t] = resolucion[t]
    BY <1>1, <1>2 DEF TypeOK, Fila, EstadosResolucion, Efecto
  <1>4. Ninguna \notin Fila
    BY DEF Ninguna, Fila, EstadosResolucion
  <1>5. /\ resolucion[r] = Ninguna \/ resolucion[r].estado = "SOLICITADA"
        /\ resolucion[r] # Ninguna => resolucion[r].origen = fila.origen
    BY <1>1 DEF ResolucionInv, LecturaFiel, TypeOK
  <1>6. \A c \in Cuentas : saldo'[c] = Tras(fila)[c]
    <2>1. \A c \in Tocadas(fila) : peticion[p].nuevo[c] = Tras(fila)[c]
      BY <1>1 DEF ResolucionInv, Vigente
    <2>2. \A c \in Cuentas \ Tocadas(fila) : Tras(fila)[c] = saldo[c]
      BY TrasEntero DEF TypeOK
    <2> QED BY <1>2, <2>1, <2>2
  <1>7. \A q \in Peticiones \ {p} : EnCurso(q) /\ peticion[q].res = r =>
           /\ peticion[q].op = "ejecutar" /\ ~peticion[q].nueva
           /\ resolucion[r].origen = fila.origen
    BY <1>1, <1>5 DEF ResolucionInv, Exclusiva, LecturaFiel
  <1>8. \A q \in Peticiones \ {p} : LecturaFiel(q)' /\ Vigente(q)'
    <2>1. \A q \in Peticiones \ {p} : EnCurso(q) => peticion[q].res \in Resoluciones
      BY LecturaDeOperacion DEF TypeOK
    <2>2. \A q \in Peticiones \ {p} : peticion[q].op = "confirmar" =>
             \A c \in Tocadas(peticion[q].fila) : saldo'[c] = saldo[c] /\ libro'[c] = libro[c]
      <3>1. \A c \in Cuentas \ Tocadas(fila) : Efecto(fila, c) = 0 /\ libro[c] \in Int
        BY EfectoEntero DEF TypeOK
      <3>2. \A q \in Peticiones \ {p} : peticion[q].op = "confirmar" =>
               Tocadas(peticion[q].fila) \subseteq Cuentas \ Tocadas(fila)
        BY <1>1 DEF ResolucionInv, Disjuntas, Tocadas
      <3>3. \A c \in Cuentas \ Tocadas(fila) : saldo'[c] = saldo[c] /\ libro'[c] = libro[c]
        BY <1>2, <3>1
      <3> QED BY <3>2, <3>3
    <2>3. ASSUME NEW q \in Peticiones \ {p}, EnCurso(q)
          PROVE  \/ resolucion'[peticion[q].res] = resolucion[peticion[q].res]
                 \/ /\ peticion[q].op = "ejecutar" /\ ~peticion[q].nueva
                    /\ resolucion'[peticion[q].res] # Ninguna
                    /\ resolucion'[peticion[q].res].origen = resolucion[peticion[q].res].origen
      BY <1>3, <1>4, <1>7, <2>1, <2>3
    <2> QED BY <1>2, <2>2, <2>3, Otras
  <1>9. LecturaFiel(p)' /\ Vigente(p)'
    BY <1>2 DEF LecturaFiel, Vigente, EnCurso
  <1>10. \A q, s \in Peticiones : q # s => Exclusiva(q, s)' /\ Disjuntas(q, s)'
    BY <1>2 DEF ResolucionInv, Exclusiva, Disjuntas, EnCurso, Tocadas
  <1>11. AsientoExacto'
    <2>1. ASSUME NEW c \in Cuentas, c \notin pisado' PROVE saldo'[c] = libro'[c]
      <3>1. saldo'[c] = Tras(fila)[c] /\ libro'[c] = libro[c] + Efecto(fila, c)
        BY <1>2, <1>6
      <3>2. CASE c \in Tocadas(fila) /\ Sincroniza(fila, c)
        BY <3>1, <3>2 DEF Tras
      <3>3. CASE ~(c \in Tocadas(fila) /\ Sincroniza(fila, c))
        <4>1. saldo[c] = libro[c]
          BY <1>2, <2>1, <3>3 DEF AsientoExacto
        <4>2. Tras(fila)[c] = saldo[c] + Efecto(fila, c)
          BY <3>3 DEF Tras
        <4> QED BY <3>1, <4>1, <4>2
      <3> QED BY <3>2, <3>3
    <2>2. ASSUME NEW c \in Cuentas PROVE movido'[r][c] = Efecto(resolucion'[r], c)
      <3>1. movido[r][c] = 0
        BY <1>5 DEF AsientoExacto
      <3>2. Efecto(fila, c) \in Int
        BY EfectoEntero
      <3>3. movido'[r][c] = movido[r][c] + Efecto(fila, c)
        BY <1>2 DEF TypeOK
      <3> QED BY <1>3, <3>1, <3>2, <3>3
    <2>3. ASSUME NEW t \in Resoluciones \ {r}, NEW c \in Cuentas
          PROVE  movido'[t][c] = movido[t][c] /\ resolucion'[t] = resolucion[t]
      BY <1>2, <1>3 DEF TypeOK
    <2> QED BY <1>3, <1>4, <2>1, <2>2, <2>3 DEF AsientoExacto, Efecto
  <1> QED BY <1>8, <1>9, <1>10, <1>11 DEF ResolucionInv

\* A pocket that nobody has locked may move without disturbing any execution.
LEMMA MoverBolsillo ==
    ASSUME IInv, NEW c \in Cuentas, ~BolsilloBloqueado(c), UNCHANGED <<movido, resolucion>>,
           \A b \in Cuentas \ {c} : saldo'[b] = saldo[b] /\ libro'[b] = libro[b],
           \A q \in Peticiones : peticion'[q] = peticion[q] \/ peticion'[q].op = "libre"
    PROVE  ResolucionInv'
  <1> USE DEF IInv
  <1>1. ASSUME NEW q \in Peticiones, peticion[q].op = "confirmar", peticion'[q] = peticion[q]
        PROVE  Vigente(q)'
    <2>1. peticion[q].fila \in Fila /\ Vigente(q)
      BY <1>1, LecturaDeOperacion DEF EnCurso, TypeOK, ResolucionInv
    <2>2. \A b \in Tocadas(peticion[q].fila) : saldo'[b] = saldo[b] /\ libro'[b] = libro[b]
      BY <1>1 DEF BolsilloBloqueado, Tocadas
    <2>3. peticion[q].fila.origen \in Tocadas(peticion[q].fila)
      BY <2>1 DEF Fila, Tocadas
    <2>4. peticion[q].fila.destino \in Cuentas =>
             peticion[q].fila.destino \in Tocadas(peticion[q].fila)
      BY DEF Tocadas
    <2>5. Valida(peticion[q].fila)'
      BY <1>1, <2>1, <2>2, <2>3, <2>4 DEF Vigente, Valida, DelHijo
    <2>6. \A b \in Tocadas(peticion[q].fila) :
             Tras(peticion[q].fila)'[b] = Tras(peticion[q].fila)[b]
      BY <1>1, <2>2 DEF Tras, Sincroniza, Efecto, Tocadas
    <2> QED BY <1>1, <2>1, <2>5, <2>6 DEF Vigente, Tocadas
  <1>2. \A q \in Peticiones : LecturaFiel(q)' /\ Vigente(q)'
    BY <1>1 DEF ResolucionInv, LecturaFiel, Vigente, EnCurso
  <1>3. \A q, s \in Peticiones : q # s => Exclusiva(q, s)' /\ Disjuntas(q, s)'
    BY DEF ResolucionInv, Exclusiva, Disjuntas, EnCurso, Tocadas
  <1> QED BY <1>2, <1>3 DEF ResolucionInv

\* The invariant of the resolutions is kept by every step.
LEMMA ResolucionPaso == IInv /\ [Next]_vars => ResolucionInv' /\ AsientoExacto'
  <1> SUFFICES ASSUME IInv, [Next]_vars PROVE ResolucionInv' /\ AsientoExacto'
    OBVIOUS
  <1> USE DEF IInv
  <1>1. ASSUME NEW p \in Peticiones, NEW h \in Egresados,
               LeerAbrir(p, h) \/ LeerCerrar(p, h) \/ LeerRegistrar(p, h)
        PROVE  ResolucionInv' /\ AsientoExacto'
    BY <1>1, SinEfecto DEF LeerAbrir, LeerCerrar, LeerRegistrar, Recordar
  <1>2. ASSUME NEW p \in Peticiones, Abrir(p) \/ Cerrar(p) \/ Deshacer(p)
        PROVE  ResolucionInv' /\ AsientoExacto'
    BY <1>2, SinEfecto DEF Abrir, Cerrar, Deshacer, Responder, Libre
  <1>3. ASSUME NEW p \in Peticiones, NEW r \in Resoluciones, LeerAprobar(p, r)
        PROVE  ResolucionInv' /\ AsientoExacto'
    <2>1. /\ peticion'[p].op = "ejecutar" /\ peticion'[p].res = r /\ ~peticion'[p].nueva
          /\ peticion'[p].fila = resolucion[r]
          /\ \A q \in Peticiones \ {p} : peticion'[q] = peticion[q]
          /\ UNCHANGED <<saldo, libro, pisado, movido, resolucion>>
      BY <1>3 DEF LeerAprobar, Recordar, TypeOK
    <2>2. resolucion[r] # Ninguna
      BY <1>3 DEF LeerAprobar
    <2>3. \A q \in Peticiones \ {p} : LecturaFiel(q)' /\ Vigente(q)'
      BY <2>1, Otras
    <2>4. LecturaFiel(p)' /\ Vigente(p)'
      BY <2>1, <2>2 DEF LecturaFiel, Vigente
    <2>5. \A q, s \in Peticiones : q # s => Exclusiva(q, s)' /\ Disjuntas(q, s)'
      BY <2>1, <2>2 DEF ResolucionInv, Exclusiva, Disjuntas, EnCurso, LecturaFiel, Tocadas
    <2>6. AsientoExacto'
      BY <2>1 DEF AsientoExacto, Efecto
    <2> QED BY <2>3, <2>4, <2>5, <2>6 DEF ResolucionInv
  <1>4. ASSUME NEW p \in Peticiones, NEW r \in Resoluciones, NEW fila \in Solicitudes,
               Registrar(p, r, fila)
        PROVE  ResolucionInv' /\ AsientoExacto'
    <2>1. /\ UNCHANGED <<saldo, libro, pisado, movido>>
          /\ resolucion[r] = Ninguna
          /\ \A q \in Peticiones : EnCurso(q) => peticion[q].res # r
          /\ \A q \in Peticiones \ {p} : peticion'[q] = peticion[q]
          /\ ~EnCurso(p)
      BY <1>4 DEF Registrar, IdLibre, Recordar, Responder, TypeOK, EnCurso
    <2>2. CASE resolucion' = [resolucion EXCEPT ![r] = fila] /\ Responder(p)
      <3>1. /\ peticion'[p].op = "libre"
            /\ resolucion'[r] = fila
            /\ \A t \in Resoluciones \ {r} : resolucion'[t] = resolucion[t]
        BY <2>2 DEF Responder, Libre, TypeOK
      <3>2. \A q \in Peticiones : EnCurso(q) => peticion[q].res \in Resoluciones
        BY LecturaDeOperacion DEF TypeOK
      <3>3. \A q \in Peticiones \ {p} : LecturaFiel(q)' /\ Vigente(q)'
        BY <2>1, <3>1, <3>2, Otras
      <3>4. LecturaFiel(p)' /\ Vigente(p)'
        BY <3>1 DEF LecturaFiel, Vigente, EnCurso
      <3>5. \A q, s \in Peticiones : q # s => Exclusiva(q, s)' /\ Disjuntas(q, s)'
        BY <2>1, <3>1 DEF ResolucionInv, Exclusiva, Disjuntas, EnCurso, Tocadas
      <3>6. AsientoExacto'
        <4>1. fila \in Fila /\ fila.estado = "SOLICITADA"
          BY DEF Solicitudes
        <4>2. \A c \in Cuentas : movido[r][c] = 0
          BY <2>1 DEF AsientoExacto
        <4> QED BY <2>1, <3>1, <4>1, <4>2 DEF AsientoExacto, Efecto
      <3> QED BY <3>3, <3>4, <3>5, <3>6 DEF ResolucionInv
    <2>3. CASE /\ peticion'[p].op = "ejecutar" /\ peticion'[p].res = r /\ peticion'[p].nueva
               /\ UNCHANGED resolucion
      <3>1. \A q \in Peticiones \ {p} : LecturaFiel(q)' /\ Vigente(q)'
        BY <2>1, <2>3, Otras
      <3>2. LecturaFiel(p)' /\ Vigente(p)'
        BY <2>1, <2>3 DEF LecturaFiel, Vigente
      <3>3. \A q, s \in Peticiones : q # s => Exclusiva(q, s)' /\ Disjuntas(q, s)'
        BY <2>1, <2>3 DEF ResolucionInv, Exclusiva, Disjuntas, EnCurso, Tocadas
      <3>4. AsientoExacto'
        BY <2>1, <2>3 DEF AsientoExacto, Efecto
      <3> QED BY <3>1, <3>2, <3>3, <3>4 DEF ResolucionInv
    <2> QED BY <1>4, <2>2, <2>3 DEF Registrar, Recordar, TypeOK
  <1>5. ASSUME NEW p \in Peticiones, Ejecutar(p)
        PROVE  ResolucionInv' /\ AsientoExacto'
    <2>1. /\ peticion[p].op = "ejecutar" /\ EnCurso(p)
          /\ peticion[p].res \in Resoluciones /\ peticion[p].fila \in Fila
          /\ peticion'[p].op = "confirmar"
          /\ peticion'[p].res = peticion[p].res
          /\ peticion'[p].fila = peticion[p].fila
          /\ peticion'[p].nueva = peticion[p].nueva
          /\ \A q \in Peticiones \ {p} : peticion'[q] = peticion[q]
          /\ UNCHANGED <<saldo, libro, pisado, movido, resolucion>>
      BY <1>5, LecturaDeOperacion DEF Ejecutar, Recordar, TypeOK, EnCurso
    <2>2. /\ Valida(peticion[p].fila)
          /\ ~ResolucionBloqueada(peticion[p].res)
          /\ peticion[p].nueva \/ SiguePendiente(peticion[p].res)
          /\ \A c \in Tocadas(peticion[p].fila) : ~BolsilloBloqueado(c)
          /\ peticion'[p].nuevo = Escritos(peticion[p].fila)
      BY <1>5 DEF Ejecutar, Recordar, TypeOK
    <2>3. \A q \in Peticiones \ {p} : LecturaFiel(q)' /\ Vigente(q)'
      BY <2>1, Otras
    <2>4. LecturaFiel(p)'
      BY <2>1, <2>2 DEF ResolucionInv, LecturaFiel, EnCurso, SiguePendiente
    <2>5. Vigente(p)'
      <3>1. Valida(peticion[p].fila)'
        BY <2>1, <2>2 DEF Valida, DelHijo
      <3>2. Tras(peticion[p].fila)' = Tras(peticion'[p].fila)
        BY <2>1 DEF Tras, Sincroniza, Efecto, Tocadas
      <3>3. Tras(peticion'[p].fila) = Tras(peticion[p].fila)
        BY <2>1
      <3> QED BY <2>1, <2>2, <3>1, <3>2, <3>3 DEF Vigente, Escritos, Tocadas, Valida, DelHijo
    <2>6. \A q, s \in Peticiones : q # s => Exclusiva(q, s)'
      BY <2>1, <2>2 DEF ResolucionInv, Exclusiva, EnCurso, ResolucionBloqueada
    <2>7. \A q, s \in Peticiones : q # s => Disjuntas(q, s)'
      BY <2>1, <2>2 DEF ResolucionInv, Disjuntas, BolsilloBloqueado, Tocadas
    <2>8. AsientoExacto'
      BY <2>1 DEF AsientoExacto, Efecto
    <2> QED BY <2>3, <2>4, <2>5, <2>6, <2>7, <2>8 DEF ResolucionInv
  <1>6. ASSUME NEW p \in Peticiones, Confirmar(p)
        PROVE  ResolucionInv' /\ AsientoExacto'
    BY <1>6, ConfirmarPaso
  <1>7. ASSUME NEW r \in Resoluciones, Rechazar(r)
        PROVE  ResolucionInv' /\ AsientoExacto'
    <2>1. /\ UNCHANGED <<saldo, libro, pisado, movido, peticion>>
          /\ resolucion[r] \in Fila /\ resolucion[r].estado = "SOLICITADA"
          /\ resolucion' = [resolucion EXCEPT ![r] = [resolucion[r] EXCEPT !.estado = "RECHAZADA"]]
          /\ ~ResolucionBloqueada(r)
      BY <1>7 DEF Rechazar, TypeOK
    <2>2. /\ resolucion'[r] \in Fila /\ resolucion'[r].estado = "RECHAZADA"
          /\ resolucion'[r].origen = resolucion[r].origen
          /\ \A t \in Resoluciones \ {r} : resolucion'[t] = resolucion[t]
      BY <2>1 DEF TypeOK, Fila, EstadosResolucion
    <2>3. Ninguna \notin Fila
      BY DEF Ninguna, Fila, EstadosResolucion
    <2>4. \A q \in Peticiones : EnCurso(q) /\ peticion[q].res = r =>
             peticion[q].op = "ejecutar" /\ ~peticion[q].nueva
      BY <2>1, <2>3 DEF ResolucionInv, LecturaFiel, EnCurso, ResolucionBloqueada
    <2>5. \A q \in Peticiones : LecturaFiel(q)'
      <3> SUFFICES ASSUME NEW q \in Peticiones, EnCurso(q) PROVE LecturaFiel(q)'
        BY <2>1 DEF LecturaFiel, EnCurso
      <3>1. LecturaFiel(q) /\ peticion[q].res \in Resoluciones
        BY LecturaDeOperacion DEF ResolucionInv, TypeOK
      <3> QED BY <2>1, <2>2, <2>3, <2>4, <3>1 DEF LecturaFiel, EnCurso
    <2>6. \A q \in Peticiones : Vigente(q)'
      BY <2>1 DEF ResolucionInv, Vigente, Valida, Efecto, Tocadas, DelHijo, Tras, Sincroniza
    <2>7. \A q, s \in Peticiones : q # s => Exclusiva(q, s)' /\ Disjuntas(q, s)'
      BY <2>1 DEF ResolucionInv, Exclusiva, Disjuntas, EnCurso, Tocadas
    <2>8. AsientoExacto'
      <3>1. \A c \in Cuentas : movido[r][c] = 0
        BY <2>1 DEF AsientoExacto
      <3> QED BY <2>1, <2>2, <3>1 DEF AsientoExacto, Efecto
    <2> QED BY <2>5, <2>6, <2>7, <2>8 DEF ResolucionInv
  <1>8. ASSUME NEW c \in Cuentas, NEW d \in {-1, 1}, MoverAjeno(c, d)
        PROVE  ResolucionInv' /\ AsientoExacto'
    <2>1. /\ UNCHANGED <<movido, resolucion, peticion>>
          /\ ~BolsilloBloqueado(c)
          /\ saldo'[c] = libro'[c]
          /\ pisado' = pisado \ {c}
          /\ \A b \in Cuentas \ {c} : saldo'[b] = saldo[b] /\ libro'[b] = libro[b]
      BY <1>8 DEF MoverAjeno, TypeOK
    <2>2. ResolucionInv'
      BY <2>1, MoverBolsillo
    <2>3. AsientoExacto'
      BY <2>1 DEF AsientoExacto, Efecto
    <2> QED BY <2>2, <2>3
  <1>10. ASSUME NEW p \in Peticiones, NEW c \in Cuentas, LeerEditar(p, c)
         PROVE  ResolucionInv' /\ AsientoExacto'
    BY <1>10, SinEfecto DEF LeerEditar, Recordar
  <1>11. ASSUME NEW p \in Peticiones, GuardarEdicion(p)
         PROVE  ResolucionInv' /\ AsientoExacto'
    <2>1. PICK c \in Cuentas : c = peticion[p].cuenta
      BY <1>11, LecturaDeOperacion DEF GuardarEdicion, TypeOK
    <2>2. /\ UNCHANGED <<libro, movido, resolucion>>
          /\ ~BolsilloBloqueado(c)
          /\ \A q \in Peticiones : peticion'[q] = peticion[q] \/ peticion'[q].op = "libre"
          /\ c \in pisado' \/ saldo'[c] = saldo[c]
          /\ pisado \subseteq pisado'
          /\ \A b \in Cuentas \ {c} : saldo'[b] = saldo[b]
      BY <1>11, <2>1 DEF GuardarEdicion, Responder, Libre, TypeOK
    <2>3. ResolucionInv'
      BY <2>2, MoverBolsillo
    <2>4. AsientoExacto'
      BY <2>2 DEF AsientoExacto, Efecto
    <2> QED BY <2>3, <2>4
  <1>9. CASE UNCHANGED vars
    <2>1. \A fila : Tras(fila)' = Tras(fila)
      BY <1>9 DEF vars, Tras, Sincroniza, Efecto, Tocadas
    <2>2. ResolucionInv'
      BY <1>9, <2>1 DEF vars, ResolucionInv, LecturaFiel, Vigente, Exclusiva, Disjuntas,
                        EnCurso, Valida, Tocadas, DelHijo
    <2>3. AsientoExacto'
      BY <1>9 DEF vars, AsientoExacto, Efecto
    <2> QED BY <2>2, <2>3
  <1> QED BY <1>1, <1>2, <1>3, <1>4, <1>5, <1>6, <1>7, <1>8, <1>9, <1>10, <1>11 DEF Next

LEMMA IInvSiempre == Spec => []IInv
  <1>1. Init => IInv
    BY TiposInicio DEF Init, IInv, ResolucionInv, LecturaFiel, Vigente,
           Exclusiva, Disjuntas, EnCurso, Libre, AsientoExacto, Ninguna
  <1>2. IInv /\ [Next]_vars => IInv'
    BY TiposPaso, ResolucionPaso DEF IInv
  <1> QED BY <1>1, <1>2, PTL DEF Spec

\* An executed resolution has moved its pockets exactly once, any other one not
\* at all, and no movement is lost under it.
THEOREM AsientoSeguro == Spec => []AsientoExacto
  <1>1. IInv => AsientoExacto
    BY DEF IInv
  <1> QED BY <1>1, IInvSiempre, PTL

-----------------------------------------------------------------------------
(* Action properties *)

\* Only the commit of an execution makes a resolution EJECUTADA, and it finds the
\* pockets as they were when it validated them under their locks.
THEOREM HaciaCeroSeguro == Spec => HaciaCero
  <1>1. ASSUME IInv, [Next]_vars, NEW r \in Resoluciones,
               resolucion[r] # resolucion'[r], resolucion'[r].estado = "EJECUTADA"
        PROVE  LET fila == resolucion'[r]
               IN  /\ Fiable(fila, fila.origen) =>
                         /\ saldo'[fila.origen] = saldo[fila.origen] + Efecto(fila, fila.origen)
                         /\ IF fila.tipo \in Salidas THEN saldo'[fila.origen] >= 0
                                                     ELSE saldo'[fila.origen] <= 0
                   /\ fila.tipo = "COMPENSACION" /\ Fiable(fila, fila.destino) =>
                         saldo'[fila.destino] <= 0
    <2>1. PICK p \in Peticiones : Confirmar(p) /\ peticion[p].res = r
      <3>1. ASSUME NEW p \in Peticiones, NEW t \in Resoluciones, NEW fila \in Solicitudes,
                   Registrar(p, t, fila)
            PROVE  FALSE
        <4>1. fila.estado = "SOLICITADA"
          BY DEF Solicitudes
        <4> QED BY <1>1, <3>1, <4>1 DEF Registrar, IInv, TypeOK
      <3>2. ASSUME NEW t \in Resoluciones, Rechazar(t)
            PROVE  FALSE
        <4>1. resolucion[t] \in Fila
          BY <1>1, <3>2 DEF Rechazar, IInv, TypeOK
        <4>2. [resolucion[t] EXCEPT !.estado = "RECHAZADA"].estado = "RECHAZADA"
          BY <4>1 DEF Fila
        <4> QED BY <1>1, <3>2, <4>2 DEF Rechazar, IInv, TypeOK
      <3>3. ASSUME UNCHANGED resolucion PROVE FALSE
        BY <1>1, <3>3
      <3>4. PICK p \in Peticiones : Confirmar(p)
        BY <1>1, <3>1, <3>2, <3>3
        DEF Next, LeerAbrir, LeerCerrar, LeerRegistrar, Abrir, Cerrar, Ejecutar, Deshacer,
            LeerAprobar, MoverAjeno, LeerEditar, GuardarEdicion, vars
      <3>5. peticion[p].res = r
        BY <1>1, <3>4 DEF Confirmar, IInv, TypeOK
      <3> QED BY <3>4, <3>5
    <2>2. PICK fila \in Fila : fila = peticion[p].fila /\ peticion[p].op = "confirmar"
      BY <1>1, <2>1, LecturaDeOperacion DEF Confirmar, IInv, TypeOK, EnCurso
    <2>3. resolucion'[r] = [fila EXCEPT !.estado = "EJECUTADA"]
      BY <1>1, <2>1, <2>2 DEF Confirmar, IInv, TypeOK
    <2>4. /\ resolucion'[r].origen = fila.origen /\ resolucion'[r].destino = fila.destino
          /\ resolucion'[r].tipo = fila.tipo /\ resolucion'[r].monto = fila.monto
          /\ fila.origen \in Cuentas /\ fila.monto \in Nat
      <3>1. fila.monto \in Montos /\ fila.origen \in Cuentas
        BY DEF Fila
      <3>2. fila.monto \in Nat
        BY <3>1, CierreAssumption
      <3> QED BY <2>3, <3>1, <3>2 DEF Fila
    <2>5. Vigente(p)
      BY <1>1 DEF IInv, ResolucionInv
    <2>6. ASSUME NEW c \in Tocadas(fila), Fiable(fila, c)
          PROVE  saldo'[c] = saldo[c] + Efecto(fila, c) /\ saldo[c] \in Int
      <3>1. c \in Cuentas
        BY DEF Tocadas
      <3>2. saldo'[c] = Tras(fila)[c]
        BY <1>1, <2>1, <2>2, <2>5, <3>1 DEF Confirmar, Vigente, IInv, TypeOK
      <3>3. Tras(fila)[c] = saldo[c] + Efecto(fila, c)
        BY <1>1, <2>6, <3>1 DEF Tras, Fiable, IInv, AsientoExacto
      <3> QED BY <1>1, <3>1, <3>2, <3>3 DEF IInv, TypeOK
    <2>7. Valida(fila)
      BY <2>2, <2>5 DEF Vigente
    <2>8. fila.origen \in Tocadas(fila)
      BY <2>4 DEF Tocadas
    <2>9. ASSUME Fiable(fila, fila.origen)
          PROVE  /\ saldo'[fila.origen] = saldo[fila.origen] + Efecto(fila, fila.origen)
                 /\ IF fila.tipo \in Salidas THEN saldo'[fila.origen] >= 0
                                             ELSE saldo'[fila.origen] <= 0
      <3>1. IF fila.tipo \in Salidas THEN fila.monto <= saldo[fila.origen]
                                     ELSE fila.monto <= -saldo[fila.origen]
        BY <2>7 DEF Valida
      <3>2. Efecto(fila, fila.origen) = IF fila.tipo \in Salidas THEN -fila.monto ELSE fila.monto
        BY DEF Efecto
      <3>3. /\ saldo'[fila.origen] = saldo[fila.origen] + Efecto(fila, fila.origen)
            /\ saldo[fila.origen] \in Int
        BY <2>6, <2>8, <2>9
      <3> QED BY <2>4, <3>1, <3>2, <3>3
    <2>10. ASSUME fila.tipo = "COMPENSACION", Fiable(fila, fila.destino)
           PROVE  saldo'[fila.destino] <= 0
      <3>1. /\ fila.destino \in Tocadas(fila) /\ fila.destino # fila.origen
            /\ fila.monto <= -saldo[fila.destino]
        BY <2>7, <2>10 DEF Valida, Tocadas, DelHijo
      <3>2. saldo'[fila.destino] = saldo[fila.destino] + fila.monto /\ saldo[fila.destino] \in Int
        BY <2>6, <2>10, <3>1 DEF Efecto
      <3> QED BY <2>4, <3>1, <3>2
    <2>11. /\ Efecto(resolucion'[r], fila.origen) = Efecto(fila, fila.origen)
           /\ \A c \in {fila.origen, fila.destino} : Fiable(resolucion'[r], c) => Fiable(fila, c)
      BY <2>4 DEF Efecto, Fiable, Sincroniza
    <2> QED BY <2>4, <2>9, <2>10, <2>11
  <1>2. ASSUME IInv, [Next]_vars
        PROVE  [\A r \in Resoluciones :
                   LET fila == resolucion'[r]
                   IN  resolucion[r] # fila /\ fila.estado = "EJECUTADA" =>
                         /\ Fiable(fila, fila.origen) =>
                               /\ saldo'[fila.origen] =
                                     saldo[fila.origen] + Efecto(fila, fila.origen)
                               /\ IF fila.tipo \in Salidas THEN saldo'[fila.origen] >= 0
                                                           ELSE saldo'[fila.origen] <= 0
                         /\ fila.tipo = "COMPENSACION" /\ Fiable(fila, fila.destino) =>
                               saldo'[fila.destino] <= 0]_vars
    BY <1>1, <1>2
  <1> QED BY <1>2, IInvSiempre, PTL DEF Spec, HaciaCero

-----------------------------------------------------------------------------
(* Who writes over a closing with balances *)

\* Whoever executes a resolution that is not new, of a closing that is closed or
\* about to be, and read it open will find the resolution decided
Tardia(q, h) ==
    EnCurso(q) /\ ~peticion[q].nueva /\ HijoDe[peticion[q].fila.origen] = h =>
        \/ peticion[q].estado = "CERRADO_CON_SALDO"
        \/ peticion[q].op = "ejecutar" /\ ~SiguePendiente(peticion[q].res)

Definitivo(h) == cierre[h] = "CERRADO_CON_SALDO" \/ CierreBloqueado(h)

Firme(h) ==
    /\ CierreBloqueado(h) => SinPendientes(h)
    /\ Definitivo(h) => \A q \in Peticiones : Tardia(q, h)

AbreSinCerrar(q) == peticion[q].op = "abrir" => peticion[q].estado # "CERRADO_CON_SALDO"

FirmeInv ==
    /\ \A h \in Hijos : Firme(h)
    /\ \A q \in Peticiones : AbreSinCerrar(q)

\* A decided resolution stays decided, a new one under a locked closing is not
\* pending, and the request that moved is itself late: then so is everybody.
LEMMA FirmeOtras ==
    ASSUME IInv, FirmeInv, NEW p \in Peticiones, NEW h \in Hijos,
           \A q \in Peticiones \ {p} : peticion'[q] = peticion[q],
           peticion'[p].op # "cerrar",
           cierre'[h] = "CERRADO_CON_SALDO" => Definitivo(h),
           \A t \in Resoluciones : resolucion[t] # Ninguna =>
               \/ resolucion'[t] = resolucion[t]
               \/ resolucion'[t].estado # "SOLICITADA",
           \A t \in Resoluciones :
               resolucion[t] = Ninguna /\ resolucion'[t] # Ninguna =>
                   \/ resolucion'[t].estado # "SOLICITADA"
                   \/ HijoDe[resolucion'[t].origen] # h
                   \/ ~CierreBloqueado(h),
           Definitivo(h) => Tardia(p, h)'
    PROVE  Firme(h)'
  <1>1. Firme(h)
    BY DEF FirmeInv
  <1>2. CierreBloqueado(h)' => CierreBloqueado(h)
    BY DEF CierreBloqueado
  <1>3. (CierreBloqueado(h) => SinPendientes(h))'
    BY <1>1, <1>2 DEF Firme, SinPendientes
  <1>4. ASSUME Definitivo(h), NEW q \in Peticiones \ {p} PROVE Tardia(q, h)'
    <2>1. Tardia(q, h) /\ LecturaFiel(q) /\ peticion'[q] = peticion[q]
      BY <1>1, <1>4 DEF Firme, IInv, ResolucionInv
    <2>2. EnCurso(q) => peticion[q].res \in Resoluciones
      BY LecturaDeOperacion DEF IInv, TypeOK
    <2> QED BY <2>1, <2>2 DEF Tardia, EnCurso, LecturaFiel, SiguePendiente
  <1>5. Definitivo(h)' => Definitivo(h)
    BY <1>2 DEF Definitivo
  <1> QED BY <1>3, <1>4, <1>5 DEF Firme

\* When cerrar_con_saldo locks the closing, nothing of it is pending: whoever is
\* still executing a resolution that is not new will find it decided.
LEMMA LeerCerrarFirme ==
    ASSUME IInv, FirmeInv, NEW p \in Peticiones, NEW g \in Egresados, LeerCerrar(p, g),
           NEW h \in Hijos
    PROVE  Firme(h)'
  <1> USE DEF IInv
  <1>1. /\ peticion'[p].op = "cerrar" /\ peticion'[p].hijo = g
        /\ \A q \in Peticiones \ {p} : peticion'[q] = peticion[q]
        /\ peticion[p] = Libre
        /\ UNCHANGED <<cierre, resolucion>>
    BY DEF LeerCerrar, Recordar, TypeOK
  <1>2. SinPendientes(h)' <=> SinPendientes(h)
    BY <1>1 DEF SinPendientes
  <1>3. ASSUME NEW q \in Peticiones PROVE Tardia(q, h) => Tardia(q, h)'
    BY <1>1 DEF Tardia, EnCurso, SiguePendiente
  <1>4. CASE h = g
    <2>1. SinPendientes(h)
      BY <1>4 DEF LeerCerrar
    <2>2. ASSUME NEW q \in Peticiones, EnCurso(q), ~peticion[q].nueva,
                 HijoDe[peticion[q].fila.origen] = h
          PROVE  peticion[q].op = "ejecutar" /\ ~SiguePendiente(peticion[q].res)
      <3>1. peticion[q].res \in Resoluciones /\ LecturaFiel(q)
        BY <2>2, LecturaDeOperacion DEF TypeOK, ResolucionInv
      <3>2. /\ resolucion[peticion[q].res] # Ninguna
            /\ HijoDe[resolucion[peticion[q].res].origen] = h
        BY <2>2, <3>1 DEF LecturaFiel
      <3>3. ~SiguePendiente(peticion[q].res)
        BY <2>1, <3>1, <3>2 DEF SinPendientes, SiguePendiente
      <3> QED BY <2>2, <3>1, <3>3 DEF LecturaFiel, SiguePendiente, EnCurso
    <2>3. \A q \in Peticiones : Tardia(q, h)
      BY <2>2 DEF Tardia
    <2> QED BY <1>2, <1>3, <2>1, <2>3 DEF Firme
  <1>5. CASE h # g
    <2>1. CierreBloqueado(h)' => CierreBloqueado(h)
      BY <1>1, <1>5 DEF CierreBloqueado
    <2> QED BY <1>1, <1>2, <1>3, <2>1 DEF Firme, FirmeInv, Definitivo
  <1> QED BY <1>4, <1>5

\* The commit of an execution that is not new does not reopen a closing: had it
\* read it open, it would have been stopped when it looked at its resolution again.
LEMMA ConfirmarFirme ==
    ASSUME IInv, FirmeInv, NEW p \in Peticiones, Confirmar(p), NEW h \in Hijos
    PROVE  /\ Firme(h)'
           /\ cierre[h] = "CERRADO_CON_SALDO" /\ cierre'[h] # "CERRADO_CON_SALDO" =>
                 peticion[p].nueva /\ HijoDe[peticion[p].fila.origen] = h
           /\ cierre'[h] = "CERRADO_CON_SALDO" => cierre[h] = "CERRADO_CON_SALDO"
  <1> USE DEF IInv
  <1>1. PICK r \in Resoluciones, fila \in Fila :
           /\ peticion[p].op = "confirmar" /\ EnCurso(p)
           /\ r = peticion[p].res /\ fila = peticion[p].fila
    BY LecturaDeOperacion DEF Confirmar, TypeOK, EnCurso
  <1>2. /\ peticion'[p].op = "libre"
        /\ \A q \in Peticiones \ {p} : peticion'[q] = peticion[q]
        /\ resolucion' = [resolucion EXCEPT ![r] = [fila EXCEPT !.estado = "EJECUTADA"]]
    BY <1>1 DEF Confirmar, Responder, Libre, TypeOK
  <1>3. /\ resolucion'[r].estado = "EJECUTADA"
        /\ \A t \in Resoluciones \ {r} : resolucion'[t] = resolucion[t]
    BY <1>1, <1>2 DEF TypeOK, Fila
  <1>4. /\ cierre[h] = "CERRADO_CON_SALDO" /\ cierre'[h] # "CERRADO_CON_SALDO" =>
              peticion[p].nueva /\ HijoDe[fila.origen] = h
        /\ cierre'[h] = "CERRADO_CON_SALDO" => cierre[h] = "CERRADO_CON_SALDO"
    <2>1. CASE peticion[p].estado = "CERRADO_CON_SALDO"
      BY <2>1 DEF Confirmar
    <2>2. CASE peticion[p].estado # "CERRADO_CON_SALDO"
      <3>1. cierre' = [cierre EXCEPT ![HijoDe[fila.origen]] = peticion[p].estado]
        BY <1>1, <2>2 DEF Confirmar
      <3>2. HijoDe[fila.origen] = h => peticion[p].nueva \/ ~Definitivo(h)
        BY <1>1, <2>2 DEF FirmeInv, Firme, Tardia
      <3> QED BY <2>2, <3>1, <3>2 DEF TypeOK, Definitivo
    <2> QED BY <2>1, <2>2
  <1>5. Tardia(p, h)'
    BY <1>2 DEF Tardia, EnCurso
  <1>6. Firme(h)'
    BY <1>2, <1>3, <1>4, <1>5, FirmeOtras DEF Definitivo
  <1> QED BY <1>1, <1>4, <1>6

\* An execution that holds its resolution is not late with an open closing.
LEMMA EjecutarFirme ==
    ASSUME IInv, FirmeInv, NEW p \in Peticiones, Ejecutar(p), NEW h \in Hijos
    PROVE  Firme(h)'
  <1> USE DEF IInv
  <1>1. /\ EnCurso(p) /\ peticion[p].op = "ejecutar"
        /\ peticion[p].nueva \/ SiguePendiente(peticion[p].res)
    BY DEF Ejecutar, EnCurso
  <1>2. /\ peticion'[p].op = "confirmar" /\ peticion'[p].fila = peticion[p].fila
        /\ peticion'[p].nueva = peticion[p].nueva
        /\ \A q \in Peticiones \ {p} : peticion'[q] = peticion[q]
        /\ UNCHANGED <<cierre, resolucion>>
    BY DEF Ejecutar, Recordar, TypeOK
  <1>3. peticion[p].estado = "CERRADO_CON_SALDO" => peticion'[p].estado = "CERRADO_CON_SALDO"
    BY DEF Ejecutar, Recordar, Recalculado, TypeOK
  <1>4. Definitivo(h) => Tardia(p, h)'
    <2>1. Definitivo(h) => Tardia(p, h)
      BY DEF FirmeInv, Firme
    <2> QED BY <1>1, <1>2, <1>3, <2>1 DEF Tardia
  <1> QED BY <1>2, <1>4, FirmeOtras DEF Definitivo

\* Whoever approves a resolution finds none pending under a closing that is being
\* closed, and reads a closed one closed.
LEMMA EmpezarFirme ==
    ASSUME IInv, FirmeInv, NEW p \in Peticiones, NEW r \in Resoluciones, NEW h \in Hijos,
           LeerAprobar(p, r) \/ \E fila \in Solicitudes : Registrar(p, r, fila)
    PROVE  Firme(h)'
  <1> USE DEF IInv
  <1>1. CASE LeerAprobar(p, r)
    <2>1. /\ peticion'[p] = [op |-> "ejecutar", res |-> r, fila |-> resolucion[r], nueva |-> FALSE,
                             estado |-> cierre[HijoDe[resolucion[r].origen]]]
          /\ \A q \in Peticiones \ {p} : peticion'[q] = peticion[q]
          /\ UNCHANGED <<cierre, resolucion>>
      BY <1>1 DEF LeerAprobar, Recordar, TypeOK
    <2>2. CierreBloqueado(h) => HijoDe[resolucion[r].origen] # h
      BY <1>1 DEF LeerAprobar, FirmeInv, Firme, SinPendientes
    <2>3. Definitivo(h) => Tardia(p, h)'
      BY <2>1, <2>2 DEF Definitivo, Tardia
    <2> QED BY <2>1, <2>3, FirmeOtras DEF Definitivo
  <1>2. ASSUME NEW fila \in Solicitudes, Registrar(p, r, fila) PROVE Firme(h)'
    <2>1. /\ resolucion[r] = Ninguna
          /\ resolucion' # resolucion => ~CierreBloqueado(HijoDe[fila.origen])
          /\ \A q \in Peticiones \ {p} : peticion'[q] = peticion[q]
          /\ UNCHANGED cierre
      BY <1>2 DEF Registrar, IdLibre, Recordar, Responder, TypeOK
    <2>2. /\ \A t \in Resoluciones \ {r} : resolucion'[t] = resolucion[t]
          /\ resolucion'[r] \in {Ninguna, fila}
      BY <1>2, <2>1 DEF Registrar, TypeOK
    <2>3. \/ peticion'[p].op = "libre"
          \/ peticion'[p].op = "ejecutar" /\ peticion'[p].nueva
      BY <1>2 DEF Registrar, Recordar, Responder, Libre, TypeOK
    <2>4. Tardia(p, h)'
      BY <2>3 DEF Tardia, EnCurso
    <2>5. peticion'[p].op # "cerrar"
      BY <2>3
    <2>6. \A t \in Resoluciones : resolucion[t] # Ninguna => resolucion'[t] = resolucion[t]
      BY <2>1, <2>2
    <2>7. \A t \in Resoluciones :
             resolucion[t] = Ninguna /\ resolucion'[t] # Ninguna => resolucion'[t] = fila
      BY <2>2
    <2> QED BY <2>1, <2>4, <2>5, <2>6, <2>7, FirmeOtras DEF Definitivo
  <1> QED BY <1>1, <1>2

\* What makes a closing final is kept by every step.
LEMMA FirmePaso == IInv /\ FirmeInv /\ [Next]_vars => FirmeInv'
  <1> SUFFICES ASSUME IInv, FirmeInv, [Next]_vars PROVE FirmeInv'
    OBVIOUS
  <1>1. ASSUME NEW h \in Hijos PROVE Firme(h)'
    <2>1. ASSUME NEW p \in Peticiones, NEW g \in Egresados,
                 LeerAbrir(p, g) \/ LeerRegistrar(p, g)
          PROVE  Firme(h)'
      <3>1. /\ peticion'[p].op \in {"abrir", "registrar"}
            /\ \A q \in Peticiones \ {p} : peticion'[q] = peticion[q]
            /\ UNCHANGED <<cierre, resolucion>>
        BY <2>1 DEF LeerAbrir, LeerRegistrar, Recordar, IInv, TypeOK
      <3> QED BY <3>1, FirmeOtras DEF Definitivo, Tardia, EnCurso
    <2>2. ASSUME NEW p \in Peticiones, Abrir(p) \/ Deshacer(p)
          PROVE  Firme(h)'
      <3>1. /\ peticion'[p].op = "libre"
            /\ \A q \in Peticiones \ {p} : peticion'[q] = peticion[q]
            /\ UNCHANGED resolucion
        BY <2>2 DEF Abrir, Deshacer, Responder, Libre, IInv, TypeOK
      <3>2. cierre'[h] = "CERRADO_CON_SALDO" => cierre[h] = "CERRADO_CON_SALDO"
        BY <2>2 DEF Abrir, Deshacer, FirmeInv, AbreSinCerrar, IInv, TypeOK
      <3> QED BY <3>1, <3>2, FirmeOtras DEF Definitivo, Tardia, EnCurso
    <2>3. ASSUME NEW p \in Peticiones, Cerrar(p)
          PROVE  Firme(h)'
      <3>1. /\ peticion'[p].op = "libre"
            /\ \A q \in Peticiones \ {p} : peticion'[q] = peticion[q]
            /\ UNCHANGED resolucion
        BY <2>3 DEF Cerrar, Responder, Libre, IInv, TypeOK
      <3>2. cierre'[h] = "CERRADO_CON_SALDO" => Definitivo(h)
        BY <2>3 DEF Cerrar, Definitivo, CierreBloqueado, IInv, TypeOK
      <3> QED BY <3>1, <3>2, FirmeOtras DEF Tardia, EnCurso
    <2>4. ASSUME NEW t \in Resoluciones, Rechazar(t)
          PROVE  Firme(h)'
      <3>1. resolucion[t] \in Fila /\ UNCHANGED <<cierre, peticion>>
        BY <2>4 DEF Rechazar, IInv, TypeOK
      <3>2. [resolucion[t] EXCEPT !.estado = "RECHAZADA"].estado = "RECHAZADA"
        BY <3>1 DEF Fila
      <3>3. /\ resolucion'[t].estado = "RECHAZADA" /\ resolucion[t] # Ninguna
            /\ \A u \in Resoluciones \ {t} : resolucion'[u] = resolucion[u]
        BY <2>4, <3>1, <3>2 DEF Rechazar, IInv, TypeOK
      <3>4. /\ CierreBloqueado(h)' <=> CierreBloqueado(h)
            /\ Definitivo(h)' <=> Definitivo(h)
        BY <3>1 DEF CierreBloqueado, Definitivo
      <3>5. ASSUME NEW q \in Peticiones PROVE Tardia(q, h) => Tardia(q, h)'
        BY <3>1, <3>3, LecturaDeOperacion
        DEF Tardia, EnCurso, SiguePendiente, IInv, TypeOK
      <3>6. SinPendientes(h) => SinPendientes(h)'
        BY <3>3 DEF SinPendientes
      <3> QED BY <3>4, <3>5, <3>6 DEF FirmeInv, Firme
    <2>6. ASSUME NEW p \in Peticiones,
                 GuardarEdicion(p) \/ \E c \in Cuentas : LeerEditar(p, c)
          PROVE  Firme(h)'
      <3>1. /\ peticion'[p].op \in {"libre", "editar"}
            /\ \A q \in Peticiones \ {p} : peticion'[q] = peticion[q]
            /\ UNCHANGED <<cierre, resolucion>>
        BY <2>6 DEF GuardarEdicion, LeerEditar, Recordar, Responder, Libre, IInv, TypeOK
      <3> QED BY <3>1, FirmeOtras DEF Definitivo, Tardia, EnCurso
    <2>5. ASSUME UNCHANGED <<cierre, resolucion, peticion>> PROVE Firme(h)'
      BY <2>5 DEF FirmeInv, Firme, Definitivo, CierreBloqueado, SinPendientes, Tardia, EnCurso,
                  SiguePendiente
    <2> QED BY <2>1, <2>2, <2>3, <2>4, <2>5, <2>6, LeerCerrarFirme, ConfirmarFirme, EjecutarFirme,
               EmpezarFirme DEF Next, MoverAjeno, vars
  <1>2. ASSUME NEW q \in Peticiones PROVE AbreSinCerrar(q)'
    <2>1. ASSUME NEW p \in Peticiones, NEW g \in Egresados, LeerAbrir(p, g)
          PROVE  AbreSinCerrar(q)'
      BY <2>1 DEF LeerAbrir, Recordar, FirmeInv, AbreSinCerrar, IInv, TypeOK
    <2>2. ASSUME NEW p \in Peticiones, peticion'[p].op # "abrir",
                 \A s \in Peticiones \ {p} : peticion'[s] = peticion[s]
          PROVE  AbreSinCerrar(q)'
      BY <2>2 DEF FirmeInv, AbreSinCerrar
    <2>3. ASSUME NEW p \in Peticiones, NEW g \in Egresados, LeerCerrar(p, g) \/ LeerRegistrar(p, g)
          PROVE  AbreSinCerrar(q)'
      BY <2>2, <2>3 DEF LeerCerrar, LeerRegistrar, Recordar, IInv, TypeOK
    <2>4. ASSUME NEW p \in Peticiones, Abrir(p) \/ Cerrar(p) \/ Confirmar(p) \/ Deshacer(p)
          PROVE  AbreSinCerrar(q)'
      BY <2>2, <2>4 DEF Abrir, Cerrar, Confirmar, Deshacer, Responder, Libre, IInv, TypeOK
    <2>5. ASSUME NEW p \in Peticiones, Ejecutar(p) PROVE AbreSinCerrar(q)'
      BY <2>2, <2>5 DEF Ejecutar, Recordar, IInv, TypeOK
    <2>6. ASSUME NEW p \in Peticiones, NEW r \in Resoluciones, LeerAprobar(p, r)
          PROVE  AbreSinCerrar(q)'
      BY <2>2, <2>6 DEF LeerAprobar, Recordar, IInv, TypeOK
    <2>7. ASSUME NEW p \in Peticiones, NEW r \in Resoluciones, NEW fila \in Solicitudes,
                 Registrar(p, r, fila)
          PROVE  AbreSinCerrar(q)'
      BY <2>2, <2>7 DEF Registrar, Recordar, Responder, Libre, IInv, TypeOK
    <2>9. ASSUME NEW p \in Peticiones,
                 GuardarEdicion(p) \/ \E c \in Cuentas : LeerEditar(p, c)
          PROVE  AbreSinCerrar(q)'
      BY <2>2, <2>9 DEF GuardarEdicion, LeerEditar, Recordar, Responder, Libre, IInv, TypeOK
    <2>8. ASSUME UNCHANGED peticion PROVE AbreSinCerrar(q)'
      BY <2>8 DEF FirmeInv, AbreSinCerrar
    <2> QED BY <2>1, <2>3, <2>4, <2>5, <2>6, <2>7, <2>8, <2>9 DEF Next, Rechazar, MoverAjeno, vars
  <1> QED BY <1>1, <1>2 DEF FirmeInv

LEMMA FirmeSiempre == Spec => [](IInv /\ FirmeInv)
  <1>1. Init => FirmeInv
    BY DEF Init, FirmeInv, Firme, AbreSinCerrar, Definitivo, CierreBloqueado, Libre
  <1> QED BY <1>1, FirmePaso, IInvSiempre, PTL DEF Spec

\* The only write over a closing that an administrator closed with its balances
\* is that of a resolution still being registered when it was closed.
THEOREM CerradoFirmeSeguro == Spec => CerradoFirme
  <1>1. ASSUME IInv, FirmeInv, [Next]_vars, NEW h \in Hijos,
               cierre[h] = "CERRADO_CON_SALDO", cierre'[h] # "CERRADO_CON_SALDO"
        PROVE  \E p \in Peticiones :
                  /\ Confirmar(p)
                  /\ peticion[p].nueva
                  /\ HijoDe[peticion[p].fila.origen] = h
    <2>1. ASSUME NEW p \in Peticiones, Abrir(p) \/ Cerrar(p) PROVE FALSE
      BY <1>1, <2>1 DEF Abrir, Cerrar, IInv, TypeOK
    <2>2. ASSUME NEW p \in Peticiones, Confirmar(p)
          PROVE  peticion[p].nueva /\ HijoDe[peticion[p].fila.origen] = h
      BY <1>1, <2>2, ConfirmarFirme
    <2>3. PICK p \in Peticiones : Confirmar(p)
      BY <1>1, <2>1
      DEF Next, LeerAbrir, LeerCerrar, LeerRegistrar, LeerAprobar, Registrar, Ejecutar,
          Deshacer, Rechazar, MoverAjeno, LeerEditar, GuardarEdicion, vars
    <2> QED BY <2>2, <2>3
  <1>2. ASSUME IInv, FirmeInv, [Next]_vars
        PROVE  [\A h \in Hijos :
                   cierre[h] = "CERRADO_CON_SALDO" /\ cierre'[h] # "CERRADO_CON_SALDO" =>
                       \E p \in Peticiones :
                           /\ Confirmar(p)
                           /\ peticion[p].nueva
                           /\ HijoDe[peticion[p].fila.origen] = h]_vars
    BY <1>1, <1>2
  <1> QED BY <1>2, FirmeSiempre, PTL DEF Spec, CerradoFirme
=============================================================================
