--------------------------- MODULE AlumnosProofs ---------------------------
(***************************************************************************)
(* Proofs about the pupils at the end of the school year, for every set of *)
(* pupils, grades and concurrent requests and every bound.                 *)
(***************************************************************************)
EXTENDS Alumnos, TLAPS

-----------------------------------------------------------------------------
(* What the requests in progress have read *)

LEMMA LecturaDeOperacion ==
    ASSUME NEW l \in Lecturas
    PROVE  /\ l.op \in {"refrescar", "aplicar"} => l.lineas \in Lineas
           /\ l.op = "linea" => l.hijo \in Alumnos /\ l.fila \in Linea
           /\ l.op = "editar" => l.hijo \in Alumnos /\ l.fila \in Fila
           /\ l.op = "purgar" => l.hijo \in Alumnos
  BY DEF Lecturas, Libre

LEMMA LibreEsLectura == Libre \in Lecturas /\ Libre.op = "libre"
  BY DEF Lecturas, Libre

LEMMA ResponderTipo ==
    ASSUME TypeOK, NEW p \in Peticiones, Responder(p)
    PROVE  /\ peticion' \in [Peticiones -> Lecturas]
           /\ peticion'[p] = Libre
           /\ \A q \in Peticiones \ {p} : peticion'[q] = peticion[q]
  BY LibreEsLectura DEF Responder, TypeOK

\* A line of the promotion is never the empty one
LEMMA LineaNoEsNinguna == \A l \in Linea : l # Ninguna /\ l.decision \in Decisiones
  BY DEF Linea, Ninguna, Decisiones, Continuan

\* The rows a dismissal and a promotion leave
LEMMA FilaDeBaja ==
    ASSUME tiempo \in Tiempos, NEW fila \in Fila
    PROVE  /\ DadoDeBaja(fila) \in Fila
           /\ ~DadoDeBaja(fila).activo /\ DadoDeBaja(fila).baja = tiempo
           /\ DadoDeBaja(fila).purga = fila.purga /\ DadoDeBaja(fila).grado = fila.grado
  BY DEF DadoDeBaja, Fila

LEMMA FilaTrasPromocion ==
    ASSUME tiempo \in Tiempos, NEW fila \in Fila, NEW l \in Linea
    PROVE  /\ TrasPromocion(fila, l) \in Fila
           /\ TrasPromocion(fila, l).purga = fila.purga
           /\ l.decision \in Continuan =>
                 /\ TrasPromocion(fila, l).activo
                 /\ TrasPromocion(fila, l).grado = l.destino
                 /\ fila.activo => TrasPromocion(fila, l).baja = fila.baja
           /\ l.decision \notin Continuan =>
                 /\ ~TrasPromocion(fila, l).activo
                 /\ fila.activo => TrasPromocion(fila, l).baja = tiempo
                 /\ ~fila.activo => TrasPromocion(fila, l) = fila
  <1>1. CASE l.decision \in Continuan
    <2> DEFINE f == [fila EXCEPT !.activo = TRUE, !.grado = l.destino,
                                 !.baja = IF fila.activo THEN @ ELSE Sin]
    <2>1. TrasPromocion(fila, l) = f
      BY <1>1 DEF TrasPromocion
    <2>2. /\ f.activo = TRUE /\ f.grado = l.destino /\ f.purga = fila.purga
          /\ f.baja = IF fila.activo THEN fila.baja ELSE Sin
      BY DEF Fila
    <2>3. f \in Fila
      BY DEF Fila, Linea
    <2> HIDE DEF f
    <2> QED BY <1>1, <2>1, <2>2, <2>3
  <1>2. CASE l.decision \notin Continuan
    <2>1. TrasPromocion(fila, l) = IF fila.activo THEN DadoDeBaja(fila) ELSE fila
      BY <1>2 DEF TrasPromocion
    <2> QED BY <1>2, <2>1, FilaDeBaja
  <1> QED BY <1>1, <1>2

\* The row that a PUT is going to write
LeidaParaEditar(fila, activo, grado) ==
    [fila EXCEPT !.activo = activo, !.grado = grado,
                 !.baja = IF fila.activo /\ ~activo /\ @ = Sin THEN tiempo ELSE @]

LEMMA FilaLeida ==
    ASSUME tiempo \in Tiempos, NEW fila \in Fila, NEW activo \in BOOLEAN,
           NEW grado \in Grados \cup {Sin}
    PROVE  /\ LeidaParaEditar(fila, activo, grado) \in Fila
           /\ LeidaParaEditar(fila, activo, grado).activo = activo
           /\ LeidaParaEditar(fila, activo, grado).purga = fila.purga
           /\ LeidaParaEditar(fila, activo, grado).baja =
                 IF fila.activo /\ ~activo /\ fila.baja = Sin THEN tiempo ELSE fila.baja
  BY DEF LeidaParaEditar, Fila

-----------------------------------------------------------------------------
(* The requests that only read *)

Lee(p) ==
    \/ LeerRefrescar(p) \/ LeerDescartar(p) \/ LeerAplicar(p)
    \/ \E h \in Alumnos :
          \/ LeerPurgar(p, h)
          \/ \E fila \in Linea : LeerLinea(p, h, fila)
          \/ \E activo \in BOOLEAN, grado \in Grados \cup {Sin} : LeerEditar(p, h, activo, grado)

\* What a request may remember, and what was so when it read it
LecturaFiel(l) ==
    /\ l.op = "aplicar" =>
          /\ ~PromocionBloqueada /\ promocion = "BORRADOR"
          /\ \A h \in Alumnos : veces[h] < MaxVeces
    /\ l.op = "purgar" => alumno[l.hijo].purga = "pedida"
    /\ l.op = "editar" =>
          \E activo \in BOOLEAN, grado \in Grados \cup {Sin} :
             l.fila = LeidaParaEditar(alumno[l.hijo], activo, grado)

LEMMA LineaPorDefecto ==
    ASSUME TypeOK, NEW h \in Alumnos, Candidato(h)
    PROVE  PorDefecto(h) \in Linea
  <1>1. alumno[h].grado \in Grados
    BY DEF TypeOK, Fila, Candidato
  <1>2. Siguiente[alumno[h].grado] \in Grados \cup {Sin}
    BY <1>1, AlumnosAssumption
  <1> QED BY <1>1, <1>2 DEF PorDefecto, Linea, Decisiones, Continuan

LEMMA LoLeido ==
    ASSUME TypeOK, NEW p \in Peticiones, Lee(p)
    PROVE  \E l \in Lecturas : Recordar(p, l) /\ LecturaFiel(l)
  <1>0. tiempo \in Tiempos /\ alumno \in [Alumnos -> Fila] /\ linea \in Lineas
    BY DEF TypeOK
  <1>1. CASE LeerRefrescar(p)
    <2> DEFINE ls == [h \in Alumnos |->
                         IF linea[h] = Ninguna /\ Candidato(h) THEN PorDefecto(h) ELSE Ninguna]
    <2>1. ls \in Lineas
      <3>1. \A h \in Alumnos : (IF linea[h] = Ninguna /\ Candidato(h)
                                THEN PorDefecto(h) ELSE Ninguna) \in Linea \cup {Ninguna}
        BY LineaPorDefecto
      <3> QED BY <3>1 DEF Lineas
    <2>2. Recordar(p, [op |-> "refrescar", lineas |-> ls])
      BY <1>1 DEF LeerRefrescar
    <2> HIDE DEF ls
    <2>3. [op |-> "refrescar", lineas |-> ls] \in Lecturas
      BY <2>1 DEF Lecturas
    <2> QED BY <2>2, <2>3 DEF LecturaFiel
  <1>2. CASE LeerDescartar(p)
    <2>1. [op |-> "descartar"] \in Lecturas
      BY DEF Lecturas
    <2> QED BY <1>2, <2>1 DEF LeerDescartar, LecturaFiel
  <1>3. CASE LeerAplicar(p)
    <2>1. [op |-> "aplicar", lineas |-> linea] \in Lecturas
      BY <1>0 DEF Lecturas
    <2> QED BY <1>3, <2>1 DEF LeerAplicar, LecturaFiel
  <1>4. ASSUME NEW h \in Alumnos, LeerPurgar(p, h)
        PROVE  \E l \in Lecturas : Recordar(p, l) /\ LecturaFiel(l)
    <2>1. [op |-> "purgar", hijo |-> h] \in Lecturas
      BY DEF Lecturas
    <2> QED BY <1>4, <2>1 DEF LeerPurgar, LecturaFiel
  <1>5. ASSUME NEW h \in Alumnos, NEW fila \in Linea, LeerLinea(p, h, fila)
        PROVE  \E l \in Lecturas : Recordar(p, l) /\ LecturaFiel(l)
    <2>1. [op |-> "linea", hijo |-> h, fila |-> fila] \in Lecturas
      BY DEF Lecturas
    <2>2. Recordar(p, [op |-> "linea", hijo |-> h, fila |-> fila])
      BY <1>5 DEF LeerLinea
    <2> QED BY <2>1, <2>2 DEF LecturaFiel
  <1>6. ASSUME NEW h \in Alumnos, NEW activo \in BOOLEAN, NEW grado \in Grados \cup {Sin},
               LeerEditar(p, h, activo, grado)
        PROVE  \E l \in Lecturas : Recordar(p, l) /\ LecturaFiel(l)
    <2> DEFINE f == LeidaParaEditar(alumno[h], activo, grado)
    <2>1. Recordar(p, [op |-> "editar", hijo |-> h, fila |-> f])
      BY <1>6 DEF LeerEditar, LeidaParaEditar
    <2>2. f \in Fila
      BY <1>0, FilaLeida
    <2>3. [op |-> "editar", hijo |-> h, fila |-> f] \in Lecturas
      <3> HIDE DEF f
      <3> QED BY <2>2 DEF Lecturas
    <2>4. LecturaFiel([op |-> "editar", hijo |-> h, fila |-> f])
      BY DEF LecturaFiel
    <2> QED BY <2>1, <2>3, <2>4
  <1> QED BY <1>1, <1>2, <1>3, <1>4, <1>5, <1>6 DEF Lee

LEMMA RecordarTipo ==
    ASSUME TypeOK, NEW p \in Peticiones, NEW l \in Lecturas, Recordar(p, l)
    PROVE  /\ TypeOK'
           /\ peticion'[p] = l
           /\ \A q \in Peticiones \ {p} : peticion'[q] = peticion[q]
           /\ UNCHANGED <<tiempo, alumno, expediente, promocion, linea, registro, veces,
                          bajaAplicada, tarea, ediciones, tocado, reactivado, adelantada,
                          descartada, cortada>>
  <1>1. UNCHANGED <<tiempo, alumno, expediente, promocion, linea, registro, veces,
                    bajaAplicada, tarea, ediciones, tocado, reactivado, adelantada,
                    descartada, cortada>>
    BY DEF Recordar, borrador, fantasmas
  <1>2. /\ peticion' \in [Peticiones -> Lecturas] /\ peticion'[p] = l
        /\ \A q \in Peticiones \ {p} : peticion'[q] = peticion[q]
    BY DEF Recordar, TypeOK
  <1> QED BY <1>1, <1>2 DEF TypeOK

-----------------------------------------------------------------------------
(* Types.  The promotion is applied by one request at a time, which holds  *)
(* its row from the check that it is a draft to the commit; that bounds    *)
(* the number of promotions applied.                                       *)

Aplicando(q) == peticion[q].op = "aplicar"

UnoAplica == \A p, q \in Peticiones : Aplicando(p) /\ Aplicando(q) => p = q

AplicaBorrador ==
    \A p \in Peticiones : Aplicando(p) =>
        promocion = "BORRADOR" /\ \A h \in Alumnos : veces[h] < MaxVeces

TypeInv == TypeOK /\ UnoAplica /\ AplicaBorrador

\* A step that begins no application and leaves the draft a draft, and the
\* counts, alone
LEMMA AplicaQueda ==
    ASSUME UnoAplica, AplicaBorrador,
           \A q \in Peticiones : Aplicando(q)' => Aplicando(q),
           promocion = "BORRADOR" => promocion' = "BORRADOR", veces' = veces
    PROVE  UnoAplica' /\ AplicaBorrador'
  BY DEF UnoAplica, AplicaBorrador

LEMMA AplicaResponde ==
    ASSUME TypeOK, NEW p \in Peticiones, Responder(p)
    PROVE  \A q \in Peticiones : Aplicando(q)' => Aplicando(q) /\ q # p
  BY ResponderTipo, LibreEsLectura DEF Aplicando

LEMMA TypeLee ==
    ASSUME TypeInv, NEW p \in Peticiones, Lee(p)
    PROVE  TypeInv'
  <1>1. PICK l \in Lecturas : Recordar(p, l) /\ LecturaFiel(l)
    BY LoLeido DEF TypeInv
  <1>2. /\ TypeOK' /\ peticion'[p] = l
        /\ \A q \in Peticiones \ {p} : peticion'[q] = peticion[q]
        /\ promocion' = promocion /\ veces' = veces
    BY <1>1, RecordarTipo DEF TypeInv
  <1>3. CASE l.op # "aplicar"
    <2>1. \A q \in Peticiones : Aplicando(q)' => Aplicando(q)
      BY <1>2, <1>3 DEF Aplicando
    <2> QED BY <1>2, <2>1, AplicaQueda DEF TypeInv
  <1>4. CASE l.op = "aplicar"
    <2>1. /\ \A q \in Peticiones : ~Aplicando(q)
          /\ promocion = "BORRADOR" /\ \A h \in Alumnos : veces[h] < MaxVeces
      BY <1>1, <1>4 DEF LecturaFiel, PromocionBloqueada, Aplicando
    <2>2. \A q \in Peticiones : Aplicando(q)' => q = p
      BY <1>2, <2>1 DEF Aplicando
    <2> QED BY <1>2, <2>1, <2>2 DEF TypeInv, UnoAplica, AplicaBorrador
  <1> QED BY <1>3, <1>4

LEMMA TypeAplicar ==
    ASSUME TypeInv, NEW p \in Peticiones, Aplicar(p)
    PROVE  TypeInv'
  <1> DEFINE l == peticion[p].lineas
             Con == {h \in Alumnos : l[h] # Ninguna}
  <1>1. TypeOK /\ Aplicando(p) /\ l \in Lineas /\ \A h \in Alumnos : veces[h] < MaxVeces
    BY LecturaDeOperacion DEF Aplicar, TypeInv, TypeOK, Aplicando, AplicaBorrador
  <1>2. /\ Escribir([h \in Alumnos |->
              IF h \in Con THEN TrasPromocion(alumno[h], l[h]) ELSE alumno[h]])
        /\ expediente' = expediente \cup {h \in Con : AbreExpediente(l[h])}
        /\ registro' = [h \in Alumnos |-> IF h \in Con THEN l[h] ELSE registro[h]]
        /\ veces' = [h \in Alumnos |-> IF h \in Con THEN veces[h] + 1 ELSE veces[h]]
        /\ tocado' = tocado \ Con
        /\ promocion' = "APLICADA"
        /\ adelantada' = (adelantada \/ ~bajaAplicada)
        /\ Responder(p)
        /\ UNCHANGED <<tiempo, linea, bajaAplicada, tarea, ediciones, descartada, cortada>>
    BY DEF Aplicar
  <1>3. \A h \in Con : l[h] \in Linea
    BY <1>1 DEF Lineas
  <1> HIDE DEF l
  <1>4. alumno' \in [Alumnos -> Fila] /\ reactivado' \subseteq Alumnos
    <2>1. \A h \in Alumnos : (IF h \in Con THEN TrasPromocion(alumno[h], l[h]) ELSE alumno[h])
                                \in Fila
      BY <1>1, <1>3, FilaTrasPromocion DEF TypeOK
    <2> HIDE DEF Con
    <2> QED BY <1>1, <1>2, <2>1 DEF Escribir, TypeOK
  <1>5. registro' \in Lineas
    BY <1>1, <1>2 DEF TypeOK, Lineas
  <1>6. veces' \in [Alumnos -> 0..MaxVeces]
    BY <1>1, <1>2, AlumnosAssumption DEF TypeOK
  <1>7. adelantada' \in BOOLEAN /\ expediente' \subseteq Alumnos /\ tocado' \subseteq Alumnos
    BY <1>1, <1>2 DEF TypeOK
  <1>8. peticion' \in [Peticiones -> Lecturas]
    BY <1>1, <1>2, ResponderTipo
  <1>9. \A q \in Peticiones : ~Aplicando(q)'
    BY <1>1, <1>2, AplicaResponde DEF TypeInv, UnoAplica
  <1>10. TypeOK'
    <2> HIDE DEF Con
    <2> QED BY <1>1, <1>2, <1>4, <1>5, <1>6, <1>7, <1>8 DEF TypeOK
  <1> QED BY <1>9, <1>10 DEF TypeInv, UnoAplica, AplicaBorrador

\* Rows written in bulk
LEMMA EscribirTipo ==
    ASSUME TypeOK, NEW filas \in [Alumnos -> Fila], Escribir(filas)
    PROVE  /\ alumno' = filas /\ reactivado' \subseteq Alumnos
           /\ reactivado' = reactivado \cup
                               {h \in Alumnos : ~alumno[h].activo /\ filas[h].activo}
  BY DEF Escribir, TypeOK

LEMMA TypeRefrescar ==
    ASSUME TypeInv, NEW p \in Peticiones, Refrescar(p)
    PROVE  TypeInv'
  <1> DEFINE nuevas == peticion[p].lineas
  <1>1. TypeOK /\ nuevas \in Lineas /\ linea \in Lineas
    BY LecturaDeOperacion DEF Refrescar, TypeInv, TypeOK
  <1>2. /\ linea' = [h \in Alumnos |-> IF nuevas[h] # Ninguna THEN nuevas[h] ELSE linea[h]]
        /\ promocion' = IF promocion = "NINGUNA" THEN "BORRADOR" ELSE promocion
        /\ Responder(p)
        /\ UNCHANGED <<tiempo, alumno, expediente, registro, veces, bajaAplicada, tarea,
                       ediciones, tocado, reactivado, adelantada, descartada, cortada>>
    BY DEF Refrescar, fantasmas
  <1> HIDE DEF nuevas
  <1>3. linea' \in Lineas
    BY <1>1, <1>2 DEF Lineas
  <1>4. peticion' \in [Peticiones -> Lecturas]
    BY <1>1, <1>2, ResponderTipo
  <1>5. TypeOK'
    BY <1>1, <1>2, <1>3, <1>4 DEF TypeOK
  <1>6. UnoAplica' /\ AplicaBorrador'
    BY <1>1, <1>2, AplicaResponde, AplicaQueda DEF TypeInv
  <1> QED BY <1>5, <1>6 DEF TypeInv

LEMMA TypeDescartar ==
    ASSUME TypeInv, NEW p \in Peticiones, Descartar(p)
    PROVE  TypeInv'
  <1>1. TypeOK /\ \A q \in Peticiones : ~Aplicando(q)
    BY DEF TypeInv, Descartar, PromocionBloqueada, Aplicando
  <1>2. [h \in Alumnos |-> Ninguna] \in Lineas
    BY DEF Lineas
  <1>3. /\ peticion' \in [Peticiones -> Lecturas]
        /\ \A q \in Peticiones : peticion'[q] = Libre \/ peticion'[q] = peticion[q]
    BY <1>1, LibreEsLectura DEF Descartar, TypeOK
  <1>4. descartada' \in BOOLEAN
    BY DEF Descartar
  <1>5. TypeOK'
    BY <1>1, <1>2, <1>3, <1>4 DEF Descartar, TypeOK
  <1>6. \A q \in Peticiones : ~Aplicando(q)'
    BY <1>1, <1>3, LibreEsLectura DEF Aplicando
  <1> QED BY <1>5, <1>6 DEF TypeInv, UnoAplica, AplicaBorrador

LEMMA TypeGuardar ==
    ASSUME TypeInv, NEW p \in Peticiones, GuardarLinea(p) \/ GuardarEdicion(p) \/ Purgar(p)
    PROVE  TypeInv'
  <1>1. TypeOK /\ Responder(p) /\ peticion' \in [Peticiones -> Lecturas]
    BY ResponderTipo DEF TypeInv, GuardarLinea, GuardarEdicion, Purgar
  <1>2. UnoAplica' /\ AplicaBorrador'
    <2>1. promocion' = promocion /\ veces' = veces
      BY DEF GuardarLinea, GuardarEdicion, Purgar, borrador
    <2> QED BY <1>1, <2>1, AplicaResponde, AplicaQueda DEF TypeInv
  <1>3. CASE GuardarLinea(p)
    <2>1. peticion[p].fila \in Linea
      BY <1>1, <1>3, LecturaDeOperacion DEF GuardarLinea, TypeOK
    <2>2. linea' \in Lineas
      BY <1>1, <1>3, <2>1 DEF GuardarLinea, TypeOK, Lineas
    <2>3. ediciones' \in 0..MaxEdiciones
      BY <1>1, <1>3, AlumnosAssumption DEF GuardarLinea, TypeOK
    <2>4. TypeOK'
      BY <1>1, <1>3, <2>2, <2>3 DEF GuardarLinea, TypeOK, fantasmas
    <2> QED BY <1>2, <2>4 DEF TypeInv
  <1>4. CASE GuardarEdicion(p)
    <2>1. peticion[p].fila \in Fila /\ peticion[p].hijo \in Alumnos
      BY <1>1, <1>4, LecturaDeOperacion DEF GuardarEdicion, TypeOK
    <2>2. [alumno EXCEPT ![peticion[p].hijo] = peticion[p].fila] \in [Alumnos -> Fila]
      BY <1>1, <2>1 DEF TypeOK
    <2>3. alumno' \in [Alumnos -> Fila] /\ reactivado' \subseteq Alumnos
      BY <1>1, <1>4, <2>2, EscribirTipo DEF GuardarEdicion
    <2>4. ediciones' \in 0..MaxEdiciones
      BY <1>1, <1>4, AlumnosAssumption DEF GuardarEdicion, TypeOK
    <2>5. TypeOK'
      BY <1>1, <1>4, <2>1, <2>3, <2>4 DEF GuardarEdicion, TypeOK, borrador
    <2> QED BY <1>2, <2>5 DEF TypeInv
  <1>5. CASE Purgar(p)
    <2>1. peticion[p].hijo \in Alumnos
      BY <1>1, <1>5, LecturaDeOperacion DEF Purgar, TypeOK
    <2>2. alumno' \in [Alumnos -> Fila]
      BY <1>1, <1>5, <2>1 DEF Purgar, TypeOK, Fila
    <2>3. TypeOK'
      BY <1>1, <1>5, <2>2 DEF Purgar, TypeOK, borrador, fantasmas
    <2> QED BY <1>2, <2>3 DEF TypeInv
  <1> QED BY <1>3, <1>4, <1>5

LEMMA TypeDeshacer ==
    ASSUME TypeInv, NEW p \in Peticiones, Deshacer(p)
    PROVE  TypeInv'
  <1>1. TypeOK /\ Responder(p) /\ peticion' \in [Peticiones -> Lecturas]
    BY ResponderTipo DEF TypeInv, Deshacer
  <1>2. UnoAplica' /\ AplicaBorrador'
    BY <1>1, AplicaResponde, AplicaQueda DEF TypeInv, Deshacer, borrador
  <1>3. TypeOK'
    BY <1>1 DEF Deshacer, TypeOK, borrador, fantasmas
  <1> QED BY <1>2, <1>3 DEF TypeInv

LEMMA TypeTarea ==
    ASSUME TypeInv, DeTarea \/ PasaElTiempo
    PROVE  TypeInv'
  <1>1. TypeOK
    BY DEF TypeInv
  <1>2. UNCHANGED <<promocion, veces, peticion>>
    BY DEF DeTarea, PasaElTiempo, LeerBaja, DarBaja, MarcarCalendario, CaidaTarea, AbrirMasivo,
           AbrirExpediente, MarcarPurga, borrador
  <1>3. UnoAplica' /\ AplicaBorrador'
    BY <1>2, AplicaQueda DEF TypeInv, Aplicando
  <1> DEFINE Tareas == [fase : {"libre", "leida", "baja", "abrir"}, lista : SUBSET Alumnos]
  <1>4. \A fase \in {"libre", "leida", "baja", "abrir"}, lista \in SUBSET Alumnos :
           DeLaTarea(fase, lista) => tarea' \in Tareas
    BY DEF DeLaTarea
  <1>5. tarea.lista \in SUBSET Alumnos /\ Reposo \in Tareas
    BY <1>1 DEF TypeOK, Reposo
  <1>6. CASE LeerBaja
    <2>1. {h \in Alumnos : alumno[h].activo /\ alumno[h].grado \in Ultimos
                           /\ ~ContinuaSegunBorrador(h)} \in SUBSET Alumnos
      OBVIOUS
    <2>2. tarea' \in Tareas
      BY <1>4, <1>6, <2>1 DEF LeerBaja
    <2> QED BY <1>1, <1>3, <1>6, <2>2 DEF LeerBaja, TypeInv, TypeOK, borrador, fantasmas
  <1>7. CASE DarBaja
    <2>1. [h \in Alumnos |-> IF h \in tarea.lista THEN DadoDeBaja(alumno[h]) ELSE alumno[h]]
             \in [Alumnos -> Fila]
      BY <1>1, FilaDeBaja DEF TypeOK
    <2>2. alumno' \in [Alumnos -> Fila] /\ reactivado' \subseteq Alumnos
      BY <1>1, <1>7, <2>1, EscribirTipo DEF DarBaja
    <2>3. tarea' \in Tareas
      BY <1>4, <1>5, <1>7 DEF DarBaja
    <2> QED BY <1>1, <1>3, <1>7, <2>2, <2>3 DEF DarBaja, TypeInv, TypeOK, borrador
  <1>8. CASE MarcarCalendario
    <2>1. tarea' \in Tareas
      BY <1>4, <1>5, <1>8 DEF MarcarCalendario
    <2> QED BY <1>1, <1>3, <1>8, <2>1 DEF MarcarCalendario, TypeInv, TypeOK, borrador, fantasmas
  <1>9. CASE CaidaTarea
    <2>1. cortada' \in BOOLEAN
      BY <1>9 DEF CaidaTarea
    <2> QED BY <1>1, <1>3, <1>5, <1>9, <2>1 DEF CaidaTarea, TypeInv, TypeOK, borrador
  <1>10. CASE AbrirMasivo
    <2>1. expediente' \subseteq Alumnos
      BY <1>1, <1>10 DEF AbrirMasivo, TypeOK
    <2> QED BY <1>1, <1>3, <1>10, <2>1 DEF AbrirMasivo, TypeInv, TypeOK, borrador, fantasmas
  <1>11. ASSUME NEW h \in Alumnos, AbrirExpediente(h) PROVE TypeInv'
    <2>1. tarea' \in Tareas
      BY <1>4, <1>5, <1>11 DEF AbrirExpediente, Restantes
    <2> QED BY <1>1, <1>3, <1>11, <2>1 DEF AbrirExpediente, TypeInv, TypeOK, borrador, fantasmas
  <1>12. ASSUME NEW h \in Alumnos, MarcarPurga(h) PROVE TypeInv'
    <2>1. alumno' \in [Alumnos -> Fila]
      BY <1>1, <1>12 DEF MarcarPurga, TypeOK, Fila
    <2> QED BY <1>1, <1>3, <1>12, <2>1 DEF MarcarPurga, TypeInv, TypeOK, borrador, fantasmas
  <1>13. CASE PasaElTiempo
    <2>1. tiempo' \in Tiempos
      BY <1>1, <1>13, AlumnosAssumption DEF PasaElTiempo, TypeOK, Tiempos
    <2> QED BY <1>1, <1>3, <1>13, <2>1 DEF PasaElTiempo, TypeInv, TypeOK, borrador, fantasmas
  <1> QED BY <1>6, <1>7, <1>8, <1>9, <1>10, <1>11, <1>12, <1>13 DEF DeTarea

\* A step is one of these
LEMMA PasosDe ==
    [Next]_vars <=> \/ \E p \in Peticiones :
                          \/ Lee(p) \/ Refrescar(p) \/ GuardarLinea(p) \/ Descartar(p)
                          \/ Aplicar(p) \/ GuardarEdicion(p) \/ Purgar(p) \/ Deshacer(p)
                    \/ DeTarea \/ PasaElTiempo \/ UNCHANGED vars
  BY DEF Next, DePeticion, Lee

LEMMA TypePaso == TypeInv /\ [Next]_vars => TypeInv'
  <1>1. TypeInv /\ UNCHANGED vars => TypeInv'
    BY DEF TypeInv, TypeOK, UnoAplica, AplicaBorrador, Aplicando, vars, borrador, fantasmas
  <1> QED BY <1>1, PasosDe, TypeLee, TypeAplicar, TypeRefrescar, TypeDescartar, TypeGuardar,
             TypeDeshacer, TypeTarea

LEMMA TypeInicial == Init => TypeInv
  <1> SUFFICES ASSUME Init PROVE TypeInv
    OBVIOUS
  <1>1. [h \in Alumnos |-> Ninguna] \in Lineas
    BY DEF Lineas
  <1>2. TypeOK
    <2>1. tiempo \in Tiempos /\ ediciones \in 0..MaxEdiciones /\ 0 \in 0..MaxVeces
      BY AlumnosAssumption DEF Init, Tiempos
    <2>2. alumno \in [Alumnos -> Fila]
      BY DEF Init
    <2>3. veces \in [Alumnos -> 0..MaxVeces] /\ peticion \in [Peticiones -> Lecturas]
      BY <2>1, LibreEsLectura DEF Init
    <2>4. tarea \in [fase : {"libre", "leida", "baja", "abrir"}, lista : SUBSET Alumnos]
      BY DEF Init, Reposo
    <2>5. {linea, registro} \subseteq Lineas
      BY <1>1 DEF Init
    <2>6. {adelantada, descartada, cortada} \subseteq BOOLEAN /\ bajaAplicada \in BOOLEAN
      BY DEF Init
    <2> QED BY <2>1, <2>2, <2>3, <2>4, <2>5, <2>6 DEF Init, TypeOK
  <1>3. \A p \in Peticiones : ~Aplicando(p)
    BY LibreEsLectura DEF Init, Aplicando
  <1> QED BY <1>2, <1>3 DEF TypeInv, UnoAplica, AplicaBorrador

LEMMA TypeInvSiempre == Spec => []TypeInv
  BY TypeInicial, TypePaso, PTL DEF Spec

\* Rows, lines, readings and counters have their types: no more promotions than
\* the bound are applied, because one request at a time does it.
THEOREM Tipos == Spec => []TypeOK
  <1>1. TypeInv => TypeOK
    BY DEF TypeInv
  <1> QED BY <1>1, TypeInvSiempre, PTL

-----------------------------------------------------------------------------
(* The number of promotions *)

UnaInv ==
    ~descartada =>
        /\ promocion # "APLICADA" => \A h \in Alumnos : veces[h] = 0
        /\ \A h \in Alumnos : veces[h] <= 1

LEMMA UnaPaso == TypeInv /\ UnaInv /\ [Next]_vars => UnaInv'
  <1> SUFFICES ASSUME TypeInv, UnaInv, [Next]_vars PROVE UnaInv'
    OBVIOUS
  <1>0. TypeOK
    BY DEF TypeInv
  <1>1. ASSUME UNCHANGED <<promocion, veces, descartada>> PROVE UnaInv'
    BY <1>1 DEF UnaInv
  <1>2. ASSUME NEW p \in Peticiones, Lee(p) PROVE UnaInv'
    BY <1>0, <1>1, <1>2, LoLeido, RecordarTipo
  <1>3. ASSUME NEW p \in Peticiones,
               GuardarLinea(p) \/ GuardarEdicion(p) \/ Purgar(p) \/ Deshacer(p)
        PROVE  UnaInv'
    BY <1>1, <1>3 DEF GuardarLinea, GuardarEdicion, Purgar, Deshacer, borrador, fantasmas
  <1>4. ASSUME NEW p \in Peticiones, Refrescar(p) PROVE UnaInv'
    BY <1>4 DEF Refrescar, fantasmas, UnaInv
  <1>5. ASSUME NEW p \in Peticiones, Descartar(p) PROVE UnaInv'
    BY <1>5 DEF Descartar, UnaInv
  <1>6. ASSUME NEW p \in Peticiones, Aplicar(p) PROVE UnaInv'
    <2> DEFINE Con == {h \in Alumnos : peticion[p].lineas[h] # Ninguna}
    <2>1. /\ promocion' = "APLICADA" /\ descartada' = descartada
          /\ veces' = [h \in Alumnos |-> IF h \in Con THEN veces[h] + 1 ELSE veces[h]]
      BY <1>6 DEF Aplicar
    <2>2. promocion = "BORRADOR"
      BY <1>6 DEF TypeInv, AplicaBorrador, Aplicando, Aplicar
    <2> HIDE DEF Con
    <2> QED BY <2>1, <2>2 DEF UnaInv
  <1>7. ASSUME DeTarea \/ PasaElTiempo PROVE UnaInv'
    BY <1>1, <1>7
    DEF DeTarea, PasaElTiempo, LeerBaja, DarBaja, MarcarCalendario, CaidaTarea, AbrirMasivo,
        AbrirExpediente, MarcarPurga, borrador, fantasmas
  <1>8. UNCHANGED vars => UnaInv'
    BY <1>1 DEF vars, borrador, fantasmas
  <1> QED BY <1>2, <1>3, <1>4, <1>5, <1>6, <1>7, <1>8, PasosDe

\* A promotion is applied once a year, by however many requests at once; only a
\* DELETE that read it as a draft opens the way to a second one.
THEOREM UnaSegura == Spec => []PromocionUnaVez
  <1>1. Init => UnaInv
    BY DEF Init, UnaInv
  <1>2. UnaInv => PromocionUnaVez
    BY DEF UnaInv, PromocionUnaVez
  <1> QED BY <1>1, <1>2, UnaPaso, TypeInvSiempre, PTL DEF Spec

-----------------------------------------------------------------------------
(* Effects of the actions on one pupil *)

\* An applied promotion changes the pupils with a line, as the line says.
LEMMA AplicarEfecto ==
    ASSUME TypeInv, NEW p \in Peticiones, Aplicar(p), NEW h \in Alumnos
    PROVE  \/ /\ alumno'[h] = alumno[h] /\ registro'[h] = registro[h]
              /\ h \in tocado' <=> h \in tocado
              /\ h \in expediente => h \in expediente'
           \/ \E l \in Linea :
                 /\ alumno'[h] = TrasPromocion(alumno[h], l) /\ registro'[h] = l
                 /\ l.decision \notin Continuan => h \in expediente'
  <1> DEFINE l == peticion[p].lineas
             Con == {k \in Alumnos : l[k] # Ninguna}
  <1>1. l \in Lineas
    BY LecturaDeOperacion DEF Aplicar, TypeInv, TypeOK
  <1>2. /\ alumno' = [k \in Alumnos |->
                         IF k \in Con THEN TrasPromocion(alumno[k], l[k]) ELSE alumno[k]]
        /\ expediente' = expediente \cup {k \in Con : AbreExpediente(l[k])}
        /\ registro' = [k \in Alumnos |-> IF k \in Con THEN l[k] ELSE registro[k]]
        /\ tocado' = tocado \ Con
    BY DEF Aplicar, Escribir
  <1>3. \A k \in Con : l[k] \in Linea
    BY <1>1 DEF Lineas
  <1> HIDE DEF l
  <1>4. CASE h \in Con
    <2>1. /\ alumno'[h] = TrasPromocion(alumno[h], l[h]) /\ registro'[h] = l[h]
          /\ l[h].decision \notin Continuan => h \in expediente'
      BY <1>2, <1>4 DEF AbreExpediente
    <2> QED BY <1>3, <1>4, <2>1
  <1>5. CASE h \notin Con
    <2> HIDE DEF Con
    <2> QED BY <1>2, <1>5
  <1> QED BY <1>4, <1>5

LEMMA EdicionEfecto ==
    ASSUME TypeInv, NEW p \in Peticiones, GuardarEdicion(p)
    PROVE  /\ peticion[p].hijo \in Alumnos /\ peticion[p].fila \in Fila
           /\ alumno'[peticion[p].hijo] = peticion[p].fila
           /\ \A h \in Alumnos \ {peticion[p].hijo} : alumno'[h] = alumno[h]
           /\ tocado' = tocado \cup {peticion[p].hijo}
  <1>1. peticion[p].hijo \in Alumnos /\ peticion[p].fila \in Fila
    BY LecturaDeOperacion DEF GuardarEdicion, TypeInv, TypeOK
  <1> QED BY <1>1 DEF GuardarEdicion, Escribir, TypeInv, TypeOK

LEMMA PurgarEfecto ==
    ASSUME TypeInv, NEW p \in Peticiones, Purgar(p)
    PROVE  /\ peticion[p].hijo \in Alumnos
           /\ alumno'[peticion[p].hijo].purga = "hecha"
           /\ alumno'[peticion[p].hijo].activo = alumno[peticion[p].hijo].activo
           /\ alumno'[peticion[p].hijo].baja = alumno[peticion[p].hijo].baja
           /\ \A h \in Alumnos \ {peticion[p].hijo} : alumno'[h] = alumno[h]
  <1>1. peticion[p].hijo \in Alumnos
    BY LecturaDeOperacion DEF Purgar, TypeInv, TypeOK
  <1> QED BY <1>1 DEF Purgar, TypeInv, TypeOK, Fila

LEMMA MarcarEfecto ==
    ASSUME TypeInv, NEW h \in Alumnos, MarcarPurga(h)
    PROVE  /\ alumno'[h].activo = alumno[h].activo /\ alumno'[h].grado = alumno[h].grado
           /\ alumno'[h].baja = alumno[h].baja
           /\ alumno[h].purga = "no" /\ alumno'[h].purga = "pedida"
           /\ \A k \in Alumnos \ {h} : alumno'[k] = alumno[k]
  BY DEF MarcarPurga, TypeInv, TypeOK, Fila

LEMMA DarBajaEfecto ==
    ASSUME TypeInv, DarBaja, NEW h \in Alumnos
    PROVE  alumno'[h] = IF h \in tarea.lista THEN DadoDeBaja(alumno[h]) ELSE alumno[h]
  BY DEF DarBaja, Escribir

-----------------------------------------------------------------------------
(* What the history says.  The nightly dismissal runs before it is marked  *)
(* in the calendar, and a promotion that finds it marked runs after it.    *)

FielInv ==
    /\ RegistroFiel
    /\ tarea.fase \in {"leida", "baja"} => ~bajaAplicada
    /\ \A h \in Alumnos : registro[h] # Ninguna /\ ~adelantada => bajaAplicada

LEMMA FielPaso == TypeInv /\ FielInv /\ [Next]_vars => FielInv'
  <1> SUFFICES ASSUME TypeInv, FielInv, [Next]_vars PROVE FielInv'
    OBVIOUS
  <1>0. TypeOK
    BY DEF TypeInv
  <1>1. ASSUME UNCHANGED <<alumno, registro, tocado, adelantada, tarea, bajaAplicada>>,
               expediente \subseteq expediente'
        PROVE  FielInv'
    BY <1>1 DEF FielInv, RegistroFiel
  <1>2. ASSUME NEW p \in Peticiones, Lee(p) PROVE FielInv'
    BY <1>0, <1>1, <1>2, LoLeido, RecordarTipo
  <1>3. ASSUME NEW p \in Peticiones,
               Refrescar(p) \/ GuardarLinea(p) \/ Descartar(p) \/ Deshacer(p)
        PROVE  FielInv'
    BY <1>1, <1>3 DEF Refrescar, GuardarLinea, Descartar, Deshacer, borrador, fantasmas
  <1>4. ASSUME NEW p \in Peticiones, Aplicar(p) PROVE FielInv'
    <2>1. /\ tarea' = tarea /\ bajaAplicada' = bajaAplicada
          /\ adelantada' = (adelantada \/ ~bajaAplicada)
      BY <1>4 DEF Aplicar
    <2>2. RegistroFiel'
      <3> SUFFICES ASSUME NEW h \in Alumnos, registro'[h] # Ninguna, h \notin tocado',
                          ~adelantada', alumno'[h].purga # "hecha"
                   PROVE  IF registro'[h].decision \in Continuan
                          THEN alumno'[h].activo /\ alumno'[h].grado = registro'[h].destino
                          ELSE ~alumno'[h].activo /\ h \in expediente'
        BY DEF RegistroFiel
      <3>1. ASSUME NEW l \in Linea, alumno'[h] = TrasPromocion(alumno[h], l),
                   registro'[h] = l, l.decision \notin Continuan => h \in expediente'
            PROVE  IF registro'[h].decision \in Continuan
                   THEN alumno'[h].activo /\ alumno'[h].grado = registro'[h].destino
                   ELSE ~alumno'[h].activo /\ h \in expediente'
        BY <1>0, <3>1, FilaTrasPromocion DEF TypeOK
      <3>2. CASE /\ alumno'[h] = alumno[h] /\ registro'[h] = registro[h]
                 /\ h \in tocado' <=> h \in tocado
                 /\ h \in expediente => h \in expediente'
        BY <2>1, <3>2 DEF FielInv, RegistroFiel
      <3> QED BY <1>4, <3>1, <3>2, AplicarEfecto
    <2> QED BY <2>1, <2>2 DEF FielInv
  <1>5. ASSUME NEW p \in Peticiones, GuardarEdicion(p) PROVE FielInv'
    <2>1. UNCHANGED <<expediente, registro, bajaAplicada, tarea, adelantada>>
      BY <1>5 DEF GuardarEdicion, borrador
    <2>2. RegistroFiel'
      BY <1>5, <2>1, EdicionEfecto DEF FielInv, RegistroFiel
    <2> QED BY <2>1, <2>2 DEF FielInv
  <1>6. ASSUME NEW p \in Peticiones, Purgar(p) PROVE FielInv'
    <2>1. UNCHANGED <<expediente, registro, bajaAplicada, tarea, adelantada, tocado>>
      BY <1>6 DEF Purgar, borrador, fantasmas
    <2>2. RegistroFiel'
      BY <1>6, <2>1, PurgarEfecto DEF FielInv, RegistroFiel
    <2> QED BY <2>1, <2>2 DEF FielInv
  <1>7. ASSUME NEW h \in Alumnos, MarcarPurga(h) PROVE FielInv'
    <2>1. UNCHANGED <<expediente, registro, bajaAplicada, tarea, adelantada, tocado>>
      BY <1>7 DEF MarcarPurga, borrador, fantasmas
    <2>2. RegistroFiel'
      BY <1>7, <2>1, MarcarEfecto DEF FielInv, RegistroFiel
    <2> QED BY <2>1, <2>2 DEF FielInv
  <1>8. CASE DarBaja
    <2>1. UNCHANGED <<registro, bajaAplicada, adelantada>> /\ tarea.fase = "leida"
      BY <1>8 DEF DarBaja, borrador
    <2>2. ~bajaAplicada /\ \A h \in Alumnos : registro[h] # Ninguna => adelantada
      BY <2>1 DEF FielInv
    <2> QED BY <2>1, <2>2 DEF FielInv, RegistroFiel
  <1>9. CASE LeerBaja \/ MarcarCalendario \/ CaidaTarea
    <2>1. UNCHANGED <<alumno, expediente, registro, tocado, adelantada>>
      BY <1>9 DEF LeerBaja, MarcarCalendario, CaidaTarea, borrador, fantasmas
    <2>2. tarea'.fase \in {"leida", "baja"} => ~bajaAplicada'
      BY <1>9 DEF LeerBaja, MarcarCalendario, CaidaTarea, DeLaTarea, Reposo
    <2>3. bajaAplicada => bajaAplicada'
      BY <1>9 DEF LeerBaja, MarcarCalendario, CaidaTarea
    <2> QED BY <2>1, <2>2, <2>3 DEF FielInv, RegistroFiel
  <1>10. ASSUME NEW h \in Alumnos, AbrirExpediente(h) PROVE FielInv'
    <2>1. UNCHANGED <<alumno, registro, tocado, adelantada, bajaAplicada>>
      BY <1>10 DEF AbrirExpediente, borrador, fantasmas
    <2>2. tarea'.fase \notin {"leida", "baja"} /\ expediente \subseteq expediente'
      BY <1>10 DEF AbrirExpediente, DeLaTarea
    <2> QED BY <2>1, <2>2 DEF FielInv, RegistroFiel
  <1>11. CASE AbrirMasivo \/ PasaElTiempo
    BY <1>1, <1>11 DEF AbrirMasivo, PasaElTiempo, borrador, fantasmas
  <1>12. UNCHANGED vars => FielInv'
    BY <1>1 DEF vars, borrador, fantasmas
  <1> QED BY <1>2, <1>3, <1>4, <1>5, <1>6, <1>7, <1>8, <1>9, <1>10, <1>11, <1>12, PasosDe
      DEF DeTarea

\* What the history says of a pupil is so, until somebody edits or purges the
\* pupil, provided the dismissal of the year was over before the promotion.
THEOREM RegistroSeguro == Spec => []RegistroFiel
  <1>1. Init => FielInv
    BY DEF Init, FielInv, RegistroFiel, Reposo
  <1>2. FielInv => RegistroFiel
    BY DEF FielInv
  <1> QED BY <1>1, <1>2, FielPaso, TypeInvSiempre, PTL DEF Spec

-----------------------------------------------------------------------------
(* Nobody leaves without a closing of accounts *)

\* The pupil h is accounted for in this state
Cubierto(h) ==
    ~alumno[h].activo /\ h \notin tocado /\ ~cortada =>
        h \in expediente \/ (tarea.fase \in {"baja", "abrir"} /\ h \in tarea.lista)

LEMMA CubiertoPaso ==
    TypeInv /\ BajaConExpediente /\ [Next]_vars => \A h \in Alumnos : Cubierto(h)'
  <1> SUFFICES ASSUME TypeInv, BajaConExpediente, [Next]_vars, NEW h \in Alumnos
               PROVE  Cubierto(h)'
    OBVIOUS
  <1>0. TypeOK /\ Cubierto(h)
    BY DEF TypeInv, BajaConExpediente, Cubierto
  <1>1. ASSUME alumno'[h].activo = alumno[h].activo, UNCHANGED <<tocado, cortada, tarea>>,
               expediente \subseteq expediente'
        PROVE  Cubierto(h)'
    BY <1>0, <1>1 DEF Cubierto
  <1>2. ASSUME NEW p \in Peticiones, Lee(p) PROVE Cubierto(h)'
    BY <1>0, <1>1, <1>2, LoLeido, RecordarTipo
  <1>3. ASSUME NEW p \in Peticiones,
               Refrescar(p) \/ GuardarLinea(p) \/ Descartar(p) \/ Deshacer(p)
        PROVE  Cubierto(h)'
    BY <1>1, <1>3 DEF Refrescar, GuardarLinea, Descartar, Deshacer, borrador, fantasmas
  <1>4. ASSUME NEW p \in Peticiones, Aplicar(p) PROVE Cubierto(h)'
    <2>1. UNCHANGED <<tarea, cortada>>
      BY <1>4 DEF Aplicar
    <2>2. ASSUME NEW l \in Linea, alumno'[h] = TrasPromocion(alumno[h], l),
                 l.decision \notin Continuan => h \in expediente'
          PROVE  Cubierto(h)'
      BY <1>0, <2>2, FilaTrasPromocion DEF TypeOK, Cubierto
    <2>3. CASE /\ alumno'[h] = alumno[h]
               /\ h \in tocado' <=> h \in tocado
               /\ h \in expediente => h \in expediente'
      BY <1>0, <2>1, <2>3 DEF Cubierto
    <2> QED BY <1>4, <2>2, <2>3, AplicarEfecto
  <1>5. ASSUME NEW p \in Peticiones, GuardarEdicion(p) PROVE Cubierto(h)'
    BY <1>0, <1>5, EdicionEfecto DEF GuardarEdicion, Cubierto
  <1>6. ASSUME NEW p \in Peticiones, Purgar(p) PROVE Cubierto(h)'
    <2>1. alumno'[h].activo = alumno[h].activo
      BY <1>6, PurgarEfecto
    <2> QED BY <1>1, <1>6, <2>1 DEF Purgar, fantasmas
  <1>7. ASSUME NEW k \in Alumnos, MarcarPurga(k) PROVE Cubierto(h)'
    <2>1. alumno'[h].activo = alumno[h].activo
      BY <1>7, MarcarEfecto
    <2> QED BY <1>1, <1>7, <2>1 DEF MarcarPurga, fantasmas
  <1>8. CASE DarBaja
    <2>1. /\ UNCHANGED <<tocado, cortada, expediente>> /\ tarea.fase = "leida"
          /\ tarea'.fase = "baja" /\ tarea'.lista = tarea.lista
      BY <1>8 DEF DarBaja, DeLaTarea
    <2>2. h \notin tarea.lista => alumno'[h] = alumno[h]
      BY <1>8, DarBajaEfecto
    <2> QED BY <1>0, <2>1, <2>2 DEF Cubierto
  <1>9. CASE LeerBaja
    <2>1. UNCHANGED <<alumno, tocado, cortada, expediente>> /\ tarea = Reposo
      BY <1>9 DEF LeerBaja, fantasmas
    <2> QED BY <1>0, <2>1 DEF Cubierto, Reposo
  <1>10. CASE MarcarCalendario
    <2>1. /\ UNCHANGED <<alumno, tocado, cortada, expediente>>
          /\ tarea'.lista = tarea.lista
          /\ tarea.lista # {} => tarea'.fase = "abrir"
      BY <1>10 DEF MarcarCalendario, DeLaTarea, fantasmas
    <2> QED BY <1>0, <2>1 DEF Cubierto
  <1>11. CASE CaidaTarea
    <2>1. /\ UNCHANGED <<alumno, tocado, expediente>>
          /\ cortada' = (cortada \/ tarea.fase \in {"baja", "abrir"})
      BY <1>11 DEF CaidaTarea
    <2> QED BY <1>0, <2>1 DEF Cubierto
  <1>12. ASSUME NEW k \in Alumnos, AbrirExpediente(k) PROVE Cubierto(h)'
    <2>1. /\ UNCHANGED <<alumno, tocado, cortada>> /\ expediente' = expediente \cup {k}
          /\ tarea'.lista = tarea.lista \ {k}
          /\ tarea.lista \ {k} # {} => tarea'.fase = "abrir"
      BY <1>12 DEF AbrirExpediente, DeLaTarea, Restantes, fantasmas
    <2> QED BY <1>0, <2>1 DEF Cubierto
  <1>13. CASE AbrirMasivo \/ PasaElTiempo
    BY <1>1, <1>13 DEF AbrirMasivo, PasaElTiempo, fantasmas
  <1>14. UNCHANGED vars => Cubierto(h)'
    BY <1>1 DEF vars, fantasmas
  <1> QED BY <1>2, <1>3, <1>4, <1>5, <1>6, <1>7, <1>8, <1>9, <1>10, <1>11, <1>12, <1>13,
             <1>14, PasosDe
      DEF DeTarea

\* Nobody leaves, by the promotion or by the nightly task, without a closing of
\* accounts, opened or about to be; unless the task is cut off.
THEOREM BajaSegura == Spec => []BajaConExpediente
  <1>1. Init => BajaConExpediente
    BY DEF Init, BajaConExpediente
  <1>2. TypeInv /\ BajaConExpediente /\ [Next]_vars => BajaConExpediente'
    BY CubiertoPaso DEF BajaConExpediente, Cubierto
  <1> QED BY <1>1, <1>2, TypeInvSiempre, PTL DEF Spec

-----------------------------------------------------------------------------
(* The purge.  A PUT in progress carries an old copy of the row of a pupil *)
(* who was never reactivated; whether that copy shows an old dismissal and *)
(* whether the row does is the same, so neither the PUT nor the purge that *)
(* follows it can make a recent dismissal look old.                        *)

EnRegla(fila) ==
    /\ fila.activo => fila.baja = Sin
    /\ fila.purga # "no" => BajaAntigua(fila)

EdicionEnRegla(fila, h) ==
    /\ fila.activo /\ alumno[h].activo => fila.baja = Sin
    /\ fila.purga # "no" => BajaAntigua(alumno[h])
    /\ ~fila.activo => (BajaAntigua(fila) <=> BajaAntigua(alumno[h]))

FilasEnRegla == \A h \in Alumnos \ reactivado : EnRegla(alumno[h])

PeticionEnRegla(q) ==
    /\ peticion[q].op = "editar" /\ peticion[q].hijo \notin reactivado
          => EdicionEnRegla(peticion[q].fila, peticion[q].hijo)
    /\ peticion[q].op = "purgar" /\ peticion[q].hijo \notin reactivado
          => BajaAntigua(alumno[peticion[q].hijo])

PurgaInv ==
    /\ FilasEnRegla
    /\ \A q \in Peticiones : PeticionEnRegla(q)
    /\ tarea.fase = "leida" => tiempo = 1

\* The row f of a pupil who is not reactivated becomes g
Sigue(f, g) ==
    /\ g.activo => f.activo
    /\ BajaAntigua(g) <=> BajaAntigua(f)
    /\ EnRegla(g)

LEMMA TiempoNat == TypeInv => tiempo \in Nat /\ \A fila \in Fila : fila.baja \in Nat \cup {Sin}
  BY AlumnosAssumption DEF TypeInv, TypeOK, Tiempos, Fila

LEMMA ReactivadoCrece == TypeInv /\ [Next]_vars => reactivado \subseteq reactivado'
  <1> SUFFICES ASSUME TypeInv, [Next]_vars PROVE reactivado \subseteq reactivado'
    OBVIOUS
  <1>1. ASSUME NEW p \in Peticiones, Lee(p) PROVE reactivado' = reactivado
    BY <1>1, LoLeido, RecordarTipo DEF TypeInv
  <1>2. ASSUME NEW p \in Peticiones,
               \/ Refrescar(p) \/ GuardarLinea(p) \/ Descartar(p) \/ Deshacer(p) \/ Purgar(p)
        PROVE  reactivado' = reactivado
    BY <1>2 DEF Refrescar, GuardarLinea, Descartar, Deshacer, Purgar, fantasmas
  <1>3. ASSUME NEW p \in Peticiones, Aplicar(p) \/ GuardarEdicion(p)
        PROVE  reactivado \subseteq reactivado'
    BY <1>3 DEF Aplicar, GuardarEdicion, Escribir
  <1>4. DarBaja => reactivado \subseteq reactivado'
    BY DEF DarBaja, Escribir
  <1>5. ASSUME NEW h \in Alumnos,
               \/ LeerBaja \/ MarcarCalendario \/ CaidaTarea \/ AbrirMasivo
               \/ AbrirExpediente(h) \/ MarcarPurga(h)
        PROVE  reactivado' = reactivado
    BY <1>5 DEF LeerBaja, MarcarCalendario, CaidaTarea, AbrirMasivo, AbrirExpediente, MarcarPurga,
                fantasmas
  <1>6. LeerBaja \/ MarcarCalendario \/ CaidaTarea \/ AbrirMasivo => reactivado' = reactivado
    BY DEF LeerBaja, MarcarCalendario, CaidaTarea, AbrirMasivo, fantasmas
  <1>7. PasaElTiempo \/ UNCHANGED vars => reactivado' = reactivado
    BY DEF PasaElTiempo, vars, fantasmas
  <1> QED BY <1>1, <1>2, <1>3, <1>4, <1>5, <1>6, <1>7, PasosDe DEF DeTarea

\* Who is reactivated by rows written in bulk, or by a PUT
LEMMA Reactiva ==
    ASSUME TypeInv, NEW h \in Alumnos \ reactivado',
           \/ \E p \in Peticiones : Aplicar(p) \/ GuardarEdicion(p)
           \/ DarBaja
    PROVE  alumno'[h].activo => alumno[h].activo
  BY DEF Aplicar, GuardarEdicion, DarBaja, Escribir

\* No row changes in the other steps
LEMMA FilasQuietas ==
    ASSUME TypeInv, [Next]_vars,
           \A p \in Peticiones : ~Aplicar(p) /\ ~GuardarEdicion(p) /\ ~Purgar(p),
           \A h \in Alumnos : ~MarcarPurga(h), ~DarBaja
    PROVE  alumno' = alumno
  <1>1. ASSUME NEW p \in Peticiones, Lee(p) PROVE alumno' = alumno
    BY <1>1, LoLeido, RecordarTipo DEF TypeInv
  <1>2. ASSUME NEW p \in Peticiones,
               Refrescar(p) \/ GuardarLinea(p) \/ Descartar(p) \/ Deshacer(p)
        PROVE  alumno' = alumno
    BY <1>2 DEF Refrescar, GuardarLinea, Descartar, Deshacer
  <1>3. LeerBaja \/ MarcarCalendario \/ CaidaTarea \/ AbrirMasivo => alumno' = alumno
    BY DEF LeerBaja, MarcarCalendario, CaidaTarea, AbrirMasivo
  <1>4. ASSUME NEW h \in Alumnos, AbrirExpediente(h) PROVE alumno' = alumno
    BY <1>4 DEF AbrirExpediente
  <1>5. PasaElTiempo \/ UNCHANGED vars => alumno' = alumno
    BY DEF PasaElTiempo, vars
  <1> QED BY <1>1, <1>2, <1>3, <1>4, <1>5, PasosDe DEF DeTarea

\* Whatever a step does to the row of a pupil who is not reactivated, an old
\* dismissal stays old and a recent one recent.
LEMMA FilaSigue ==
    ASSUME TypeInv, PurgaInv, [Next]_vars, NEW h \in Alumnos \ reactivado'
    PROVE  Sigue(alumno[h], alumno'[h])
  <1> DEFINE f == alumno[h]
             g == alumno'[h]
  <1>1. h \notin reactivado /\ EnRegla(f) /\ f \in Fila /\ tiempo \in Tiempos
    BY ReactivadoCrece DEF PurgaInv, FilasEnRegla, TypeInv, TypeOK
  <1>2. tiempo \in Nat /\ f.baja \in Nat \cup {Sin} /\ Sin \notin Nat
    BY <1>1, TiempoNat, AlumnosAssumption
  <1>3. g = f => Sigue(f, g)
    BY <1>1 DEF Sigue
  <1>4. f.activo => ~BajaAntigua(f) /\ f.purga = "no" /\ f.baja = Sin
    BY <1>1 DEF EnRegla, BajaAntigua
  <1>5. ASSUME NEW p \in Peticiones, Aplicar(p) PROVE Sigue(f, g)
    <2>1. ASSUME NEW l \in Linea, g = TrasPromocion(f, l) PROVE Sigue(f, g)
      <3>1. CASE l.decision \in Continuan
        <4>1. g.activo /\ g.purga = f.purga
          BY <1>1, <2>1, <3>1, FilaTrasPromocion
        <4>2. f.activo
          BY <1>5, <4>1, Reactiva
        <4>3. g.baja = f.baja
          BY <1>1, <2>1, <3>1, <4>2, FilaTrasPromocion
        <4> HIDE DEF f, g
        <4> QED BY <1>4, <4>1, <4>2, <4>3 DEF Sigue, EnRegla, BajaAntigua
      <3>2. CASE l.decision \notin Continuan /\ f.activo
        <4>1. ~g.activo /\ g.baja = tiempo /\ g.purga = f.purga
          BY <1>1, <2>1, <3>2, FilaTrasPromocion
        <4> HIDE DEF f, g
        <4> QED BY <1>2, <1>4, <3>2, <4>1 DEF Sigue, EnRegla, BajaAntigua
      <3>3. CASE l.decision \notin Continuan /\ ~f.activo
        BY <1>1, <1>3, <2>1, <3>3, FilaTrasPromocion
      <3> QED BY <3>1, <3>2, <3>3
    <2> QED BY <1>3, <1>5, <2>1, AplicarEfecto
  <1>6. CASE DarBaja
    <2>1. tiempo = 1
      BY <1>6 DEF DarBaja, PurgaInv
    <2>2. ~BajaAntigua(f) /\ f.purga = "no"
      BY <1>1, <1>2, <2>1 DEF EnRegla, BajaAntigua
    <2>3. CASE h \in tarea.lista
      <3>1. ~g.activo /\ g.baja = tiempo /\ g.purga = f.purga
        BY <1>1, <1>6, <2>3, DarBajaEfecto, FilaDeBaja
      <3> HIDE DEF f, g
      <3>2. ~BajaAntigua(g)
        BY <1>2, <3>1 DEF BajaAntigua
      <3>3. Sigue(f, g)
        BY <2>2, <3>1, <3>2 DEF Sigue, EnRegla
      <3> QED BY <3>3 DEF f, g
    <2> QED BY <1>3, <1>6, <2>3, DarBajaEfecto
  <1>7. ASSUME NEW p \in Peticiones, GuardarEdicion(p) PROVE Sigue(f, g)
    <2>1. CASE h # peticion[p].hijo
      BY <1>3, <1>7, <2>1, EdicionEfecto
    <2>2. CASE h = peticion[p].hijo
      <3>1. g = peticion[p].fila /\ EdicionEnRegla(g, h)
        BY <1>1, <1>7, <2>2, EdicionEfecto DEF PurgaInv, PeticionEnRegla, GuardarEdicion
      <3>2. g.activo => f.activo
        BY <1>7, Reactiva
      <3>3. /\ g.activo /\ f.activo => g.baja = Sin
            /\ g.purga # "no" => BajaAntigua(f)
            /\ ~g.activo => (BajaAntigua(g) <=> BajaAntigua(f))
        BY <3>1 DEF EdicionEnRegla
      <3> HIDE DEF f, g
      <3>4. CASE g.activo
        BY <1>4, <3>2, <3>3, <3>4 DEF Sigue, EnRegla, BajaAntigua
      <3>5. CASE ~g.activo
        BY <3>3, <3>5 DEF Sigue, EnRegla
      <3> QED BY <3>4, <3>5
    <2> QED BY <2>1, <2>2
  <1>8. ASSUME NEW p \in Peticiones, Purgar(p) PROVE Sigue(f, g)
    <2>1. CASE h # peticion[p].hijo
      BY <1>3, <1>8, <2>1, PurgarEfecto
    <2>2. CASE h = peticion[p].hijo
      <3>1. g.activo = f.activo /\ g.baja = f.baja /\ BajaAntigua(f)
        BY <1>1, <1>8, <2>2, PurgarEfecto DEF PurgaInv, PeticionEnRegla, Purgar
      <3> HIDE DEF f, g
      <3> QED BY <3>1 DEF Sigue, EnRegla, BajaAntigua
    <2> QED BY <2>1, <2>2
  <1>9. ASSUME NEW k \in Alumnos, MarcarPurga(k) PROVE Sigue(f, g)
    <2>1. CASE h # k
      BY <1>3, <1>9, <2>1, MarcarEfecto
    <2>2. CASE h = k
      <3>1. g.activo = f.activo /\ g.baja = f.baja /\ BajaAntigua(f)
        BY <1>9, <2>2, MarcarEfecto DEF MarcarPurga
      <3> HIDE DEF f, g
      <3> QED BY <3>1 DEF Sigue, EnRegla, BajaAntigua
    <2> QED BY <2>1, <2>2
  <1> QED BY <1>3, <1>5, <1>6, <1>7, <1>8, <1>9, FilasQuietas

LEMMA LecturaEnRegla ==
    ASSUME TypeInv, PurgaInv, NEW p \in Peticiones, NEW l \in Lecturas,
           Recordar(p, l), LecturaFiel(l)
    PROVE  PurgaInv'
  <1>1. /\ peticion'[p] = l
        /\ \A q \in Peticiones \ {p} : peticion'[q] = peticion[q]
        /\ UNCHANGED <<tiempo, alumno, tarea, reactivado>>
    BY RecordarTipo DEF TypeInv
  <1>2. \A h \in Alumnos \ reactivado : EnRegla(alumno[h]) /\ alumno[h] \in Fila
    BY DEF PurgaInv, FilasEnRegla, TypeInv, TypeOK
  <1>3. ASSUME l.op = "editar", l.hijo \notin reactivado
        PROVE  EdicionEnRegla(l.fila, l.hijo)
    <2> PICK activo \in BOOLEAN, grado \in Grados \cup {Sin} :
                l.fila = LeidaParaEditar(alumno[l.hijo], activo, grado)
      BY <1>3 DEF LecturaFiel
    <2> DEFINE f == alumno[l.hijo]
               g == l.fila
    <2>1. f \in Fila /\ EnRegla(f) /\ tiempo \in Tiempos
      BY <1>2, <1>3, LecturaDeOperacion DEF TypeInv, TypeOK
    <2>2. /\ g.activo = activo /\ g.purga = f.purga
          /\ g.baja = IF f.activo /\ ~activo /\ f.baja = Sin THEN tiempo ELSE f.baja
      BY <2>1, FilaLeida
    <2>3. tiempo \in Nat /\ f.baja \in Nat \cup {Sin} /\ Sin \notin Nat
      BY <2>1, TiempoNat, AlumnosAssumption
    <2> HIDE DEF f, g
    <2>4. f.activo => f.baja = Sin
      BY <2>1 DEF EnRegla
    <2>5. ~g.activo => (BajaAntigua(g) <=> BajaAntigua(f))
      <3>1. CASE f.activo
        <4>1. ~activo => g.baja = tiempo
          BY <2>2, <2>4, <3>1
        <4> QED BY <2>2, <2>3, <3>1, <4>1 DEF BajaAntigua
      <3>2. CASE ~f.activo
        <4>1. g.baja = f.baja
          BY <2>2, <3>2
        <4> QED BY <3>2, <4>1 DEF BajaAntigua
      <3> QED BY <3>1, <3>2
    <2>6. g.activo /\ f.activo => g.baja = Sin
      BY <2>2, <2>4
    <2>7. g.purga # "no" => BajaAntigua(f)
      BY <2>1, <2>2 DEF EnRegla
    <2> QED BY <2>5, <2>6, <2>7 DEF EdicionEnRegla, f, g
  <1>4. ASSUME l.op = "purgar", l.hijo \notin reactivado
        PROVE  BajaAntigua(alumno[l.hijo])
    BY <1>2, <1>4, LecturaDeOperacion DEF LecturaFiel, EnRegla
  <1>5. PeticionEnRegla(p)'
    BY <1>1, <1>3, <1>4 DEF PeticionEnRegla, EdicionEnRegla, BajaAntigua
  <1>6. \A q \in Peticiones \ {p} : PeticionEnRegla(q)'
    BY <1>1 DEF PurgaInv, PeticionEnRegla, EdicionEnRegla, BajaAntigua
  <1>7. FilasEnRegla'
    BY <1>1 DEF PurgaInv, FilasEnRegla, EnRegla, BajaAntigua
  <1> QED BY <1>1, <1>5, <1>6, <1>7 DEF PurgaInv

\* The steps that begin no request keep each one or answer it.
LEMMA PeticionesQueSiguen ==
    ASSUME TypeInv, [Next]_vars, \A p \in Peticiones : ~Lee(p)
    PROVE  \A q \in Peticiones : peticion'[q] = peticion[q] \/ peticion'[q] = Libre
  <1>1. ASSUME NEW p \in Peticiones,
               \/ Refrescar(p) \/ GuardarLinea(p) \/ Aplicar(p) \/ GuardarEdicion(p)
               \/ Purgar(p) \/ Deshacer(p)
        PROVE  Responder(p)
    BY <1>1 DEF Refrescar, GuardarLinea, Aplicar, GuardarEdicion, Purgar, Deshacer
  <1>2. ASSUME NEW p \in Peticiones, Responder(p)
        PROVE  \A q \in Peticiones : peticion'[q] = peticion[q] \/ peticion'[q] = Libre
    BY <1>2, ResponderTipo DEF TypeInv
  <1>3. ASSUME NEW p \in Peticiones, Descartar(p)
        PROVE  \A q \in Peticiones : peticion'[q] = peticion[q] \/ peticion'[q] = Libre
    BY <1>3 DEF Descartar
  <1>4. DeTarea => UNCHANGED peticion
    BY DEF DeTarea, LeerBaja, DarBaja, MarcarCalendario, CaidaTarea, AbrirMasivo,
           AbrirExpediente, MarcarPurga
  <1>5. PasaElTiempo \/ UNCHANGED vars => UNCHANGED peticion
    BY DEF PasaElTiempo, vars
  <1> QED BY <1>1, <1>2, <1>3, <1>4, <1>5, PasosDe

\* Only the list of a dismissal puts the task in its first phase, in the 30
\* days after the end of the year.
LEMMA FaseLeida ==
    ASSUME TypeInv, PurgaInv, [Next]_vars, ~PasaElTiempo
    PROVE  tiempo' = tiempo /\ (tarea'.fase = "leida" => tiempo' = 1)
  <1>1. ASSUME NEW p \in Peticiones, Lee(p) PROVE UNCHANGED <<tiempo, tarea>>
    BY <1>1, LoLeido, RecordarTipo DEF TypeInv
  <1>2. ASSUME NEW p \in Peticiones,
               \/ Refrescar(p) \/ GuardarLinea(p) \/ Descartar(p) \/ Aplicar(p)
               \/ GuardarEdicion(p) \/ Purgar(p) \/ Deshacer(p)
        PROVE  UNCHANGED <<tiempo, tarea>>
    BY <1>2 DEF Refrescar, GuardarLinea, Descartar, Aplicar, GuardarEdicion, Purgar, Deshacer
  <1>3. ASSUME NEW h \in Alumnos, MarcarPurga(h) PROVE UNCHANGED <<tiempo, tarea>>
    BY <1>3 DEF MarcarPurga
  <1>4. AbrirMasivo \/ UNCHANGED vars => UNCHANGED <<tiempo, tarea>>
    BY DEF AbrirMasivo, vars
  <1>5. LeerBaja => tiempo' = tiempo /\ tiempo = 1
    BY DEF LeerBaja
  <1>6. DarBaja \/ MarcarCalendario \/ CaidaTarea => tiempo' = tiempo /\ tarea'.fase # "leida"
    BY DEF DarBaja, MarcarCalendario, CaidaTarea, DeLaTarea, Reposo
  <1>7. ASSUME NEW h \in Alumnos, AbrirExpediente(h)
        PROVE  tiempo' = tiempo /\ tarea'.fase # "leida"
    BY <1>7 DEF AbrirExpediente, DeLaTarea
  <1> QED BY <1>1, <1>2, <1>3, <1>4, <1>5, <1>6, <1>7, PasosDe DEF PurgaInv, DeTarea

LEMMA PurgaPaso == TypeInv /\ PurgaInv /\ [Next]_vars => PurgaInv'
  <1> SUFFICES ASSUME TypeInv, PurgaInv, [Next]_vars PROVE PurgaInv'
    OBVIOUS
  <1>1. CASE \E p \in Peticiones : Lee(p)
    BY <1>1, LoLeido, LecturaEnRegla DEF TypeInv
  <1>2. CASE PasaElTiempo
    <2>1. /\ tiempo' = tiempo + 1 /\ UNCHANGED <<alumno, tarea, peticion, reactivado>>
          /\ tarea = Reposo /\ \A q \in Peticiones : peticion[q] = Libre
      BY <1>2 DEF PasaElTiempo, fantasmas
    <2>2. \A q \in Peticiones : PeticionEnRegla(q)'
      BY <2>1, LibreEsLectura DEF PeticionEnRegla
    <2>3. ASSUME NEW h \in Alumnos \ reactivado PROVE EnRegla(alumno[h])'
      <3>1. EnRegla(alumno[h]) /\ alumno[h] \in Fila
        BY DEF PurgaInv, FilasEnRegla, TypeInv, TypeOK
      <3>2. tiempo \in Nat /\ alumno[h].baja \in Nat \cup {Sin}
        BY <3>1, TiempoNat
      <3> QED BY <2>1, <3>1, <3>2 DEF EnRegla, BajaAntigua
    <2>4. FilasEnRegla'
      BY <2>1, <2>3 DEF FilasEnRegla
    <2>5. tarea'.fase # "leida"
      BY <2>1 DEF Reposo
    <2> QED BY <2>2, <2>4, <2>5 DEF PurgaInv
  <1>3. CASE ~PasaElTiempo /\ \A p \in Peticiones : ~Lee(p)
    <2>1. tiempo' = tiempo /\ (tarea'.fase = "leida" => tiempo' = 1)
      BY <1>3, FaseLeida
    <2>2. \A h \in Alumnos \ reactivado' : Sigue(alumno[h], alumno'[h])
      BY FilaSigue
    <2>3. FilasEnRegla'
      BY <2>1, <2>2 DEF FilasEnRegla, Sigue, EnRegla, BajaAntigua
    <2>4. ASSUME NEW q \in Peticiones PROVE PeticionEnRegla(q)'
      <3>1. peticion'[q] = peticion[q] \/ peticion'[q] = Libre
        BY <1>3, PeticionesQueSiguen
      <3>2. CASE peticion'[q] = Libre
        BY <3>2, LibreEsLectura DEF PeticionEnRegla
      <3>3. ASSUME peticion'[q] = peticion[q], NEW h \in Alumnos \ reactivado', NEW f \in Fila,
                   peticion[q].op = "editar", peticion[q].hijo = h, peticion[q].fila = f
            PROVE  EdicionEnRegla(f, h)'
        <4>1. EdicionEnRegla(f, h)
          BY <3>3, ReactivadoCrece DEF PurgaInv, PeticionEnRegla
        <4>2. /\ alumno'[h].activo => alumno[h].activo
              /\ BajaAntigua(alumno'[h]) <=> BajaAntigua(alumno[h])
          BY <2>2 DEF Sigue
        <4>3. /\ BajaAntigua(alumno[h])' <=> BajaAntigua(alumno[h])
              /\ BajaAntigua(f)' <=> BajaAntigua(f)
          BY <2>1, <4>2 DEF BajaAntigua
        <4> QED BY <4>1, <4>2, <4>3 DEF EdicionEnRegla
      <3>4. ASSUME peticion'[q] = peticion[q], NEW h \in Alumnos \ reactivado',
                   peticion[q].op = "purgar", peticion[q].hijo = h
            PROVE  BajaAntigua(alumno[h])'
        <4>1. BajaAntigua(alumno[h])
          BY <3>4, ReactivadoCrece DEF PurgaInv, PeticionEnRegla
        <4>2. BajaAntigua(alumno'[h]) <=> BajaAntigua(alumno[h])
          BY <2>2 DEF Sigue
        <4> QED BY <2>1, <4>1, <4>2 DEF BajaAntigua
      <3>5. /\ peticion[q].op = "editar" =>
                  peticion[q].hijo \in Alumnos /\ peticion[q].fila \in Fila
            /\ peticion[q].op = "purgar" => peticion[q].hijo \in Alumnos
        BY LecturaDeOperacion DEF TypeInv, TypeOK
      <3>6. CASE peticion'[q] = peticion[q]
        <4>1. CASE peticion[q].op = "editar"
          <5> PICK h \in Alumnos, f \in Fila : h = peticion[q].hijo /\ f = peticion[q].fila
            BY <3>5, <4>1
          <5>1. h \notin reactivado' => EdicionEnRegla(f, h)'
            BY <3>3, <3>6, <4>1
          <5>2. /\ peticion'[q].op = "editar" /\ peticion'[q].hijo = h /\ peticion'[q].fila = f
            BY <3>6, <4>1
          <5> QED BY <5>1, <5>2 DEF PeticionEnRegla, EdicionEnRegla, BajaAntigua
        <4>2. CASE peticion[q].op = "purgar"
          <5> PICK h \in Alumnos : h = peticion[q].hijo
            BY <3>5, <4>2
          <5>1. h \notin reactivado' => BajaAntigua(alumno[h])'
            BY <3>4, <3>6, <4>2
          <5>2. /\ peticion'[q].op = "purgar" /\ peticion'[q].hijo = h
            BY <3>6, <4>2
          <5> QED BY <5>1, <5>2 DEF PeticionEnRegla, BajaAntigua
        <4>3. CASE peticion[q].op \notin {"editar", "purgar"}
          BY <3>6, <4>3 DEF PeticionEnRegla
        <4> QED BY <4>1, <4>2, <4>3
      <3> QED BY <3>1, <3>2, <3>6
    <2> QED BY <2>1, <2>3, <2>4 DEF PurgaInv
  <1> QED BY <1>1, <1>2, <1>3

\* Data are purged of pupils who left more than a year ago, however old the
\* look at them was and whatever a stale PUT wrote back in between; unless the
\* pupil was active again since.
THEOREM PurgaSegura == Spec => PurgaDeBaja
  <1>1. Init => PurgaInv
    <2> SUFFICES ASSUME Init PROVE PurgaInv
      OBVIOUS
    <2>1. FilasEnRegla
      BY DEF Init, FilasEnRegla, EnRegla
    <2>2. \A q \in Peticiones : PeticionEnRegla(q)
      BY LibreEsLectura DEF Init, PeticionEnRegla
    <2> QED BY <2>1, <2>2 DEF Init, PurgaInv, Reposo
  <1>2. TypeInv /\ PurgaInv /\ [Next]_vars =>
           [\A h \in Alumnos :
               alumno'[h].purga = "hecha" /\ alumno[h].purga # "hecha" =>
                   \/ h \in reactivado
                   \/ ~alumno[h].activo /\ alumno[h].baja <= tiempo - 2]_vars
    <2> SUFFICES ASSUME TypeInv, PurgaInv, [Next]_vars, NEW h \in Alumnos \ reactivado,
                        alumno'[h].purga = "hecha", alumno[h].purga # "hecha"
                 PROVE  BajaAntigua(alumno[h])
      BY DEF BajaAntigua
    <2>1. ASSUME NEW p \in Peticiones, Aplicar(p) PROVE FALSE
      <3>1. ASSUME NEW l \in Linea, alumno'[h] = TrasPromocion(alumno[h], l) PROVE FALSE
        BY <3>1, FilaTrasPromocion DEF TypeInv, TypeOK
      <3> QED BY <2>1, <3>1, AplicarEfecto
    <2>2. ASSUME DarBaja PROVE FALSE
      BY <2>2, DarBajaEfecto, FilaDeBaja DEF TypeInv, TypeOK
    <2>3. ASSUME NEW p \in Peticiones, GuardarEdicion(p) PROVE BajaAntigua(alumno[h])
      <3>1. h = peticion[p].hijo /\ peticion[p].fila.purga = "hecha"
        BY <2>3, EdicionEfecto
      <3> QED BY <2>3, <3>1
          DEF GuardarEdicion, PurgaInv, PeticionEnRegla, EdicionEnRegla
    <2>4. ASSUME NEW p \in Peticiones, Purgar(p) PROVE BajaAntigua(alumno[h])
      <3>1. h = peticion[p].hijo
        BY <2>4, PurgarEfecto
      <3> QED BY <2>4, <3>1 DEF Purgar, PurgaInv, PeticionEnRegla
    <2>5. ASSUME NEW k \in Alumnos, MarcarPurga(k) PROVE FALSE
      BY <2>5, MarcarEfecto
    <2> QED BY <2>1, <2>2, <2>3, <2>4, <2>5, FilasQuietas
  <1> QED BY <1>1, <1>2, PurgaPaso, TypeInvSiempre, PTL DEF Spec, PurgaDeBaja
=============================================================================
