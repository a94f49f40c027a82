------------------------------ MODULE Alumnos ------------------------------
(***************************************************************************)
(* The pupils at the end of a school year: the nightly dismissal of the    *)
(* last course, the yearly promotion (a draft of one line per pupil, then  *)
(* applied), edits of a pupil by hand, and the purge of the data of those  *)
(* who left more than a year ago.                                          *)
(*                                                                         *)
(* Applying the promotion locks it and then each pupil, in one             *)
(* transaction.  The draft is edited, refreshed and discarded on what was  *)
(* read of it without a lock; a PUT of a pupil writes back the whole row   *)
(* it read; the nightly task has no transaction at all.                    *)
(***************************************************************************)
EXTENDS Integers

CONSTANTS
    Alumnos,
    Grados,
    Ultimos,        \* Grado.es_ultimo
    Siguiente,      \* Grado.siguiente
    Peticiones,     \* requests in progress at the same time
    Sin,            \* no grade, no date
    MaxTiempo,      \* bound of the clock
    MaxEdiciones,   \* bound of the edits by hand, of pupils and lines
    MaxVeces        \* bound of the promotions applied

ASSUME AlumnosAssumption ==
    /\ Ultimos \subseteq Grados
    /\ Sin \notin Grados \cup Nat
    /\ Siguiente \in [Grados -> Grados \cup {Sin}]
    /\ {MaxTiempo, MaxEdiciones, MaxVeces} \subseteq Nat

VARIABLES
    tiempo,         \* 0 in the school year, 1 in the 30 days after its end,
                    \* one more each half year
    alumno,         \* row of each pupil
    expediente,     \* pupils whose closing of accounts was opened
    promocion,      \* estado of the promotion of the year
    linea,          \* its line for each pupil
    registro,       \* last row of HistorialGrado the promotion wrote
    veces,          \* how many it wrote
    bajaAplicada,   \* CalendarioLectivo.baja_ultimo_curso_aplicada
    tarea,          \* progress of the nightly dismissal
    peticion,
    ediciones,
    tocado,         \* pupils written by hand since their last promotion
    reactivado,     \* pupils active again after a dismissal
    adelantada,     \* a promotion was applied before the dismissal was
    descartada,     \* an applied promotion was discarded
    cortada         \* the dismissal was cut off between its writes

fantasmas == <<tocado, reactivado, adelantada, descartada, cortada>>
borrador == <<promocion, linea, registro, veces>>
vars == <<tiempo, alumno, expediente, borrador, bajaAplicada, tarea, peticion,
          ediciones, fantasmas>>

Continuan == {"PROMUEVE", "CAMBIA", "REPITE"}
Decisiones == Continuan \cup {"EGRESA", "NO_CONTINUA"}
Tiempos == 0..MaxTiempo

Fila == [activo : BOOLEAN, grado : Grados \cup {Sin}, baja : Tiempos \cup {Sin},
         purga : {"no", "pedida", "hecha"}]
Linea == [decision : Decisiones, origen : Grados, destino : Grados \cup {Sin}]
Ninguna == [decision |-> "NINGUNA"]
Lineas == [Alumnos -> Linea \cup {Ninguna}]

Libre == [op |-> "libre"]
Lecturas ==
    {Libre}
    \cup [op : {"refrescar", "aplicar"}, lineas : Lineas]
    \cup [op : {"linea"}, hijo : Alumnos, fila : Linea]
    \cup [op : {"descartar"}]
    \cup [op : {"editar"}, hijo : Alumnos, fila : Fila]
    \cup [op : {"purgar"}, hijo : Alumnos]

TypeOK ==
    /\ tiempo \in Tiempos
    /\ alumno \in [Alumnos -> Fila]
    /\ expediente \subseteq Alumnos
    /\ promocion \in {"NINGUNA", "BORRADOR", "APLICADA"}
    /\ {linea, registro} \subseteq Lineas
    /\ veces \in [Alumnos -> 0..MaxVeces]
    /\ bajaAplicada \in BOOLEAN
    /\ tarea \in [fase : {"libre", "leida", "baja", "abrir"}, lista : SUBSET Alumnos]
    /\ peticion \in [Peticiones -> Lecturas]
    /\ ediciones \in 0..MaxEdiciones
    /\ {tocado, reactivado} \subseteq SUBSET Alumnos
    /\ {adelantada, descartada, cortada} \subseteq BOOLEAN

Reposo == [fase |-> "libre", lista |-> {}]

Init ==
    /\ tiempo = 0
    /\ alumno \in [Alumnos -> {fila \in Fila : fila.activo /\ fila.grado # Sin
                                             /\ fila.baja = Sin /\ fila.purga = "no"}]
    /\ expediente = {}
    /\ promocion = "NINGUNA"
    /\ linea = [h \in Alumnos |-> Ninguna]
    /\ registro = [h \in Alumnos |-> Ninguna]
    /\ veces = [h \in Alumnos |-> 0]
    /\ bajaAplicada = FALSE
    /\ tarea = Reposo
    /\ peticion = [p \in Peticiones |-> Libre]
    /\ ediciones = 0
    /\ tocado = {} /\ reactivado = {}
    /\ adelantada = FALSE /\ descartada = FALSE /\ cortada = FALSE

-----------------------------------------------------------------------------
Recordar(p, lectura) ==
    /\ peticion[p] = Libre
    /\ peticion' = [peticion EXCEPT ![p] = lectura]
    /\ UNCHANGED <<tiempo, alumno, expediente, borrador, bajaAplicada, tarea,
                   ediciones, fantasmas>>

Responder(p) == peticion' = [peticion EXCEPT ![p] = Libre]

\* Rows of pupils become fila; who was away and is active again is remembered
Escribir(filas) ==
    /\ alumno' = filas
    /\ reactivado' = reactivado \cup
          {h \in Alumnos : ~alumno[h].activo /\ filas[h].activo}

DadoDeBaja(fila) == [fila EXCEPT !.activo = FALSE, !.baja = tiempo]

\* Bug: the promotion is not locked
SinCandado == FALSE

\* aplicar holds the row of the promotion to its commit
PromocionBloqueada == \E q \in Peticiones : peticion[q].op = "aplicar"

-----------------------------------------------------------------------------
(* The draft *)

\* _candidatos: the active ones with a grade, and graduates the nightly task
\* dismissed in the 30 days after the end of the year
Candidato(h) ==
    /\ alumno[h].grado # Sin
    /\ alumno[h].activo \/ (alumno[h].grado \in Ultimos /\ alumno[h].baja = 1)

\* Bug: a decision that is none of the choices
PorDefectoFueraDeLista(h) ==
    [decision |-> "EGRESADO", origen |-> alumno[h].grado, destino |-> Sin]

\* _decision_por_defecto
PorDefecto(h) ==
    LET g == alumno[h].grado
    IN  IF g \in Ultimos \/ ~alumno[h].activo
        THEN [decision |-> "EGRESA", origen |-> g, destino |-> Sin]
        ELSE [decision |-> "PROMUEVE", origen |-> g, destino |-> Siguiente[g]]

\* generar_borrador, refrescar: lines for the pupils that have none.  A second
\* request that creates the promotion waits for the first.
LeerRefrescar(p) ==
    /\ promocion # "APLICADA"
    /\ promocion = "NINGUNA" => \A q \in Peticiones : peticion[q].op # "refrescar"
    /\ Recordar(p, [op |-> "refrescar", lineas |-> [h \in Alumnos |->
          IF linea[h] = Ninguna /\ Candidato(h) THEN PorDefecto(h) ELSE Ninguna]])

\* bulk_create: a line another request has inserted meanwhile is an error
Refrescar(p) ==
    /\ peticion[p].op = "refrescar"
    /\ LET nuevas == peticion[p].lineas
       IN  /\ \A h \in Alumnos : nuevas[h] # Ninguna => linea[h] = Ninguna
           /\ (\E h \in Alumnos : nuevas[h] # Ninguna) => ~PromocionBloqueada
           /\ linea' = [h \in Alumnos |-> IF nuevas[h] # Ninguna THEN nuevas[h] ELSE linea[h]]
    /\ promocion' = IF promocion = "NINGUNA" THEN "BORRADOR" ELSE promocion
    /\ Responder(p)
    /\ UNCHANGED <<tiempo, alumno, expediente, registro, veces, bajaAplicada, tarea,
                   ediciones, fantasmas>>

\* _validar_decision
Valida(fila, activo) ==
    CASE fila.decision = "PROMUEVE" ->
            fila.origen \notin Ultimos /\ activo /\ fila.destino \notin {Sin, fila.origen}
      [] fila.decision = "CAMBIA" -> activo /\ fila.destino \notin {Sin, fila.origen}
      [] fila.decision = "REPITE" -> fila.destino = fila.origen
      [] fila.decision = "EGRESA" -> fila.origen \in Ultimos /\ fila.destino = Sin
      [] fila.decision = "NO_CONTINUA" -> activo /\ fila.destino = Sin

\* actualizar_linea, once per line when a whole grade is changed
LeerLinea(p, h, fila) ==
    /\ promocion = "BORRADOR"
    /\ linea[h] # Ninguna
    /\ ediciones < MaxEdiciones
    /\ fila.origen = linea[h].origen
    /\ Valida(fila, alumno[h].activo)
    /\ Recordar(p, [op |-> "linea", hijo |-> h, fila |-> fila])

GuardarLinea(p) ==
    /\ peticion[p].op = "linea"
    /\ ediciones < MaxEdiciones
    /\ ediciones' = ediciones + 1
    /\ linea' = [linea EXCEPT ![peticion[p].hijo] = peticion[p].fila]
    /\ Responder(p)
    /\ UNCHANGED <<tiempo, alumno, expediente, promocion, registro, veces, bajaAplicada,
                   tarea, fantasmas>>

LeerDescartar(p) == promocion = "BORRADOR" /\ Recordar(p, [op |-> "descartar"])

\* destroy: the promotion and its lines, whatever became of it meanwhile;
\* other requests that read it find no row any more
Descartar(p) ==
    /\ peticion[p].op = "descartar"
    /\ ~PromocionBloqueada
    /\ promocion' = "NINGUNA"
    /\ linea' = [h \in Alumnos |-> Ninguna]
    /\ descartada' = (descartada \/ promocion = "APLICADA")
    /\ peticion' = [q \in Peticiones |->
          IF peticion[q].op \in {"refrescar", "linea", "descartar"} THEN Libre ELSE peticion[q]]
    /\ UNCHANGED <<tiempo, alumno, expediente, registro, veces, bajaAplicada, tarea,
                   ediciones, tocado, reactivado, adelantada, cortada>>

-----------------------------------------------------------------------------
(* Applying it *)

\* requisitos
Aplicable ==
    /\ tiempo >= 1
    /\ \A h \in Alumnos : alumno[h].activo => alumno[h].grado # Sin
    /\ \E h \in Alumnos : linea[h] # Ninguna
    /\ \A h \in Alumnos :
          linea[h].decision \in {"PROMUEVE", "CAMBIA"} => linea[h].destino # Sin

\* aplicar locks the promotion, looks at it again and reads its lines ...
LeerAplicar(p) ==
    /\ ~PromocionBloqueada
    /\ promocion = "BORRADOR"
    /\ Aplicable
    /\ \A h \in Alumnos : veces[h] < MaxVeces
    /\ Recordar(p, [op |-> "aplicar", lineas |-> linea])

\* Bug: who was dismissed is not active again
SinReactivar(fila, l) ==
    IF l.decision \in Continuan THEN [fila EXCEPT !.grado = l.destino]
    ELSE IF fila.activo THEN DadoDeBaja(fila) ELSE fila

\* _aplicar_linea on the row of the pupil
TrasPromocion(fila, l) ==
    IF l.decision \in Continuan
    THEN [fila EXCEPT !.activo = TRUE, !.grado = l.destino,
                      !.baja = IF fila.activo THEN @ ELSE Sin]
    ELSE IF fila.activo THEN DadoDeBaja(fila) ELSE fila

\* Bug: a closing for who graduates only
SoloEgresados(l) == l.decision = "EGRESA"

AbreExpediente(l) == l.decision \notin Continuan

\* ... and applies each to the row of its pupil, read under its lock
Aplicar(p) ==
    /\ peticion[p].op = "aplicar"
    /\ LET l == peticion[p].lineas
           Con == {h \in Alumnos : l[h] # Ninguna}
       IN  /\ Escribir([h \in Alumnos |->
                 IF h \in Con THEN TrasPromocion(alumno[h], l[h]) ELSE alumno[h]])
           /\ expediente' = expediente \cup {h \in Con : AbreExpediente(l[h])}
           /\ registro' = [h \in Alumnos |-> IF h \in Con THEN l[h] ELSE registro[h]]
           /\ veces' = [h \in Alumnos |-> IF h \in Con THEN veces[h] + 1 ELSE veces[h]]
           /\ tocado' = tocado \ Con
    /\ promocion' = "APLICADA"
    /\ adelantada' = (adelantada \/ ~bajaAplicada)
    /\ Responder(p)
    /\ UNCHANGED <<tiempo, linea, bajaAplicada, tarea, ediciones, descartada, cortada>>

-----------------------------------------------------------------------------
(* dar_baja_alumnos_ultimo_curso *)

DeLaTarea(fase, lista) == tarea' = [fase |-> fase, lista |-> lista]

ContinuaSegunBorrador(h) == linea[h].decision \in {"REPITE", "CAMBIA"}

\* The list, in the 30 days after the end of the year and once
LeerBaja ==
    /\ tarea = Reposo
    /\ tiempo = 1
    /\ ~bajaAplicada
    /\ DeLaTarea("leida", {h \in Alumnos :
          alumno[h].activo /\ alumno[h].grado \in Ultimos /\ ~ContinuaSegunBorrador(h)})
    /\ UNCHANGED <<tiempo, alumno, expediente, borrador, bajaAplicada, peticion,
                   ediciones, fantasmas>>

\* One UPDATE of the rows of the list, committed by itself
DarBaja ==
    /\ tarea.fase = "leida"
    /\ Escribir([h \in Alumnos |->
          IF h \in tarea.lista THEN DadoDeBaja(alumno[h]) ELSE alumno[h]])
    /\ DeLaTarea("baja", tarea.lista)
    /\ UNCHANGED <<tiempo, expediente, borrador, bajaAplicada, peticion, ediciones,
                   tocado, adelantada, descartada, cortada>>

MarcarCalendario ==
    /\ tarea.fase = "baja"
    /\ bajaAplicada' = TRUE
    /\ DeLaTarea(IF tarea.lista = {} THEN "libre" ELSE "abrir", tarea.lista)
    /\ UNCHANGED <<tiempo, alumno, expediente, borrador, peticion, ediciones, fantasmas>>

Restantes(h) == tarea.lista \ {h}

\* CierreCuentaService.abrir, one by one
AbrirExpediente(h) ==
    /\ tarea.fase = "abrir"
    /\ h \in tarea.lista
    /\ expediente' = expediente \cup {h}
    /\ DeLaTarea(IF Restantes(h) = {} THEN "libre" ELSE "abrir", Restantes(h))
    /\ UNCHANGED <<tiempo, alumno, borrador, bajaAplicada, peticion, ediciones, fantasmas>>

\* An exception or a lost worker: what was written stays, the retry and the
\* next night start again
CaidaTarea ==
    /\ tarea # Reposo
    /\ tarea' = Reposo
    /\ cortada' = (cortada \/ tarea.fase \in {"baja", "abrir"})
    /\ UNCHANGED <<tiempo, alumno, expediente, borrador, bajaAplicada, peticion,
                   ediciones, tocado, reactivado, adelantada, descartada>>

\* abrir_masivo, from the notice before the end of the year or by hand
AbrirMasivo ==
    /\ expediente' = expediente \cup {h \in Alumnos :
          /\ IF alumno[h].activo THEN alumno[h].grado \in Ultimos ELSE alumno[h].baja = 0
          /\ ~ContinuaSegunBorrador(h)}
    /\ UNCHANGED <<tiempo, alumno, borrador, bajaAplicada, tarea, peticion, ediciones,
                   fantasmas>>

-----------------------------------------------------------------------------
(* By hand *)

\* perform_update: a PUT of the pupil writes back the row it read, with the
\* grade and the activo it was given
LeerEditar(p, h, activo, grado) ==
    /\ ediciones < MaxEdiciones
    /\ Recordar(p, [op |-> "editar", hijo |-> h,
          fila |-> [alumno[h] EXCEPT !.activo = activo, !.grado = grado,
                    !.baja = IF alumno[h].activo /\ ~activo /\ @ = Sin THEN tiempo ELSE @]])

GuardarEdicion(p) ==
    /\ peticion[p].op = "editar"
    /\ ediciones < MaxEdiciones
    /\ LET h == peticion[p].hijo
       IN  /\ Escribir([alumno EXCEPT ![h] = peticion[p].fila])
           /\ tocado' = tocado \cup {h}
    /\ ediciones' = ediciones + 1
    /\ Responder(p)
    /\ UNCHANGED <<tiempo, expediente, borrador, bajaAplicada, tarea, adelantada,
                   descartada, cortada>>

\* Bug: half a year is enough
BajaReciente(fila) == ~fila.activo /\ fila.baja # Sin /\ fila.baja <= tiempo - 1

\* Dismissed more than a year ago
BajaAntigua(fila) == ~fila.activo /\ fila.baja # Sin /\ fila.baja <= tiempo - 2

\* marcar_alumnos_pendientes_purga
MarcarPurga(h) ==
    /\ alumno[h].purga = "no"
    /\ BajaAntigua(alumno[h])
    /\ alumno' = [alumno EXCEPT ![h].purga = "pedida"]
    /\ UNCHANGED <<tiempo, expediente, borrador, bajaAplicada, tarea, peticion,
                   ediciones, fantasmas>>

\* aprobar_purga looks at the row it read ...
LeerPurgar(p, h) == alumno[h].purga = "pedida" /\ Recordar(p, [op |-> "purgar", hijo |-> h])

\* ... purgar_alumno locks it and looks at nothing
Purgar(p) ==
    /\ peticion[p].op = "purgar"
    /\ alumno' = [alumno EXCEPT ![peticion[p].hijo].grado = Sin,
                                ![peticion[p].hijo].purga = "hecha"]
    /\ Responder(p)
    /\ UNCHANGED <<tiempo, expediente, borrador, bajaAplicada, tarea, ediciones, fantasmas>>

-----------------------------------------------------------------------------
\* A refusal, an exception or a lost worker: rolled back
Deshacer(p) ==
    /\ peticion[p] # Libre
    /\ Responder(p)
    /\ UNCHANGED <<tiempo, alumno, expediente, borrador, bajaAplicada, tarea, ediciones,
                   fantasmas>>

\* No request and no task lasts from one half year to another
PasaElTiempo ==
    /\ tiempo < MaxTiempo
    /\ tarea = Reposo /\ \A p \in Peticiones : peticion[p] = Libre
    /\ tiempo' = tiempo + 1
    /\ UNCHANGED <<alumno, expediente, borrador, bajaAplicada, tarea, peticion, ediciones,
                   fantasmas>>

DePeticion(p) ==
    \/ LeerRefrescar(p) \/ Refrescar(p) \/ GuardarLinea(p)
    \/ LeerDescartar(p) \/ Descartar(p)
    \/ LeerAplicar(p) \/ Aplicar(p)
    \/ GuardarEdicion(p) \/ Purgar(p) \/ Deshacer(p)
    \/ \E h \in Alumnos :
          \/ LeerPurgar(p, h)
          \/ \E fila \in Linea : LeerLinea(p, h, fila)
          \/ \E activo \in BOOLEAN, grado \in Grados \cup {Sin} : LeerEditar(p, h, activo, grado)

DeTarea ==
    \/ LeerBaja \/ DarBaja \/ MarcarCalendario \/ CaidaTarea \/ AbrirMasivo
    \/ \E h \in Alumnos : AbrirExpediente(h) \/ MarcarPurga(h)

Next == (\E p \in Peticiones : DePeticion(p)) \/ DeTarea \/ PasaElTiempo

Spec == Init /\ [][Next]_vars

-----------------------------------------------------------------------------
(* Properties *)

\* A promotion is applied once a year, by however many requests at once;
\* only a DELETE that read it as a draft opens the way to a second one.
PromocionUnaVez == ~descartada => \A h \in Alumnos : veces[h] <= 1

\* What the history says of a pupil is so: who continues is active and in the
\* grade the history names, who leaves is not active and has a closing of
\* accounts; until somebody edits or purges the pupil, and provided the
\* nightly dismissal of the year was over before the promotion was applied.
RegistroFiel ==
    \A h \in Alumnos :
        /\ registro[h] # Ninguna
        /\ h \notin tocado
        /\ ~adelantada
        /\ alumno[h].purga # "hecha"
        => IF registro[h].decision \in Continuan
           THEN alumno[h].activo /\ alumno[h].grado = registro[h].destino
           ELSE ~alumno[h].activo /\ h \in expediente

\* Nobody leaves, by the promotion or by the nightly task, without a closing
\* of accounts, opened or about to be; unless the task is cut off between
\* its writes, which no retry makes good.
BajaConExpediente ==
    \A h \in Alumnos :
        ~alumno[h].activo /\ h \notin tocado /\ ~cortada =>
            \/ h \in expediente
            \/ tarea.fase \in {"baja", "abrir"} /\ h \in tarea.lista

\* Data are purged of pupils who left more than a year ago, however old the
\* look at them was; unless the pupil was active again in between: neither
\* the request for the purge nor the date of the dismissal is taken back.
PurgaDeBaja ==
    [][\A h \in Alumnos :
          alumno'[h].purga = "hecha" /\ alumno[h].purga # "hecha" =>
              \/ h \in reactivado
              \/ ~alumno[h].activo /\ alumno[h].baja <= tiempo - 2]_vars
=============================================================================
