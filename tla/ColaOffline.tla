---------------------------- MODULE ColaOffline ----------------------------
(***************************************************************************)
(* The offline queue of the canteen door, composed with the POST of        *)
(* Almuerzos.                                                              *)
(*                                                                         *)
(* The service worker stores in IndexedDB, under the millisecond of the    *)
(* clock, every POST whose fetch is rejected: no network, an answer lost,  *)
(* or the page giving up after 6 s while the server goes on.  Two loops    *)
(* empty the store, flushPendingRequests in the worker ("sw") and syncNow  *)
(* in the page ("hook"), each over the list it read when it started; the   *)
(* fetch of the page passes through the worker, which queues it again when *)
(* it is rejected.                                                         *)
(***************************************************************************)
EXTENDS Almuerzos, FiniteSetsExt

CONSTANTS
    MaxReloj,   \* bound: milliseconds of the clock
    Nadie       \* no scan under this id

ASSUME ColaAssumption == MaxReloj \in Nat /\ Nadie \notin Envios

VARIABLES
    pagina,      \* what the page knows of each scan
    cola,        \* the object store: the scan under each id
    reloj,       \* Date.now()
    vaciado,     \* loops that are emptying the store
    lista,       \* entries each loop has still to send, as it read them
    enVuelo,     \* fetch that waits for each request of the server
    perdidos,    \* scans overwritten by another one of the same millisecond
    rechazados   \* scans the server refused with 400

varsCola == <<pagina, cola, reloj, vaciado, lista, perdidos, rechazados>>
vars == <<varsAlmuerzo, varsCola, enVuelo>>

Instantes == 0 .. MaxReloj
Bucles == {"sw", "hook"}

-----------------------------------------------------------------------------
SinFetch == [de |-> "nadie", envio |-> Nadie, id |-> 0, resp |-> "ninguna"]

Fetch == [de : Bucles \cup {"pagina", "nadie"}, envio : Envios \cup {Nadie},
          id : Instantes, resp : {"ninguna", "espera", "ok", "400", "otra"}]

Almacen == [Instantes -> Envios \cup {Nadie}]

Vacio == [i \in Instantes |-> Nadie]

TypeOKCola ==
    /\ TypeOK
    /\ pagina \in [Envios -> {"nuevo", "enviando", "registrado", "encolado", "error"}]
    /\ cola \in Almacen
    /\ reloj \in Instantes
    /\ vaciado \subseteq Bucles
    /\ lista \in [Bucles -> Almacen]
    /\ enVuelo \in [Peticiones -> Fetch]
    /\ perdidos \subseteq Envios
    /\ rechazados \subseteq Envios

Init ==
    /\ InitAlmuerzos
    /\ pagina = [e \in Envios |-> "nuevo"]
    /\ cola = Vacio
    /\ reloj = 0
    /\ vaciado = {}
    /\ lista = [b \in Bucles |-> Vacio]
    /\ enVuelo = [p \in Peticiones |-> SinFetch]
    /\ perdidos = {}
    /\ rechazados = {}

-----------------------------------------------------------------------------
Ids(almacen) == {i \in Instantes : almacen[i] # Nadie}

EnCola == {cola[i] : i \in Ids(cola)}

\* Bug: the entry holds its id instead of the request
EncolarId(base, e) == [base EXCEPT ![reloj] = reloj]

\* idbPut: put() overwrites what has the same id
Encolar(base, e) == [base EXCEPT ![reloj] = e]

\* ... and that scan is lost
Pisados(base, e) == {base[reloj]} \ {Nadie, e}

\* The POST of scan e reaches the server, which knows its client_request_id or
\* starts to serve it
Enviar(p, de, e, id) ==
    /\ enVuelo[p] = SinFetch
    /\ peticion[p] = Libre
    /\ LET fetch(r) == [de |-> de, envio |-> e, id |-> id, resp |-> r]
       IN  IF registro[e].estado # "NINGUNO"
           THEN /\ enVuelo' = [enVuelo EXCEPT ![p] = fetch("ok")]
                /\ UNCHANGED varsAlmuerzo
           ELSE /\ enVuelo' = [enVuelo EXCEPT ![p] = fetch("espera")]
                /\ Recibir(p, e)

-----------------------------------------------------------------------------
(* The page: Comedor.tsx and networkWithOfflineQueue *)

Escanear(p, e) ==
    /\ pagina[e] = "nuevo"
    /\ Enviar(p, "pagina", e, 0)
    /\ pagina' = [pagina EXCEPT ![e] = "enviando"]
    /\ UNCHANGED <<cola, reloj, vaciado, lista, perdidos, rechazados>>

EscanearSinRed(e) ==
    /\ pagina[e] = "nuevo"
    /\ pagina' = [pagina EXCEPT ![e] = "encolado"]
    /\ cola' = Encolar(cola, e)
    /\ perdidos' = perdidos \cup Pisados(cola, e)
    /\ UNCHANGED <<varsAlmuerzo, reloj, vaciado, lista, rechazados, enVuelo>>

-----------------------------------------------------------------------------
(* The two loops *)

Enviando(b) == \E p \in Peticiones : enVuelo[p].de = b

Siguiente(b) == Min(Ids(lista[b]))

\* sync event of the worker; 'online' event or button of the page.  A
\* millisecond has passed since the last entry was stored.
EmpezarVaciado(b) ==
    /\ b \notin vaciado
    /\ cola # Vacio
    /\ cola[reloj] = Nadie
    /\ vaciado' = vaciado \cup {b}
    /\ lista' = [lista EXCEPT ![b] = cola]
    /\ UNCHANGED <<varsAlmuerzo, pagina, cola, reloj, enVuelo, perdidos, rechazados>>

EnviarSiguiente(p, b) ==
    /\ b \in vaciado
    /\ lista[b] # Vacio
    /\ ~Enviando(b)
    /\ Enviar(p, b, lista[b][Siguiente(b)], Siguiente(b))
    /\ UNCHANGED varsCola

\* Bug: the store is read again instead of the list that was taken
Releer(b, id, almacen) == almacen

\* What a loop has still to send once it is done with id
Resto(b, id, almacen) == [lista[b] EXCEPT ![id] = Nadie]

\* Bug: whatever the server answers settles the entry
CualquierRespuesta(resp) == TRUE

Definitiva(resp) == resp \in {"ok", "400"}

\* The loop b has the answer to the entry id ...
Contestada(b, id, resp) ==
    LET quedan == IF Definitiva(resp) THEN [cola EXCEPT ![id] = Nadie] ELSE cola
    IN  /\ cola' = quedan
        /\ lista' = [lista EXCEPT ![b] = Resto(b, id, quedan)]
        /\ UNCHANGED perdidos

\* ... or its fetch is rejected.  The worker goes on to the next entry; the
\* fetch of the page was queued again and answered 202, so the old id goes
Rechazada(b, id) ==
    LET e == lista[b][id]
        quedan == IF b = "hook" THEN [Encolar(cola, e) EXCEPT ![id] = Nadie] ELSE cola
    IN  /\ cola' = quedan
        /\ lista' = [lista EXCEPT ![b] = Resto(b, id, quedan)]
        /\ perdidos' = IF b = "hook" THEN perdidos \cup Pisados(cola, e) ELSE perdidos

EnviarSinRed(b) ==
    /\ b \in vaciado
    /\ lista[b] # Vacio
    /\ ~Enviando(b)
    /\ Rechazada(b, Siguiente(b))
    /\ UNCHANGED <<varsAlmuerzo, pagina, reloj, vaciado, rechazados, enVuelo>>

TerminarVaciado(b) ==
    /\ b \in vaciado
    /\ lista[b] = Vacio
    /\ vaciado' = vaciado \ {b}
    /\ UNCHANGED <<varsAlmuerzo, pagina, cola, reloj, lista, enVuelo, perdidos, rechazados>>

\* The tab is closed or the browser stops the worker
Interrumpir(b) ==
    /\ b \in vaciado
    /\ vaciado' = vaciado \ {b}
    /\ lista' = [lista EXCEPT ![b] = Vacio]
    /\ enVuelo' = [p \in Peticiones |->
                      IF enVuelo[p].de # b THEN enVuelo[p]
                      ELSE IF enVuelo[p].resp = "espera" THEN [enVuelo[p] EXCEPT !.de = "nadie"]
                      ELSE SinFetch]
    /\ UNCHANGED <<varsAlmuerzo, pagina, cola, reloj, perdidos, rechazados>>

-----------------------------------------------------------------------------
(* The server, whether or not anybody still waits *)

\* Nobody waits for an answer: the request of the server is over
ConRespuesta(p, r) ==
    IF enVuelo[p].de = "nadie" THEN SinFetch ELSE [enVuelo[p] EXCEPT !.resp = r]

Servir(p) ==
    /\ enVuelo[p].resp = "espera"
    /\ \/ /\ Contar(p)
          /\ UNCHANGED <<enVuelo, rechazados>>
       \/ /\ Insertar(p)
          /\ enVuelo' = [enVuelo EXCEPT ![p] = ConRespuesta(p, "ok")]
          /\ UNCHANGED rechazados
       \/ \E r \in {"400", "otra"} :
             /\ Deshacer(p)
             /\ enVuelo' = [enVuelo EXCEPT ![p] = ConRespuesta(p, r)]
             /\ rechazados' = IF r = "400" THEN rechazados \cup {enVuelo[p].envio}
                              ELSE rechazados
    /\ UNCHANGED <<pagina, cola, reloj, vaciado, lista, perdidos>>

\* The answer arrives
Contestar(p) ==
    /\ enVuelo[p].resp \in {"ok", "400", "otra"}
    /\ LET f == enVuelo[p]
       IN  IF f.de = "pagina"
           THEN /\ pagina' = [pagina EXCEPT ![f.envio] =
                                 IF f.resp = "ok" THEN "registrado" ELSE "error"]
                /\ UNCHANGED <<cola, lista, perdidos>>
           ELSE /\ Contestada(f.de, f.id, f.resp)
                /\ UNCHANGED pagina
    /\ enVuelo' = [enVuelo EXCEPT ![p] = SinFetch]
    /\ UNCHANGED <<varsAlmuerzo, reloj, vaciado, rechazados>>

\* The fetch is rejected first: the network, or the timeout of the page
Cortar(p) ==
    /\ enVuelo[p].de # "nadie"
    /\ LET f == enVuelo[p]
       IN  /\ IF f.de = "pagina"
              THEN /\ pagina' = [pagina EXCEPT ![f.envio] = "encolado"]
                   /\ cola' = Encolar(cola, f.envio)
                   /\ perdidos' = perdidos \cup Pisados(cola, f.envio)
                   /\ UNCHANGED lista
              ELSE /\ Rechazada(f.de, f.id)
                   /\ UNCHANGED pagina
           /\ enVuelo' = [enVuelo EXCEPT ![p] =
                             IF f.resp = "espera" THEN [f EXCEPT !.de = "nadie"] ELSE SinFetch]
    /\ UNCHANGED <<varsAlmuerzo, reloj, vaciado, rechazados>>

Tic ==
    /\ reloj < MaxReloj
    /\ reloj' = reloj + 1
    /\ UNCHANGED <<varsAlmuerzo, pagina, cola, vaciado, lista, enVuelo, perdidos, rechazados>>

-----------------------------------------------------------------------------
Next ==
    \/ \E p \in Peticiones, e \in Envios : Escanear(p, e)
    \/ \E e \in Envios : EscanearSinRed(e)
    \/ \E b \in Bucles :
          \/ EmpezarVaciado(b)
          \/ \E p \in Peticiones : EnviarSiguiente(p, b)
          \/ EnviarSinRed(b)
          \/ TerminarVaciado(b)
          \/ Interrumpir(b)
    \/ \E p \in Peticiones : Servir(p) \/ Contestar(p) \/ Cortar(p)
    \/ Tic

Spec == Init /\ [][Next]_vars

\* A fetch is sent or rejected, a request ends, an answer arrives or the fetch
\* that waits for it is rejected
Fairness ==
    /\ \A b \in Bucles :
          /\ WF_vars((\E p \in Peticiones : EnviarSiguiente(p, b)) \/ EnviarSinRed(b))
          /\ WF_vars(TerminarVaciado(b))
    /\ \A p \in Peticiones :
          /\ WF_vars(Servir(p))
          /\ WF_vars(Contestar(p) \/ Cortar(p))

FairSpec == Spec /\ Fairness

-----------------------------------------------------------------------------
(* Properties *)

\* A scan the page was told is stored (202) is in the store, or the server has
\* registered or refused it, or an entry of the same millisecond overwrote it:
\* through lost answers, two loops at once and their interruption.
NadaSePierde ==
    \A e \in Envios :
        pagina[e] = "encolado" =>
            \/ e \in EnCola
            \/ registro[e].estado # "NINGUNO"
            \/ e \in rechazados \cup perdidos

\* However often the queue sends the scans of a day again, the pupil is charged
\* once, and the balance is what the rows say.
CobradoUnaVez ==
    \A h \in Hijos :
        LET cobrados == {e \in Envios : HijoDe[e] = h /\ registro[e].cobrado}
        IN  saldo[h] = -Cardinality(cobrados) /\ saldo[h] >= -1

\* A stored scan arrives, and takes effect once
EntregaExacta == NadaSePierde /\ CobradoUnaVez

\* A loop over the store ends, with or without a network.
VaciadoTermina == \A b \in Bucles : b \in vaciado ~> b \notin vaciado
=============================================================================
