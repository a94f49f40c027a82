----------------------------- MODULE CajaProofs -----------------------------
(***************************************************************************)
(* Proofs about the cash desk and its invoices, for every set of desks,    *)
(* shifts, rows, movements, amounts and concurrent requests.               *)
(***************************************************************************)
EXTENDS Caja, FiniteSetTheorems, TLAPS
-----------------------------------------------------------------------------
(* Sums.  SumFunctionOnSet is defined by recursion on the set, so the      *)
(* first thing to see is that some function satisfies the recursion.       *)

Elegido(s) == CHOOSE x \in s : TRUE

\* g adds up f over each subset of S
Recorre(f, S, g) ==
    g = [s \in SUBSET S |->
            IF s = {} THEN 0 ELSE f[Elegido(s)] + g[s \ {Elegido(s)}]]

LEMMA ElegidoEsta ==
    ASSUME NEW s, s # {}
    PROVE  Elegido(s) \in s /\ s \ {Elegido(s)} \subseteq s /\ s \ {Elegido(s)} # s
  BY DEF Elegido

\* A non-empty family of subsets of a finite set has a minimal one.
LEMMA MinimoSubconjunto ==
    ASSUME NEW S, IsFiniteSet(S), NEW F \in SUBSET (SUBSET S), F # {}
    PROVE  \E T \in F : \A U \in SUBSET T : U # T => U \notin F
  <1>1. IsWellFoundedOn(StrictSubsetOrdering(S), SUBSET S)
    BY FS_StrictSubsetOrderingWellFounded, FS_FiniteSubsetsOfFinite
  <1>2. PICK T \in F : \A U \in F : ~ (<<U, T>> \in StrictSubsetOrdering(S))
    BY <1>1, WFMin
  <1>3. ASSUME NEW U \in SUBSET T, U # T PROVE U \notin F
    <2>1. U \in SUBSET S /\ T \in SUBSET S
      OBVIOUS
    <2>2. <<U, T>> \in StrictSubsetOrdering(S)
      BY <1>3, <2>1 DEF StrictSubsetOrdering
    <2> QED BY <1>2, <2>2
  <1> QED BY <1>3

LEMMA RecorreUnico ==
    ASSUME NEW f, NEW S, IsFiniteSet(S), NEW g, NEW h, Recorre(f, S, g), Recorre(f, S, h)
    PROVE  g = h
  <1> DEFINE F == {s \in SUBSET S : g[s] # h[s]}
  <1>1. SUFFICES ASSUME F # {} PROVE FALSE
    BY DEF Recorre
  <1>2. F \in SUBSET (SUBSET S)
    OBVIOUS
  <1> HIDE DEF F
  <1>3. PICK T \in F : \A U \in SUBSET T : U # T => U \notin F
    BY <1>1, <1>2, MinimoSubconjunto
  <1>4. /\ T \in SUBSET S /\ g[T] # h[T]
        /\ \A U \in SUBSET T : U # T => g[U] = h[U]
    BY <1>3 DEF F
  <1>5. /\ g[T] = IF T = {} THEN 0 ELSE f[Elegido(T)] + g[T \ {Elegido(T)}]
        /\ h[T] = IF T = {} THEN 0 ELSE f[Elegido(T)] + h[T \ {Elegido(T)}]
    BY <1>4 DEF Recorre
  <1>6. T # {} => g[T \ {Elegido(T)}] = h[T \ {Elegido(T)}]
    BY <1>4, ElegidoEsta
  <1> QED BY <1>4, <1>5, <1>6

LEMMA RecorreResto ==
    ASSUME NEW f, NEW S, NEW g, Recorre(f, S, g), NEW T \in SUBSET S
    PROVE  Recorre(f, T, [s \in SUBSET T |-> g[s]])
  <1> DEFINE h == [s \in SUBSET T |-> g[s]]
  <1>1. ASSUME NEW s \in SUBSET T
        PROVE  h[s] = IF s = {} THEN 0 ELSE f[Elegido(s)] + h[s \ {Elegido(s)}]
    <2>1. g[s] = IF s = {} THEN 0 ELSE f[Elegido(s)] + g[s \ {Elegido(s)}]
      BY DEF Recorre
    <2>2. h[s] = g[s] /\ h[s \ {Elegido(s)}] = g[s \ {Elegido(s)}]
      OBVIOUS
    <2> HIDE DEF h
    <2> QED BY <2>1, <2>2
  <1>2. h = [s \in SUBSET T |-> h[s]]
    OBVIOUS
  <1> HIDE DEF h
  <1>3. Recorre(f, T, h)
    BY <1>1, <1>2 DEF Recorre
  <1> QED BY <1>3 DEF h

LEMMA RecorreExiste ==
    ASSUME NEW f, NEW S, IsFiniteSet(S)
    PROVE  \E g : Recorre(f, S, g)
  <1> DEFINE F == {T \in SUBSET S : ~ \E g : Recorre(f, T, g)}
  <1>1. SUFFICES ASSUME F # {} PROVE FALSE
    OBVIOUS
  <1>2. F \in SUBSET (SUBSET S)
    OBVIOUS
  <1> HIDE DEF F
  <1>3. PICK T \in F : \A U \in SUBSET T : U # T => U \notin F
    BY <1>1, <1>2, MinimoSubconjunto
  <1> DEFINE de(s) == CHOOSE g : Recorre(f, s, g)
             h == [s \in SUBSET T |-> de(s)[s]]
             x == Elegido(T)
             k == [s \in SUBSET T |->
                      IF s # T THEN h[s] ELSE IF T = {} THEN 0 ELSE f[x] + h[T \ {x}]]
  <1>4. /\ T \in SUBSET S /\ IsFiniteSet(T)
        /\ \A s \in SUBSET T : s # T => \E g : Recorre(f, s, g)
    BY <1>2, <1>3, FS_Subset DEF F
  <1>5. ASSUME NEW s \in SUBSET T, s # T PROVE Recorre(f, s, de(s))
    BY <1>4, <1>5
  <1>6. ASSUME NEW s \in SUBSET T, s # T, s # {}
        PROVE  h[s] = f[Elegido(s)] + h[s \ {Elegido(s)}]
    <2> DEFINE u == s \ {Elegido(s)}
               r == [v \in SUBSET u |-> de(s)[v]]
    <2>1. Recorre(f, s, de(s)) /\ u \in SUBSET s /\ u # s
      BY <1>5, <1>6, ElegidoEsta
    <2>2. Recorre(f, u, r)
      BY <2>1, RecorreResto
    <2>3. u \in SUBSET T /\ u # T
      BY <1>6, <2>1
    <2>4. Recorre(f, u, de(u)) /\ IsFiniteSet(u)
      BY <1>4, <1>5, <2>3, FS_Subset
    <2> HIDE DEF r, u, de
    <2>5. de(u) = r
      BY <2>2, <2>4, RecorreUnico
    <2>6. de(u)[u] = de(s)[u]
      BY <2>5 DEF r
    <2>7. de(s)[s] = f[Elegido(s)] + de(s)[u]
      BY <1>6, <2>1 DEF Recorre, u
    <2>8. h[s] = de(s)[s] /\ h[u] = de(u)[u]
      BY <2>3
    <2> QED BY <2>6, <2>7, <2>8 DEF u
  <1>7. T # {} => h[{}] = 0
    <2>1. ASSUME T # {} PROVE de({})[{}] = 0
      <3>1. Recorre(f, {}, de({}))
        BY <1>5, <2>1
      <3> HIDE DEF de
      <3> QED BY <3>1 DEF Recorre
    <2> HIDE DEF de
    <2> QED BY <2>1
  <1> HIDE DEF h, de
  <1>8. ASSUME NEW s \in SUBSET T
        PROVE  k[s] = IF s = {} THEN 0 ELSE f[Elegido(s)] + k[s \ {Elegido(s)}]
    <2>1. s # {} => s \ {Elegido(s)} \in SUBSET T /\ s \ {Elegido(s)} # T
      BY ElegidoEsta
    <2>2. s # {} => k[s \ {Elegido(s)}] = h[s \ {Elegido(s)}]
      BY <2>1
    <2>3. CASE s = T
      BY <2>2, <2>3
    <2>4. CASE s # T
      <3>1. k[s] = h[s]
        BY <2>4
      <3> HIDE DEF k
      <3> QED BY <1>6, <1>7, <2>2, <2>4, <3>1
    <2> QED BY <2>3, <2>4
  <1>9. k = [s \in SUBSET T |-> k[s]]
    OBVIOUS
  <1> HIDE DEF k
  <1>10. Recorre(f, T, k)
    BY <1>8, <1>9 DEF Recorre
  <1> QED BY <1>3, <1>10 DEF F

LEMMA SumaRecorre ==
    ASSUME NEW f, NEW S
    PROVE  SumFunctionOnSet(f, S) = (CHOOSE g : Recorre(f, S, g))[S]
  BY DEF SumFunctionOnSet, FoldFunctionOnSet, MapThenFoldSet, Recorre, Elegido

\* The sum of integers over a finite set is an integer.
LEMMA SumaEntera ==
    ASSUME NEW D, NEW f \in [D -> Int], NEW S \in SUBSET D, IsFiniteSet(S)
    PROVE  SumFunctionOnSet(f, S) \in Int
  <1> DEFINE g == CHOOSE h : Recorre(f, S, h)
             F == {s \in SUBSET S : g[s] \notin Int}
  <1>1. Recorre(f, S, g)
    BY RecorreExiste
  <1> HIDE DEF g
  <1>2. F = {}
    <2> SUFFICES ASSUME F # {} PROVE FALSE
      OBVIOUS
    <2>1. F \in SUBSET (SUBSET S)
      OBVIOUS
    <2> HIDE DEF F
    <2>2. PICK T \in F : \A U \in SUBSET T : U # T => U \notin F
      BY <2>1, MinimoSubconjunto
    <2>3. T \in SUBSET S /\ g[T] \notin Int
      BY <2>2 DEF F
    <2>4. g[T] = IF T = {} THEN 0 ELSE f[Elegido(T)] + g[T \ {Elegido(T)}]
      BY <1>1, <2>3 DEF Recorre
    <2>5. CASE T # {}
      <3>1. f[Elegido(T)] \in Int /\ T \ {Elegido(T)} \notin F
        BY <2>2, <2>3, <2>5, ElegidoEsta
      <3>2. g[T \ {Elegido(T)}] \in Int
        BY <2>3, <3>1 DEF F
      <3> QED BY <2>3, <2>4, <2>5, <3>1, <3>2
    <2> QED BY <2>3, <2>4, <2>5
  <1>3. g[S] \in Int
    BY <1>2
  <1> QED BY <1>3, SumaRecorre DEF g
-----------------------------------------------------------------------------
(* What the requests in progress have read *)

DeCierre == {"abrir", "conciliar", "cobrar", "cerrar", "nocturna", "patch"}

LEMMA LecturaDeOperacion ==
    ASSUME NEW l \in Lecturas
    PROVE  /\ l.op \in DeCierre => l.cierre \in Cierres
           /\ l.op \in {"cerrar", "nocturna"} => l.esperado \in Int
           /\ l.op = "patch" => l.fila \in FilaCierre
           /\ l.op = "abrir" => l.caja \in Cajas
           /\ l.op = "anular" => l.origen \in Origenes
  BY DEF Lecturas, Libre, DeCierre

LEMMA LibreEsLectura == Libre \in Lecturas /\ Libre.op = "libre"
  BY DEF Lecturas, Libre

\* The movements of a shift are a finite set, since each is entered by a step
CajonFinito == \A c \in Cierres : IsFiniteSet(Todos(c))

TiposCaja == TypeOK /\ CajonFinito

LEMMA RecordarTipo ==
    ASSUME TypeOK, NEW p \in Peticiones, NEW l \in Lecturas, Recordar(p, l)
    PROVE  /\ peticion' \in [Peticiones -> Lecturas]
           /\ peticion'[p] = l
           /\ \A q \in Peticiones \ {p} : peticion'[q] = peticion[q]
  BY DEF Recordar, TypeOK

LEMMA ResponderTipo ==
    ASSUME TypeOK, NEW p \in Peticiones, Responder(p)
    PROVE  /\ peticion' \in [Peticiones -> Lecturas]
           /\ peticion'[p] = Libre
           /\ \A q \in Peticiones \ {p} : peticion'[q] = peticion[q]
  BY LibreEsLectura DEF Responder, TypeOK

\* What a closing adds up is a number.
LEMMA EsperadoEntero ==
    ASSUME TiposCaja, NEW c \in Cierres
    PROVE  EfectivoEsperado(c) \in Int /\ MontoEsperado(c) \in Int
  <1>1. /\ IsFiniteSet(Todos(c)) /\ Todos(c) \subseteq Origenes \cup Manuales
        /\ cierre[c].inicial \in Int
    BY DEF TiposCaja, CajonFinito, Todos, Movimientos, TypeOK, FilaCierre
  <1>2. IsFiniteSet(Todos(c) \cap Efectivo) /\ Todos(c) \cap Efectivo \subseteq Origenes \cup Manuales
    BY <1>1, FS_Subset
  <1>3. /\ SumFunctionOnSet(MontoDe, Todos(c)) \in Int
        /\ SumFunctionOnSet(MontoDe, Todos(c) \cap Efectivo) \in Int
    BY <1>1, <1>2, SumaEntera, CajaAssumption
  <1> QED BY <1>1, <1>3 DEF EfectivoEsperado, MontoEsperado

\* A movement that is entered or moved is the only one a shift may gain.
LEMMA CajonCrece ==
    ASSUME CajonFinito, movimiento \in [Movimientos -> Cierres \cup {Sin}],
           NEW m \in Movimientos, NEW c \in Cierres \cup {Sin},
           movimiento' = [movimiento EXCEPT ![m] = c]
    PROVE  movimiento' \in [Movimientos -> Cierres \cup {Sin}] /\ CajonFinito'
  <1>1. ASSUME NEW d \in Cierres PROVE IsFiniteSet(Todos(d)')
    <2>1. Todos(d)' \subseteq Todos(d) \cup {m}
      BY DEF Todos
    <2>2. IsFiniteSet(Todos(d) \cup {m})
      BY FS_AddElement DEF CajonFinito
    <2> QED BY <2>1, <2>2, FS_Subset
  <1> QED BY <1>1 DEF CajonFinito

-----------------------------------------------------------------------------
(* Types *)

CierresBien ==
    /\ cierre \in [Cierres -> FilaCierre]
    /\ movimiento \in [Movimientos -> Cierres \cup {Sin}]
    /\ tocado \subseteq Cierres
    /\ CajonFinito

LEMMA TocarTipo ==
    ASSUME TypeOK, NEW cs \in SUBSET Cierres, Tocar(cs)
    PROVE  tocado' \subseteq Cierres /\ tocado \subseteq tocado'
  BY DEF Tocar, TypeOK

LEMMA FilaTipo ==
    ASSUME NEW f \in FilaCierre, NEW n \in Int, NEW m \in Int, NEW k \in Cajas
    PROVE  /\ [f EXCEPT !.caja = k, !.inicial = n] \in FilaCierre
           /\ [f EXCEPT !.estado = "ABIERTO", !.caja = k, !.inicial = n] \in FilaCierre
  BY DEF FilaCierre, EstadosCierre

LEMMA FilaCerrada ==
    ASSUME NEW f \in FilaCierre, NEW n \in Int, NEW m \in Int
    PROVE  [f EXCEPT !.estado = "CERRADO", !.contado = n, !.diferencia = m] \in FilaCierre
  BY DEF FilaCierre, EstadosCierre

\* Rows, invoices and what they cover, without the count of edits
LEMMA SinTocarOrigen ==
    ASSUME TypeOKFacturacion, UNCHANGED varsOrigen, Editar \/ UNCHANGED ediciones
    PROVE  TypeOKFacturacion'
  BY FacturacionAssumption DEF TypeOKFacturacion, varsOrigen, varsFactura, Editar

LEMMA EmitirTipo ==
    ASSUME TypeOKFacturacion, NEW f \in Facturas, NEW lote \in SUBSET Origenes,
           NEW venta \in Ventas \cup {Sin}, EmitirFactura(f, lote, venta)
    PROVE  /\ factura' \in [Facturas -> EstadosFactura]
           /\ ventaDe' \in [Facturas -> Ventas \cup {Sin}]
           /\ cubre' \in [Facturas -> SUBSET Origenes]
           /\ facturaDe' \in [Origenes -> Facturas \cup {Sin}]
  BY DEF EmitirFactura, TypeOKFacturacion, EstadosFactura, Vivas

\* Emission, annulment, edition and deletion of invoices
LEMMA FacturacionTipo ==
    ASSUME TypeOK, NextFacturacion
    PROVE  TypeOKFacturacion' /\ peticion' \in [Peticiones -> Lecturas]
  <1>0. TypeOKFacturacion /\ peticion \in [Peticiones -> Lecturas]
    BY DEF TypeOK
  <1>e. Editar => ediciones' \in 0..MaxEdiciones
    BY <1>0, FacturacionAssumption DEF Editar, TypeOKFacturacion
  <1>f. \A f \in Facturas, venta \in Ventas \cup {Sin} :
           Apuntado(f, venta) \in [Origenes -> Facturas \cup {Sin}]
    BY <1>0 DEF Apuntado, TypeOKFacturacion
  <1>1. ASSUME NEW f \in Facturas, NEW lote \in SUBSET Origenes,
               NEW venta \in Ventas \cup {Sin}, EmitirFactura(f, lote, venta),
               UNCHANGED <<origen, cruzados, aMano, reescritos, ediciones, peticion>>
        PROVE  TypeOKFacturacion' /\ peticion' \in [Peticiones -> Lecturas]
    BY <1>0, <1>1, EmitirTipo DEF TypeOKFacturacion
  <1>2. ASSUME NEW f \in Facturas, NEW o \in Origenes, EmitirParaOrigen(f, o)
        PROVE  TypeOKFacturacion' /\ peticion' \in [Peticiones -> Lecturas]
    <2>1. {o} \in SUBSET Origenes /\ (IF o \in Ventas THEN o ELSE Sin) \in Ventas \cup {Sin}
      OBVIOUS
    <2> QED BY <1>1, <1>2, <2>1 DEF EmitirParaOrigen
  <1>3. ASSUME NEW f \in Facturas, NEW lote \in SUBSET Origenes, EmitirLote(f, lote)
        PROVE  TypeOKFacturacion' /\ peticion' \in [Peticiones -> Lecturas]
    BY <1>1, <1>3 DEF EmitirLote
  <1>4. ASSUME NEW f \in Facturas, AnularFactura(f)
        PROVE  TypeOKFacturacion' /\ peticion' \in [Peticiones -> Lecturas]
    <2>1. facturaDe' \in [Origenes -> Facturas \cup {Sin}]
      BY <1>0, <1>4, <1>f DEF AnularFactura, TypeOKFacturacion
    <2> QED BY <1>0, <1>4, <2>1 DEF AnularFactura, TypeOKFacturacion, EstadosFactura, Vivas
  <1>5. ASSUME NEW f \in Facturas, NEW estado \in Vivas, NEW venta \in Ventas \cup {Sin},
               EditarFactura(f, estado, venta)
        PROVE  TypeOKFacturacion' /\ peticion' \in [Peticiones -> Lecturas]
    <2>1. /\ facturaDe' \in [Origenes -> Facturas \cup {Sin}]
          /\ ediciones' \in 0..MaxEdiciones
      BY <1>5, <1>e, <1>f DEF EditarFactura
    <2>2. /\ factura' = [factura EXCEPT ![f] = estado]
          /\ ventaDe' = [ventaDe EXCEPT ![f] = venta]
          /\ aMano' \subseteq aMano \cup {f}
          /\ reescritos' \subseteq reescritos \cup Origenes
          /\ UNCHANGED <<origen, cubre, cruzados, peticion>>
      BY <1>5 DEF EditarFactura
    <2> QED BY <1>0, <2>1, <2>2 DEF TypeOKFacturacion, EstadosFactura
  <1>6. ASSUME NEW f \in Facturas, EliminarFactura(f)
        PROVE  TypeOKFacturacion' /\ peticion' \in [Peticiones -> Lecturas]
    BY <1>0, <1>6, <1>e DEF EliminarFactura, TypeOKFacturacion, EstadosFactura
  <1>7. ASSUME NEW p \in Peticiones, NEW o \in Origenes, LeerAnularOrigen(p, o)
        PROVE  TypeOKFacturacion' /\ peticion' \in [Peticiones -> Lecturas]
    <2>1. [op |-> "anular", origen |-> o] \in Lecturas
      BY DEF Lecturas
    <2> QED BY <1>0, <1>7, <2>1, RecordarTipo, SinTocarOrigen
        DEF LeerAnularOrigen, varsFacturacion
  <1>8. ASSUME NEW p \in Peticiones, AnularOrigen(p)
        PROVE  TypeOKFacturacion' /\ peticion' \in [Peticiones -> Lecturas]
    <2>1. peticion[p].origen \in Origenes
      BY <1>0, <1>8, LecturaDeOperacion DEF AnularOrigen
    <2> QED BY <1>0, <1>8, <2>1, ResponderTipo DEF AnularOrigen, TypeOKFacturacion, varsFactura
  <1>9. ASSUME NEW o \in Origenes, NEW fila \in Reescrituras(o), ReescribirOrigen(o, fila)
        PROVE  TypeOKFacturacion' /\ peticion' \in [Peticiones -> Lecturas]
    <2>1. fila[1] \in {"VIGENTE", "ANULADO"} /\ fila[2] \in Facturas \cup {Sin}
      BY <1>0 DEF Reescrituras, TypeOKFacturacion
    <2> QED BY <1>0, <1>9, <1>e, <2>1 DEF ReescribirOrigen, TypeOKFacturacion
  <1>10. ASSUME NEW o \in Origenes, EliminarVenta(o)
         PROVE  TypeOKFacturacion' /\ peticion' \in [Peticiones -> Lecturas]
    BY <1>0, <1>10, <1>e DEF EliminarVenta, TypeOKFacturacion, varsFactura
  <1> QED BY <1>2, <1>3, <1>4, <1>5, <1>6, <1>7, <1>8, <1>9, <1>10 DEF NextFacturacion

LEMMA TypePeticion ==
    ASSUME TiposCaja, NEW p \in Peticiones, DePeticion(p)
    PROVE  TiposCaja'
  <1> DEFINE l == peticion[p]
             c == l.cierre
  <1>a. /\ TypeOK /\ TypeOKFacturacion /\ CierresBien /\ l \in Lecturas
        /\ peticion \in [Peticiones -> Lecturas]
    BY DEF TiposCaja, TypeOK, CierresBien
  <1>b. /\ TypeOKFacturacion' /\ CierresBien' /\ peticion' \in [Peticiones -> Lecturas]
              => TiposCaja'
        /\ UNCHANGED varsFacturacion => TypeOKFacturacion'
        /\ UNCHANGED varsOrigen /\ Editar => TypeOKFacturacion'
        /\ UNCHANGED varsCierres => CierresBien'
        /\ UNCHANGED movimiento => CajonFinito'
        /\ Responder(p) => peticion' \in [Peticiones -> Lecturas]
    <2>1. UNCHANGED movimiento => CajonFinito'
      BY <1>a DEF CierresBien, CajonFinito, Todos
    <2>2. UNCHANGED varsCierres => CierresBien'
      BY <1>a, <2>1 DEF CierresBien, varsCierres
    <2>3. /\ UNCHANGED varsFacturacion => TypeOKFacturacion'
          /\ UNCHANGED varsOrigen /\ Editar => TypeOKFacturacion'
      BY <1>a, SinTocarOrigen DEF varsFacturacion
    <2> QED BY <1>a, <2>1, <2>2, <2>3, ResponderTipo DEF TiposCaja, TypeOK, CierresBien
  <1>c. ASSUME NEW r \in Lecturas, Recordar(p, r), UNCHANGED <<varsFacturacion, varsCierres>>
        PROVE  TiposCaja'
    BY <1>a, <1>b, <1>c, RecordarTipo
  <1>0. ASSUME NEW d \in Cierres, NEW k \in Cajas, EmpezarAbrir(p, d, k) PROVE TiposCaja'
    <2>1. [op |-> "abrir", cierre |-> d, caja |-> k] \in Lecturas
      BY DEF Lecturas
    <2> QED BY <1>0, <1>c, <2>1 DEF EmpezarAbrir
  <1>1. ASSUME NEW d \in Cierres, LeerConciliar(p, d) \/ LeerCaja(p, d) PROVE TiposCaja'
    <2>1. \A op \in {"conciliar", "cobrar"} : [op |-> op, cierre |-> d] \in Lecturas
      BY DEF Lecturas
    <2> QED BY <1>1, <1>c, <2>1 DEF LeerConciliar, LeerCaja
  <1>2. ASSUME NEW d \in Cierres, EmpezarCerrar(p, d) \/ EmpezarNocturna(p, d)
        PROVE  TiposCaja'
    <2>1. \A n \in Int, op \in {"cerrar", "nocturna"} :
             [op |-> op, cierre |-> d, esperado |-> n] \in Lecturas
      BY DEF Lecturas
    <2>2. EfectivoEsperado(d) \in Int /\ MontoEsperado(d) \in Int
      BY EsperadoEntero
    <2>3. /\ [op |-> "cerrar", cierre |-> d, esperado |-> EfectivoEsperado(d)] \in Lecturas
          /\ [op |-> "nocturna", cierre |-> d, esperado |-> MontoEsperado(d)] \in Lecturas
      BY <2>1, <2>2
    <2> QED BY <1>2, <1>c, <2>3 DEF EmpezarCerrar, EmpezarNocturna
  <1>3. ASSUME NEW d \in Cierres, LeerPatch(p, d) PROVE TiposCaja'
    <2>1. [op |-> "patch", cierre |-> d, fila |-> cierre[d]] \in Lecturas
      BY <1>a DEF Lecturas, CierresBien
    <2> QED BY <1>3, <1>c, <2>1 DEF LeerPatch
  <1>4. ASSUME NEW f \in FilaCierre, cierre' = [cierre EXCEPT ![c] = f],
               tocado' \subseteq Cierres, Responder(p), UNCHANGED movimiento,
               UNCHANGED varsFacturacion \/ (UNCHANGED varsOrigen /\ Editar)
        PROVE  TiposCaja'
    <2>1. CierresBien'
      BY <1>4, <1>a, <1>b DEF CierresBien
    <2> QED BY <1>4, <1>b, <2>1
  <1>5. ASSUME NEW inicial \in Iniciales, Abrir(p, inicial) PROVE TiposCaja'
    <2>1. [SinCierre EXCEPT !.estado = "ABIERTO", !.caja = l.caja, !.inicial = inicial]
             \in FilaCierre
      <3>1. SinCierre \in FilaCierre
        BY DEF SinCierre, FilaCierre, EstadosCierre
      <3>2. l.caja \in Cajas /\ inicial \in Int
        BY <1>5, <1>a, LecturaDeOperacion, CajaAssumption DEF Abrir
      <3> QED BY <3>1, <3>2, FilaTipo
    <2> QED BY <1>5, <1>4, <1>a, <2>1 DEF Abrir, CierresBien
  <1>6. ASSUME NEW inicial \in Iniciales, NEW k \in Cajas, GuardarPatch(p, inicial, k)
        PROVE  TiposCaja'
    <2>1. c \in Cierres /\ l.fila \in FilaCierre /\ inicial \in Int
      BY <1>6, <1>a, LecturaDeOperacion, CajaAssumption DEF GuardarPatch, DeCierre
    <2>2. [l.fila EXCEPT !.caja = k, !.inicial = inicial] \in FilaCierre
      BY <2>1, FilaTipo
    <2>3. tocado' \subseteq Cierres
      BY <1>6, <1>a, <2>1 DEF GuardarPatch, CierresBien
    <2> QED BY <1>6, <1>4, <2>2, <2>3 DEF GuardarPatch
  <1>7. ASSUME NEW contado \in Int, l.op \in {"cerrar", "nocturna"}, EscribirCierre(p, contado)
        PROVE  TiposCaja'
    <2>1. c \in Cierres /\ l.esperado \in Int
      BY <1>7, <1>a, LecturaDeOperacion DEF DeCierre
    <2>2. cierre[c] \in FilaCierre /\ contado - l.esperado \in Int
      BY <1>a, <2>1 DEF CierresBien
    <2>3. [cierre[c] EXCEPT !.estado = "CERRADO", !.contado = contado,
                            !.diferencia = contado - l.esperado] \in FilaCierre
      BY <2>2, FilaCerrada
    <2>4. /\ cierre' = [cierre EXCEPT ![c] =
                           [cierre[c] EXCEPT !.estado = "CERRADO", !.contado = contado,
                                             !.diferencia = contado - l.esperado]]
          /\ Responder(p) /\ UNCHANGED <<varsFacturacion, movimiento, tocado>>
      BY <1>7, <2>1 DEF EscribirCierre, EstadoAlCerrar
    <2> QED BY <1>4, <1>a, <2>3, <2>4 DEF CierresBien
  <1>8. ASSUME NEW contado \in Contados, Cerrar(p, contado) PROVE TiposCaja'
    BY <1>7, <1>8, CajaAssumption DEF Cerrar
  <1>9. CASE CerrarDeNoche(p)
    <2>1. l.esperado \in Int
      BY <1>9, <1>a, LecturaDeOperacion DEF CerrarDeNoche
    <2> QED BY <1>7, <1>9, <2>1 DEF CerrarDeNoche
  <1>10. CASE Conciliar(p)
    <2>1. c \in Cierres
      BY <1>10, <1>a, LecturaDeOperacion DEF Conciliar, DeCierre
    <2>2. /\ [cierre[c] EXCEPT !.estado = "CONCILIADO"] \in FilaCierre
      BY <1>a, <2>1 DEF CierresBien, FilaCierre, EstadosCierre
    <2>3. cierre' = [cierre EXCEPT ![c] = [cierre[c] EXCEPT !.estado = "CONCILIADO"]]
      BY <1>10, <2>1 DEF Conciliar
    <2> QED BY <1>10, <1>4, <1>a, <2>2, <2>3 DEF Conciliar, CierresBien
  <1>11. ASSUME NEW o \in Origenes, Cobrar(p, o) PROVE TiposCaja'
    <2>1. c \in Cierres /\ o \in Movimientos
      BY <1>11, <1>a, LecturaDeOperacion DEF Cobrar, DeCierre, Movimientos
    <2>2. /\ movimiento' = [movimiento EXCEPT ![o] = c] /\ Tocar({c})
          /\ origen' = [origen EXCEPT ![o] = "VIGENTE"]
          /\ UNCHANGED varsFactura \/ \E f \in Facturas : EmitirFactura(f, {o}, Sin)
          /\ Responder(p) /\ UNCHANGED <<cierre, cruzados, aMano, reescritos, ediciones>>
      BY <1>11 DEF Cobrar
    <2>3. movimiento' \in [Movimientos -> Cierres \cup {Sin}] /\ CajonFinito'
      BY <1>a, <2>1, <2>2, CajonCrece DEF CierresBien
    <2>4. CierresBien'
      BY <1>a, <2>1, <2>2, <2>3, TocarTipo DEF CierresBien
    <2>5. /\ factura' \in [Facturas -> EstadosFactura]
          /\ ventaDe' \in [Facturas -> Ventas \cup {Sin}]
          /\ cubre' \in [Facturas -> SUBSET Origenes]
          /\ facturaDe' \in [Origenes -> Facturas \cup {Sin}]
      <3>1. CASE UNCHANGED varsFactura
        BY <1>a, <3>1 DEF TypeOKFacturacion, varsFactura
      <3>2. ASSUME NEW f \in Facturas, EmitirFactura(f, {o}, Sin)
            PROVE  /\ factura' \in [Facturas -> EstadosFactura]
                   /\ ventaDe' \in [Facturas -> Ventas \cup {Sin}]
                   /\ cubre' \in [Facturas -> SUBSET Origenes]
                   /\ facturaDe' \in [Origenes -> Facturas \cup {Sin}]
        BY <1>a, <3>2, EmitirTipo
      <3> QED BY <2>2, <3>1, <3>2
    <2>6. TypeOKFacturacion'
      BY <1>a, <2>2, <2>5 DEF TypeOKFacturacion
    <2> QED BY <1>b, <2>2, <2>4, <2>6
  <1>12. CASE Deshacer(p)
    BY <1>12, <1>b DEF Deshacer
  <1> QED BY <1>0, <1>1, <1>2, <1>3, <1>5, <1>6, <1>8, <1>9, <1>10, <1>11, <1>12
      DEF DePeticion

LEMMA TypePaso == TiposCaja /\ [Next]_vars => TiposCaja'
  <1> SUFFICES ASSUME TiposCaja, [Next]_vars PROVE TiposCaja'
    OBVIOUS
  <1>a. TypeOK /\ TypeOKFacturacion /\ CierresBien /\ peticion \in [Peticiones -> Lecturas]
    BY DEF TiposCaja, TypeOK, CierresBien
  <1>b. /\ TypeOKFacturacion' /\ CierresBien' /\ peticion' \in [Peticiones -> Lecturas]
              => TiposCaja'
        /\ UNCHANGED varsFacturacion => TypeOKFacturacion'
        /\ UNCHANGED varsOrigen /\ Editar => TypeOKFacturacion'
        /\ UNCHANGED movimiento => CajonFinito'
    <2>1. UNCHANGED movimiento => CajonFinito'
      BY <1>a DEF CierresBien, CajonFinito, Todos
    <2>2. /\ UNCHANGED varsFacturacion => TypeOKFacturacion'
          /\ UNCHANGED varsOrigen /\ Editar => TypeOKFacturacion'
      BY <1>a, SinTocarOrigen DEF varsFacturacion
    <2> QED BY <2>1, <2>2 DEF TiposCaja, TypeOK, CierresBien
  <1>c. UNCHANGED varsCierres => CierresBien'
    BY <1>a, <1>b DEF CierresBien, varsCierres
  <1>d. ASSUME NEW m \in Movimientos, NEW c \in Cierres \cup {Sin},
               movimiento' = [movimiento EXCEPT ![m] = c], tocado' \subseteq Cierres,
               UNCHANGED <<cierre, peticion>>,
               UNCHANGED varsFacturacion \/ (UNCHANGED varsOrigen /\ Editar)
        PROVE  TiposCaja'
    <2>1. movimiento' \in [Movimientos -> Cierres \cup {Sin}] /\ CajonFinito'
      BY <1>a, <1>d, CajonCrece DEF CierresBien
    <2>2. CierresBien'
      BY <1>a, <1>d, <2>1 DEF CierresBien
    <2> QED BY <1>a, <1>b, <1>d, <2>2
  <1>1. ASSUME NEW m \in Movimientos, NEW c \in Cierres, EscribirMovimiento(m, c)
        PROVE  TiposCaja'
    <2>1. {c, movimiento[m]} \ {Sin} \in SUBSET Cierres
      BY <1>a DEF CierresBien
    <2> QED BY <1>1, <1>a, <1>d, <2>1, TocarTipo DEF EscribirMovimiento
  <1>2. ASSUME NEW m \in Movimientos, EliminarMovimiento(m) PROVE TiposCaja'
    <2>1. {movimiento[m]} \in SUBSET Cierres
      BY <1>2, <1>a DEF CierresBien, EliminarMovimiento
    <2> QED BY <1>2, <1>a, <1>d, <2>1, TocarTipo DEF EliminarMovimiento
  <1>3. ASSUME NEW m \in Manuales, NEW c \in Cierres, RegistrarMovimiento(m, c) PROVE TiposCaja'
    <2>1. m \in Movimientos
      BY DEF Movimientos
    <2> QED BY <1>3, <1>a, <1>d, <2>1 DEF RegistrarMovimiento, CierresBien
  <1>4. ASSUME NEW c \in Cierres, EliminarCierre(c) PROVE TiposCaja'
    <2>1. cierre' \in [Cierres -> FilaCierre]
      BY <1>4, <1>a DEF EliminarCierre, CierresBien, FilaCierre, EstadosCierre
    <2>2. CierresBien'
      BY <1>4, <1>a, <1>b, <2>1 DEF EliminarCierre, CierresBien
    <2> QED BY <1>4, <1>a, <1>b, <2>2 DEF EliminarCierre
  <1>5. CASE NextFacturacion /\ UNCHANGED varsCierres
    BY <1>5, <1>a, <1>b, <1>c, FacturacionTipo
  <1>6. CASE UNCHANGED vars
    BY <1>6, <1>a, <1>b, <1>c DEF vars
  <1> QED BY <1>1, <1>2, <1>3, <1>4, <1>5, <1>6, TypePeticion DEF Next, DeMovimiento

LEMMA TypeInicial == Init => TiposCaja
  <1> SUFFICES ASSUME Init PROVE TiposCaja
    OBVIOUS
  <1>1. TypeOK
    BY FacturacionAssumption
    DEF Init, InitFacturacion, TypeOK, TypeOKFacturacion, FilaCierre, SinCierre,
           EstadosCierre, EstadosFactura, Lecturas, Libre
  <1>2. \A c \in Cierres : Todos(c) = {}
    BY CajaAssumption DEF Init, Todos
  <1> QED BY <1>1, <1>2, FS_EmptySet DEF TiposCaja, CajonFinito

\* Every variable of the cash desk and of its invoices keeps its type, for any
\* desks, shifts, rows, invoice numbers and requests.
THEOREM Tipos == Spec => []TypeOK
  <1>1. TiposCaja => TypeOK
    BY DEF TiposCaja
  <1> QED BY <1>1, TypeInicial, TypePaso, PTL DEF Spec
-----------------------------------------------------------------------------
(* Invoices.  A row that nobody wrote over points to the invoice that      *)
(* covers it, and a sale to the invoice that names it; emission takes rows *)
(* that point to none.                                                     *)

Viva(f) == factura[f] \in Vivas

CubreFiel ==
    \A f \in Facturas : Viva(f) =>
        \A o \in Origenes \ reescritos : o \in cubre[f] \/ o = ventaDe[f] => facturaDe[o] = f

\* The foreign keys
ApuntaViva ==
    /\ \A o \in Origenes : facturaDe[o] # Sin => Viva(facturaDe[o])
    /\ \A f \in Facturas : ventaDe[f] # Sin => origen[ventaDe[f]] # "NINGUNO"

NuevoSinFactura == \A o \in Origenes : origen[o] = "NINGUNO" => facturaDe[o] = Sin

FacturaInv == CubreFiel /\ ApuntaViva /\ NuevoSinFactura /\ AnuladoSinFactura

LEMMA SoloFactura ==
    ASSUME [Next]_vars
    PROVE  \/ UNCHANGED varsOrigen
           \/ NextFacturacion
           \/ \E p \in Peticiones, o \in Origenes : Cobrar(p, o)
  <1>1. ASSUME NEW p \in Peticiones, DePeticion(p), \A o \in Origenes : ~Cobrar(p, o)
        PROVE  UNCHANGED varsOrigen
    BY <1>1
    DEF DePeticion, EmpezarAbrir, EmpezarCerrar, EmpezarNocturna, LeerConciliar, LeerPatch,
        LeerCaja, Abrir, GuardarPatch, Cerrar, CerrarDeNoche, EscribirCierre, Conciliar, Deshacer,
        varsFacturacion
  <1>2. \A m : DeMovimiento(m) => UNCHANGED varsOrigen
    BY DEF DeMovimiento, EscribirMovimiento, EliminarMovimiento
  <1>3. \A m, c : RegistrarMovimiento(m, c) => UNCHANGED varsOrigen
    BY DEF RegistrarMovimiento, varsFacturacion
  <1>4. \A c : EliminarCierre(c) => UNCHANGED varsOrigen
    BY DEF EliminarCierre
  <1>5. UNCHANGED vars => UNCHANGED varsOrigen
    BY DEF vars, varsFacturacion
  <1> QED BY <1>1, <1>2, <1>3, <1>4, <1>5 DEF Next

\* One invoice for rows that have none.
LEMMA EmitirPaso ==
    ASSUME TypeOKFacturacion, FacturaInv, NEW f \in Facturas, NEW lote \in SUBSET Origenes,
           NEW venta \in Ventas \cup {Sin}, venta # Sin => venta \in lote,
           \A o \in lote : facturaDe[o] = Sin /\ origen'[o] = "VIGENTE",
           \A o \in Origenes \ lote : origen'[o] = origen[o],
           EmitirFactura(f, lote, venta), UNCHANGED <<cruzados, aMano, reescritos>>
    PROVE  FacturaInv'
  <1>1. /\ ~Viva(f) /\ factura'[f] = "EMITIDA" /\ cubre'[f] = lote /\ ventaDe'[f] = venta
        /\ \A g \in Facturas \ {f} :
              factura'[g] = factura[g] /\ cubre'[g] = cubre[g] /\ ventaDe'[g] = ventaDe[g]
        /\ \A o \in Origenes : facturaDe'[o] = IF o \in lote THEN f ELSE facturaDe[o]
    BY DEF EmitirFactura, TypeOKFacturacion, Viva
  <1>2. \A o \in Origenes : facturaDe[o] # f
    BY <1>1, FacturacionAssumption DEF FacturaInv, ApuntaViva
  <1>3. /\ Viva(f)' /\ \A g \in Facturas \ {f} : Viva(g)' <=> Viva(g)
        /\ \A g \in Facturas : g # Sin
    BY <1>1, FacturacionAssumption DEF Viva, Vivas
  <1>4. CubreFiel'
    <2>1. ASSUME NEW g \in Facturas, Viva(g)', NEW o \in Origenes \ reescritos,
                 o \in cubre'[g] \/ o = ventaDe'[g]
          PROVE  facturaDe'[o] = g
      <3>1. CASE g = f
        BY <1>1, <2>1, <3>1, FacturacionAssumption
      <3>2. CASE g # f
        <4>1. facturaDe[o] = g
          BY <1>1, <1>3, <2>1, <3>2 DEF FacturaInv, CubreFiel
        <4> QED BY <1>1, <1>3, <4>1
      <3> QED BY <3>1, <3>2
    <2> QED BY <2>1 DEF CubreFiel
  <1>5. ApuntaViva'
    <2>1. \A o \in Origenes : facturaDe'[o] # Sin => factura'[facturaDe'[o]] \in Vivas
      <3>1. ASSUME NEW o \in Origenes, NEW g, facturaDe'[o] = g, g # Sin PROVE Viva(g)'
        <4>1. CASE o \in lote
          BY <1>1, <1>3, <3>1, <4>1
        <4>2. CASE o \notin lote
          <5>1. facturaDe[o] = g /\ g \in Facturas \ {f} /\ Viva(g)
            BY <1>1, <1>2, <3>1, <4>2 DEF FacturaInv, ApuntaViva, TypeOKFacturacion
          <5> QED BY <1>3, <5>1
        <4> QED BY <4>1, <4>2
      <3> QED BY <3>1 DEF Viva
    <2>2. ASSUME NEW g \in Facturas, ventaDe'[g] # Sin PROVE origen'[ventaDe'[g]] # "NINGUNO"
      <3>1. CASE g = f
        BY <1>1, <2>2, <3>1
      <3>2. CASE g # f
        <4> PICK o \in Origenes : o = ventaDe[g] /\ o = ventaDe'[g]
          BY <1>1, <2>2, <3>2, FacturacionAssumption DEF TypeOKFacturacion
        <4>1. origen[o] # "NINGUNO"
          BY <2>2, FacturacionAssumption DEF FacturaInv, ApuntaViva
        <4>2. CASE o \in lote
          BY <4>2
        <4>3. CASE o \notin lote
          BY <4>1, <4>3
        <4> QED BY <4>2, <4>3
      <3> QED BY <3>1, <3>2
    <2> QED BY <2>1, <2>2 DEF ApuntaViva, Viva
  <1>6. NuevoSinFactura'
    BY <1>1 DEF FacturaInv, NuevoSinFactura
  <1>7. ASSUME NEW o \in Origenes \ (cruzados \cup reescritos), origen'[o] = "ANULADO",
               FacturaEmitida(o)'
        PROVE  facturaDe'[o] \in aMano
    <2>1. o \notin lote /\ origen[o] = "ANULADO" /\ facturaDe'[o] = facturaDe[o]
      BY <1>1, <1>7
    <2>2. facturaDe[o] \in Facturas \ {f} /\ FacturaEmitida(o)
      BY <1>1, <1>2, <1>7, <2>1 DEF FacturaEmitida, TypeOKFacturacion
    <2> QED BY <1>7, <2>1, <2>2 DEF FacturaInv, AnuladoSinFactura
  <1>8. AnuladoSinFactura'
    BY <1>7 DEF AnuladoSinFactura
  <1> QED BY <1>4, <1>5, <1>6, <1>8 DEF FacturaInv

\* An invoice is saved: its sale points to it, and a row that ceases to point to
\* the invoice that covers it counts as written over.
LEMMA GuardarPaso ==
    ASSUME TypeOKFacturacion, FacturaInv, NEW f \in Facturas,
           NEW estado \in Vivas, NEW venta \in Ventas \cup {Sin},
           venta # Sin => origen[venta] # "NINGUNO",
           factura' = [factura EXCEPT ![f] = estado],
           ventaDe' = [ventaDe EXCEPT ![f] = venta],
           facturaDe' = Apuntado(f, venta),
           reescritos \subseteq reescritos',
           \A o \in Origenes \ reescritos' :
              facturaDe'[o] = facturaDe[o] /\ (o \in cubre[f] => facturaDe'[o] = f),
           aMano \subseteq aMano',
           estado = "EMITIDA" => factura[f] = "EMITIDA" \/ f \in aMano',
           UNCHANGED <<origen, cubre, cruzados>>
    PROVE  FacturaInv'
  <1>1. /\ factura'[f] = estado /\ ventaDe'[f] = venta
        /\ \A g \in Facturas \ {f} : factura'[g] = factura[g] /\ ventaDe'[g] = ventaDe[g]
        /\ \A o \in Origenes : facturaDe'[o] = f \/ facturaDe'[o] = Sin \/ facturaDe'[o] = facturaDe[o]
        /\ \A o \in Origenes : o = venta => facturaDe'[o] = f
    BY DEF TypeOKFacturacion, Apuntado
  <1>2. Viva(f)' /\ \A g \in Facturas : Viva(g) => Viva(g)'
    BY <1>1 DEF Viva
  <1>3. ASSUME NEW g \in Facturas, Viva(g)', NEW o \in Origenes \ reescritos',
               o \in cubre[g] \/ o = ventaDe'[g]
        PROVE  facturaDe'[o] = g
    <2>1. CASE g = f
      BY <1>1, <1>3, <2>1
    <2>2. CASE g # f
      <3>1. Viva(g) /\ o \notin reescritos /\ facturaDe'[o] = facturaDe[o]
        BY <1>1, <1>3, <2>2 DEF Viva
      <3> QED BY <1>1, <1>3, <2>2, <3>1 DEF FacturaInv, CubreFiel
    <2> QED BY <2>1, <2>2
  <1>4. CubreFiel'
    BY <1>3 DEF CubreFiel
  <1>5. ASSUME NEW o \in Origenes, NEW g, facturaDe'[o] = g, g # Sin PROVE Viva(g)'
    <2>1. CASE g = f
      BY <1>2, <2>1
    <2>2. CASE g # f
      <3>1. facturaDe[o] = g /\ g \in Facturas /\ Viva(g)
        BY <1>1, <1>5, <2>2 DEF FacturaInv, ApuntaViva, TypeOKFacturacion
      <3> QED BY <1>2, <3>1
    <2> QED BY <2>1, <2>2
  <1>6. ASSUME NEW g \in Facturas, ventaDe'[g] # Sin PROVE origen[ventaDe'[g]] # "NINGUNO"
    BY <1>1, <1>6 DEF FacturaInv, ApuntaViva
  <1>7. ApuntaViva'
    BY <1>5, <1>6 DEF ApuntaViva, Viva
  <1>8. NuevoSinFactura'
    <2>1. ASSUME NEW o \in Origenes, origen[o] = "NINGUNO" PROVE facturaDe'[o] = Sin
      <3>1. facturaDe[o] = Sin /\ o # venta
        BY <2>1, FacturacionAssumption DEF FacturaInv, NuevoSinFactura
      <3> QED BY <3>1 DEF Apuntado
    <2> QED BY <2>1 DEF NuevoSinFactura
  <1>9. ASSUME NEW o \in Origenes \ (cruzados \cup reescritos'), origen[o] = "ANULADO",
               FacturaEmitida(o)'
        PROVE  facturaDe'[o] \in aMano'
    <2>1. facturaDe'[o] = facturaDe[o] /\ o \notin reescritos
      BY <1>9
    <2>2. facturaDe[o] # Sin /\ facturaDe[o] \in Facturas /\ factura'[facturaDe[o]] = "EMITIDA"
      BY <1>9, <2>1 DEF FacturaEmitida, TypeOKFacturacion
    <2>3. CASE FacturaEmitida(o)
      BY <1>9, <2>1, <2>3 DEF FacturaInv, AnuladoSinFactura
    <2>4. CASE ~FacturaEmitida(o)
      <3>1. facturaDe[o] = f
        BY <1>1, <2>2, <2>4 DEF FacturaEmitida
      <3> QED BY <1>1, <2>1, <2>2, <2>4, <3>1 DEF FacturaEmitida
    <2> QED BY <2>3, <2>4
  <1>10. AnuladoSinFactura'
    BY <1>9 DEF AnuladoSinFactura
  <1> QED BY <1>4, <1>7, <1>8, <1>10 DEF FacturaInv

LEMMA FacturaPaso ==
    ASSUME TypeOK, FacturaInv, [Next]_vars
    PROVE  FacturaInv'
  <1>0. /\ TypeOKFacturacion /\ CubreFiel /\ ApuntaViva /\ NuevoSinFactura /\ AnuladoSinFactura
        /\ \A f \in Facturas : f # Sin
        /\ Sin \notin Origenes /\ Ventas \subseteq Origenes
    BY FacturacionAssumption DEF TypeOK, FacturaInv
  <1>1. CASE UNCHANGED varsOrigen
    BY <1>1 DEF FacturaInv, CubreFiel, ApuntaViva, Viva, NuevoSinFactura, AnuladoSinFactura,
                FacturaEmitida, varsOrigen, varsFactura
  <1>3. ASSUME NEW f \in Facturas, NEW o \in Origenes, EmitirParaOrigen(f, o) PROVE FacturaInv'
    <2> DEFINE venta == IF o \in Ventas THEN o ELSE Sin
    <2>1. {o} \in SUBSET Origenes /\ venta \in Ventas \cup {Sin} /\ (venta # Sin => venta \in {o})
      OBVIOUS
    <2>2. /\ EmitirFactura(f, {o}, venta) /\ UNCHANGED <<origen, cruzados, aMano, reescritos>>
          /\ origen[o] = "VIGENTE" /\ facturaDe[o] = Sin
      BY <1>3 DEF EmitirParaOrigen, Facturable, SinFactura
    <2> HIDE DEF venta
    <2> QED BY <1>0, <2>1, <2>2, EmitirPaso
  <1>4. ASSUME NEW f \in Facturas, NEW lote \in SUBSET Origenes, EmitirLote(f, lote)
        PROVE  FacturaInv'
    BY <1>0, <1>4, EmitirPaso DEF EmitirLote, Facturable, SinFactura
  <1>5. ASSUME NEW f \in Facturas, AnularFactura(f) PROVE FacturaInv'
    <2>1. /\ factura[f] = "EMITIDA" /\ factura' = [factura EXCEPT ![f] = "ANULADA"]
          /\ facturaDe' = Apuntado(f, ventaDe[f])
          /\ UNCHANGED <<origen, ventaDe, cubre, cruzados, aMano, reescritos>>
      BY <1>5 DEF AnularFactura
    <2>2. /\ ventaDe[f] \in Ventas \cup {Sin} /\ "ANULADA" \in Vivas
          /\ ventaDe' = [ventaDe EXCEPT ![f] = ventaDe[f]]
      BY <1>0, <2>1 DEF TypeOKFacturacion, Vivas
    <2>3. ventaDe[f] # Sin => origen[ventaDe[f]] # "NINGUNO"
      BY <1>0 DEF ApuntaViva
    <2>4. ASSUME NEW o \in Origenes \ reescritos
          PROVE  facturaDe'[o] = facturaDe[o] /\ (o \in cubre[f] => facturaDe'[o] = f)
      <3>1. o \in cubre[f] \/ o = ventaDe[f] => facturaDe[o] = f
        BY <1>0, <2>1 DEF CubreFiel, Viva, Vivas
      <3>2. facturaDe'[o] = facturaDe[o]
        BY <2>1, <3>1 DEF Apuntado
      <3> QED BY <3>1, <3>2
    <2> QED BY <1>0, <2>1, <2>2, <2>3, <2>4, GuardarPaso
  <1>6. ASSUME NEW f \in Facturas, NEW estado \in Vivas, NEW venta \in Ventas \cup {Sin},
               EditarFactura(f, estado, venta)
        PROVE  FacturaInv'
    <2>1. /\ venta # Sin => origen[venta] # "NINGUNO"
          /\ factura' = [factura EXCEPT ![f] = estado]
          /\ ventaDe' = [ventaDe EXCEPT ![f] = venta]
          /\ facturaDe' = Apuntado(f, venta)
          /\ aMano \subseteq aMano' /\ (estado # factura[f] => f \in aMano')
          /\ reescritos \subseteq reescritos'
          /\ \A o \in Origenes \ reescritos' :
                facturaDe'[o] = facturaDe[o] /\ (o \in cubre[f] => facturaDe'[o] = f)
          /\ UNCHANGED <<origen, cubre, cruzados>>
      BY <1>6 DEF EditarFactura
    <2>2. estado = "EMITIDA" => factura[f] = "EMITIDA" \/ f \in aMano'
      BY <2>1
    <2> QED BY <1>0, <2>1, <2>2, GuardarPaso
  <1>7. ASSUME NEW f \in Facturas, EliminarFactura(f) PROVE FacturaInv'
    <2>1. /\ factura'[f] = "ELIMINADA" /\ ventaDe'[f] = Sin /\ aMano' = aMano \ {f}
          /\ \A g \in Facturas \ {f} : factura'[g] = factura[g] /\ ventaDe'[g] = ventaDe[g]
          /\ \A o \in Origenes : facturaDe'[o] = IF facturaDe[o] = f THEN Sin ELSE facturaDe[o]
          /\ UNCHANGED <<origen, cubre, cruzados, reescritos>>
      BY <1>0, <1>7 DEF EliminarFactura, TypeOKFacturacion
    <2>2. ~Viva(f)' /\ \A g \in Facturas \ {f} : Viva(g)' <=> Viva(g)
      BY <2>1 DEF Viva, Vivas
    <2>3. CubreFiel'
      <3>1. ASSUME NEW g \in Facturas, Viva(g)', NEW o \in Origenes \ reescritos,
                   o \in cubre[g] \/ o = ventaDe'[g]
            PROVE  facturaDe'[o] = g
        BY <1>0, <2>1, <2>2, <3>1 DEF CubreFiel
      <3> QED BY <2>1, <3>1 DEF CubreFiel
    <2>4. ApuntaViva'
      <3>1. ASSUME NEW o \in Origenes, NEW g, facturaDe'[o] = g, g # Sin PROVE Viva(g)'
        <4>1. facturaDe[o] = g /\ g \in Facturas \ {f} /\ Viva(g)
          BY <1>0, <2>1, <3>1 DEF ApuntaViva, TypeOKFacturacion
        <4> QED BY <2>2, <4>1
      <3>2. ASSUME NEW g \in Facturas, ventaDe'[g] # Sin PROVE origen'[ventaDe'[g]] # "NINGUNO"
        BY <1>0, <2>1, <3>2 DEF ApuntaViva
      <3> QED BY <3>1, <3>2 DEF ApuntaViva, Viva
    <2>5. NuevoSinFactura'
      BY <1>0, <2>1 DEF NuevoSinFactura
    <2>6. \A o \in Origenes : FacturaEmitida(o)' =>
             FacturaEmitida(o) /\ facturaDe'[o] = facturaDe[o] /\ facturaDe[o] # f
      BY <1>0, <2>1 DEF FacturaEmitida, TypeOKFacturacion
    <2>7. AnuladoSinFactura'
      BY <1>0, <2>1, <2>6 DEF AnuladoSinFactura
    <2> QED BY <2>3, <2>4, <2>5, <2>7 DEF FacturaInv
  <1>8. ASSUME NEW p \in Peticiones, AnularOrigen(p) PROVE FacturaInv'
    <2> DEFINE o == peticion[p].origen
    <2>1. /\ origen[o] = "VIGENTE" /\ origen' = [origen EXCEPT ![o] = "ANULADO"]
          /\ cruzados' = IF FacturaEmitida(o) THEN cruzados \cup {o} ELSE cruzados
          /\ UNCHANGED <<factura, facturaDe, ventaDe, cubre, aMano, reescritos>>
      BY <1>8 DEF AnularOrigen, varsFactura
    <2> HIDE DEF o
    <2>2. CubreFiel'
      BY <1>0, <2>1 DEF CubreFiel, Viva
    <2>3. \A x \in Origenes : origen'[x] = "NINGUNO" <=> origen[x] = "NINGUNO"
      BY <1>0, <2>1 DEF TypeOKFacturacion
    <2>4. NuevoSinFactura'
      BY <1>0, <2>1, <2>3 DEF NuevoSinFactura
    <2>5. ApuntaViva'
      BY <1>0, <2>1, <2>3 DEF ApuntaViva, Viva, TypeOKFacturacion
    <2>6. \A x \in Origenes : FacturaEmitida(x)' <=> FacturaEmitida(x)
      BY <2>1 DEF FacturaEmitida
    <2>7. AnuladoSinFactura'
      BY <1>0, <2>1, <2>6 DEF AnuladoSinFactura, TypeOKFacturacion
    <2> QED BY <2>2, <2>4, <2>5, <2>7 DEF FacturaInv
  <1>9. ASSUME NEW p \in Peticiones, NEW o \in Origenes, LeerAnularOrigen(p, o)
        PROVE  FacturaInv'
    BY <1>1, <1>9 DEF LeerAnularOrigen, varsFacturacion
  <1>10. ASSUME NEW p \in Peticiones, NEW o \in Origenes, Cobrar(p, o) PROVE FacturaInv'
    <2>1. /\ origen[o] = "NINGUNO" /\ origen'[o] = "VIGENTE"
          /\ \A x \in Origenes \ {o} : origen'[x] = origen[x]
          /\ UNCHANGED <<cruzados, aMano, reescritos>>
          /\ UNCHANGED varsFactura \/ \E f \in Facturas : EmitirFactura(f, {o}, Sin)
      BY <1>0, <1>10 DEF Cobrar, TypeOKFacturacion
    <2>2. facturaDe[o] = Sin /\ {o} \in SUBSET Origenes /\ Sin \in Ventas \cup {Sin}
      BY <1>0, <2>1 DEF NuevoSinFactura
    <2>3. CASE UNCHANGED varsFactura
      <3>1. CubreFiel' /\ NuevoSinFactura'
        BY <1>0, <2>1, <2>3 DEF CubreFiel, Viva, NuevoSinFactura, varsFactura
      <3>2. \A x \in Origenes : FacturaEmitida(x)' <=> FacturaEmitida(x)
        BY <2>3 DEF FacturaEmitida, varsFactura
      <3>3. AnuladoSinFactura'
        BY <1>0, <2>1, <2>3, <3>2 DEF AnuladoSinFactura, varsFactura
      <3>4. ApuntaViva'
        BY <1>0, <2>1, <2>3 DEF ApuntaViva, Viva, varsFactura, TypeOKFacturacion
      <3> QED BY <3>1, <3>3, <3>4 DEF FacturaInv
    <2>4. ASSUME NEW f \in Facturas, EmitirFactura(f, {o}, Sin) PROVE FacturaInv'
      BY <1>0, <2>1, <2>2, <2>4, EmitirPaso
    <2> QED BY <2>1, <2>3, <2>4
  <1>11. ASSUME NEW o \in Origenes, NEW fila \in Reescrituras(o), ReescribirOrigen(o, fila)
         PROVE  FacturaInv'
    <2>1. /\ fila[1] \in {"VIGENTE", "ANULADO"}
          /\ fila[2] # Sin => fila[2] \in Facturas /\ Viva(fila[2])
      BY <1>0 DEF Reescrituras, TypeOKFacturacion, ApuntaViva, Viva
    <2>2. /\ origen[o] # "NINGUNO" /\ origen'[o] = fila[1] /\ facturaDe'[o] = fila[2]
          /\ \A x \in Origenes \ {o} : origen'[x] = origen[x] /\ facturaDe'[x] = facturaDe[x]
          /\ reescritos' = reescritos \cup {o}
          /\ UNCHANGED <<factura, ventaDe, cubre, cruzados, aMano>>
      BY <1>0, <1>11 DEF ReescribirOrigen, TypeOKFacturacion
    <2>3. CubreFiel' /\ NuevoSinFactura'
      BY <1>0, <2>1, <2>2 DEF CubreFiel, Viva, NuevoSinFactura
    <2>4. \A x \in Origenes : origen'[x] = "NINGUNO" => origen[x] = "NINGUNO"
      BY <2>1, <2>2
    <2>5. ApuntaViva'
      BY <1>0, <2>1, <2>2, <2>4 DEF ApuntaViva, Viva, TypeOKFacturacion
    <2>6. \A x \in Origenes \ {o} : FacturaEmitida(x)' <=> FacturaEmitida(x)
      BY <2>2 DEF FacturaEmitida
    <2>7. AnuladoSinFactura'
      BY <1>0, <2>2, <2>6 DEF AnuladoSinFactura
    <2> QED BY <2>3, <2>5, <2>7 DEF FacturaInv
  <1>12. ASSUME NEW o \in Origenes, EliminarVenta(o) PROVE FacturaInv'
    <2>1. /\ origen[o] # "NINGUNO" /\ origen'[o] = "ELIMINADO"
          /\ \A x \in Origenes \ {o} : origen'[x] = origen[x]
          /\ UNCHANGED <<factura, facturaDe, ventaDe, cubre, cruzados, aMano, reescritos>>
      BY <1>0, <1>12 DEF EliminarVenta, varsFactura, TypeOKFacturacion
    <2>2. CubreFiel' /\ NuevoSinFactura'
      BY <1>0, <2>1 DEF CubreFiel, Viva, NuevoSinFactura
    <2>3. ApuntaViva'
      BY <1>0, <2>1 DEF ApuntaViva, Viva, TypeOKFacturacion
    <2>4. \A x \in Origenes : FacturaEmitida(x)' <=> FacturaEmitida(x)
      BY <2>1 DEF FacturaEmitida
    <2>5. AnuladoSinFactura'
      BY <1>0, <2>1, <2>4 DEF AnuladoSinFactura
    <2> QED BY <2>2, <2>3, <2>5 DEF FacturaInv
  <1> QED BY <1>1, <1>3, <1>4, <1>5, <1>6, <1>7, <1>8, <1>9, <1>10, <1>11, <1>12, SoloFactura
      DEF NextFacturacion

\* No row is billed by two standing invoices, and an annulled row has none but
\* one that was issued while it was being annulled or that a PATCH revived, the
\* rows that a PUT/PATCH or a stale confirmation wrote over apart: for any
\* emissions, batches, annulments, corrections and deletions.
THEOREM FacturacionSegura == Spec => []FacturacionExacta
  <1>1. Init => FacturaInv
    BY FacturacionAssumption
    DEF Init, InitFacturacion, FacturaInv, CubreFiel, ApuntaViva, Viva, Vivas, NuevoSinFactura,
        AnuladoSinFactura, FacturaEmitida
  <1>2. TypeOK /\ FacturaInv => FacturacionExacta
    <2> SUFFICES ASSUME TypeOK, FacturaInv PROVE FacturacionExacta
      OBVIOUS
    <2>1. ASSUME NEW f \in Facturas, NEW g \in Facturas, f # g,
                 factura[f] = "EMITIDA", factura[g] = "EMITIDA",
                 NEW o \in cubre[f] \cap cubre[g]
          PROVE  o \in reescritos
      <3>1. o \in Origenes
        BY <2>1 DEF TypeOK, TypeOKFacturacion
      <3> QED BY <2>1, <3>1 DEF FacturaInv, CubreFiel, Viva, Vivas
    <2> QED BY <2>1 DEF FacturaInv, FacturacionExacta, FacturasDisjuntas
  <1>3. TypeOK /\ FacturaInv /\ [Next]_vars => FacturaInv'
    BY FacturaPaso
  <1> QED BY <1>1, <1>2, <1>3, Tipos, PTL DEF Spec
-----------------------------------------------------------------------------
(* The open shift of a desk.  Whoever is opening one holds the lock of the *)
(* desk and found none open; only a PATCH brings a shift to it without the *)
(* lock, and then the index keeps the two from being open at once.         *)

Abre(q) == peticion[q].op = "abrir"

AperturaUnica ==
    \A q, s \in Peticiones :
        Abre(q) /\ Abre(s) /\ peticion[q].caja = peticion[s].caja => q = s

AbiertosDistintos ==
    \A c, d \in Cierres : Abierto(c) /\ Abierto(d) /\ cierre[c].caja = cierre[d].caja => c = d

AperturaLibre ==
    \A q \in Peticiones : Abre(q) =>
        \A d \in Cierres \ tocado : cierre[d].caja = peticion[q].caja => ~Abierto(d)

AperturaInv == AperturaUnica /\ AbiertosDistintos /\ AperturaLibre

\* A step that opens and moves no shift and lets no request begin to keeps it.
LEMMA AperturaGuarda ==
    ASSUME AperturaInv, tocado \subseteq tocado',
           \A q \in Peticiones : peticion'[q] = peticion[q] \/ ~Abre(q)',
           \A d \in Cierres : Abierto(d)' => Abierto(d) /\ cierre'[d].caja = cierre[d].caja
    PROVE  AperturaInv'
  <1>1. \A q \in Peticiones : Abre(q)' => Abre(q) /\ peticion'[q] = peticion[q]
    BY DEF Abre
  <1>2. AperturaUnica'
    BY <1>1 DEF AperturaInv, AperturaUnica
  <1>3. AperturaLibre'
    BY <1>1 DEF AperturaInv, AperturaLibre
  <1>4. AbiertosDistintos'
    BY DEF AperturaInv, AbiertosDistintos
  <1> QED BY <1>2, <1>3, <1>4 DEF AperturaInv

LEMMA ResponderNoAbre ==
    ASSUME TypeOK, NEW p \in Peticiones, Responder(p)
    PROVE  \A q \in Peticiones : peticion'[q] = peticion[q] \/ ~Abre(q)'
  BY ResponderTipo, LibreEsLectura DEF Abre

LEMMA RecordarNoAbre ==
    ASSUME TypeOK, NEW p \in Peticiones, NEW l, l.op # "abrir", Recordar(p, l)
    PROVE  \A q \in Peticiones : peticion'[q] = peticion[q] \/ ~Abre(q)'
  BY DEF Recordar, Abre, TypeOK

LEMMA AperturaPaso ==
    ASSUME TiposCaja, AperturaInv, [Next]_vars
    PROVE  AperturaInv'
  <1>0. /\ TypeOK /\ cierre \in [Cierres -> FilaCierre] /\ peticion \in [Peticiones -> Lecturas]
        /\ tocado \subseteq Cierres
    BY DEF TiposCaja, TypeOK
  <1>a. ASSUME UNCHANGED cierre, tocado \subseteq tocado',
               \A q \in Peticiones : peticion'[q] = peticion[q] \/ ~Abre(q)'
        PROVE  AperturaInv'
    BY <1>a, AperturaGuarda DEF Abierto
  <1>1. ASSUME NEW p \in Peticiones, NEW c \in Cierres, NEW k \in Cajas, EmpezarAbrir(p, c, k)
        PROVE  AperturaInv'
    <2>1. /\ peticion'[p].op = "abrir" /\ peticion'[p].caja = k
          /\ \A q \in Peticiones \ {p} : peticion'[q] = peticion[q]
          /\ UNCHANGED <<cierre, tocado>>
      BY <1>1, <1>0 DEF EmpezarAbrir, Recordar, varsCierres
    <2>2. /\ \A q \in Peticiones : Abre(q) => peticion[q].caja # k
          /\ \A d \in Cierres : cierre[d].caja = k => ~Abierto(d)
      BY <1>1 DEF EmpezarAbrir, CajaBloqueada, Abre
    <2>3. AperturaUnica'
      BY <2>1, <2>2 DEF AperturaInv, AperturaUnica, Abre
    <2>4. AperturaLibre'
      BY <2>1, <2>2 DEF AperturaInv, AperturaLibre, Abre, Abierto
    <2>5. AbiertosDistintos'
      BY <2>1 DEF AperturaInv, AbiertosDistintos, Abierto
    <2> QED BY <2>3, <2>4, <2>5 DEF AperturaInv
  <1>2. ASSUME NEW p \in Peticiones, NEW inicial \in Iniciales, Abrir(p, inicial)
        PROVE  AperturaInv'
    <2>1. peticion[p].cierre \in Cierres /\ Abre(p) /\ peticion[p].caja \in Cajas /\ inicial \in Int
      BY <1>2, <1>0, LecturaDeOperacion, CajaAssumption DEF Abrir, Abre, DeCierre
    <2> PICK c \in Cierres : c = peticion[p].cierre
      BY <2>1
    <2> PICK k \in Cajas : k = peticion[p].caja
      BY <2>1
    <2> DEFINE f == [SinCierre EXCEPT !.estado = "ABIERTO", !.caja = k, !.inicial = inicial]
    <2>2. /\ cierre' = [cierre EXCEPT ![c] = f] /\ IndiceLibre(k, c)
          /\ tocado' = tocado /\ Responder(p)
      BY <1>2 DEF Abrir
    <2>3. f.caja = k
      BY DEF SinCierre
    <2> HIDE DEF f
    <2>4. cierre'[c].caja = k /\ \A d \in Cierres \ {c} : cierre'[d] = cierre[d]
      BY <1>0, <2>2, <2>3
    <2>5. \A q \in Peticiones :
             Abre(q)' => Abre(q) /\ peticion'[q] = peticion[q] /\ q # p
      BY <1>0, <2>2, ResponderTipo, LibreEsLectura DEF Abre
    <2>6. \A q \in Peticiones : Abre(q)' => peticion[q].caja # k
      BY <2>1, <2>5 DEF AperturaInv, AperturaUnica
    <2>7. AperturaUnica'
      BY <2>5 DEF AperturaInv, AperturaUnica
    <2>8. AperturaLibre'
      BY <2>2, <2>4, <2>5, <2>6 DEF AperturaInv, AperturaLibre, Abierto
    <2>9. AbiertosDistintos'
      BY <2>2, <2>4 DEF AperturaInv, AbiertosDistintos, Abierto, IndiceLibre
    <2> QED BY <2>7, <2>8, <2>9 DEF AperturaInv
  <1>3. ASSUME NEW p \in Peticiones, NEW inicial \in Iniciales, NEW k \in Cajas,
               GuardarPatch(p, inicial, k)
        PROVE  AperturaInv'
    <2>1. peticion[p].cierre \in Cierres /\ peticion[p].fila \in FilaCierre
      BY <1>3, <1>0, LecturaDeOperacion DEF GuardarPatch, DeCierre
    <2> PICK c \in Cierres : c = peticion[p].cierre
      BY <2>1
    <2> DEFINE fila == [peticion[p].fila EXCEPT !.caja = k, !.inicial = inicial]
    <2>2. /\ cierre' = [cierre EXCEPT ![c] = fila]
          /\ fila.estado = "ABIERTO" => IndiceLibre(k, c)
          /\ [cierre[c] EXCEPT !.inicial = inicial] # fila => tocado' = tocado \cup {c}
          /\ tocado \subseteq tocado'
          /\ Responder(p)
      BY <1>3 DEF GuardarPatch
    <2>3. /\ [cierre[c] EXCEPT !.inicial = inicial].estado = cierre[c].estado
          /\ [cierre[c] EXCEPT !.inicial = inicial].caja = cierre[c].caja
          /\ fila.caja = k
      BY <1>0, <2>1 DEF FilaCierre
    <2> HIDE DEF fila
    <2>4. cierre'[c] = fila /\ \A d \in Cierres \ {c} : cierre'[d] = cierre[d]
      BY <1>0, <2>2
    <2>5. \A q \in Peticiones : Abre(q)' => Abre(q) /\ peticion'[q] = peticion[q]
      BY <1>0, <2>2, ResponderNoAbre DEF Abre
    <2>6. c \notin tocado' => cierre'[c].estado = cierre[c].estado /\ cierre'[c].caja = cierre[c].caja
      BY <2>2, <2>3, <2>4
    <2>7. AperturaUnica'
      BY <2>5 DEF AperturaInv, AperturaUnica
    <2>8. AperturaLibre'
      BY <2>2, <2>4, <2>5, <2>6 DEF AperturaInv, AperturaLibre, Abierto
    <2>9. AbiertosDistintos'
      BY <2>2, <2>3, <2>4 DEF AperturaInv, AbiertosDistintos, Abierto, IndiceLibre
    <2> QED BY <2>7, <2>8, <2>9 DEF AperturaInv
  <1>4. ASSUME NEW p \in Peticiones, NEW contado, EscribirCierre(p, contado)
        PROVE  AperturaInv'
    <2>1. \A d \in Cierres : Abierto(d)' => Abierto(d) /\ cierre'[d].caja = cierre[d].caja
      BY <1>4, <1>0 DEF EscribirCierre, EstadoAlCerrar, Abierto, FilaCierre
    <2>2. tocado' = tocado /\ Responder(p)
      BY <1>4 DEF EscribirCierre
    <2> QED BY <1>0, <2>1, <2>2, ResponderNoAbre, AperturaGuarda
  <1>5. ASSUME NEW p \in Peticiones, Conciliar(p) PROVE AperturaInv'
    <2>1. \A d \in Cierres : Abierto(d)' => Abierto(d) /\ cierre'[d].caja = cierre[d].caja
      BY <1>5, <1>0 DEF Conciliar, Abierto, FilaCierre
    <2>2. tocado' = tocado /\ Responder(p)
      BY <1>5 DEF Conciliar
    <2> QED BY <1>0, <2>1, <2>2, ResponderNoAbre, AperturaGuarda
  <1>6. ASSUME NEW c \in Cierres, EliminarCierre(c) PROVE AperturaInv'
    <2>1. \A d \in Cierres : Abierto(d)' => Abierto(d) /\ cierre'[d].caja = cierre[d].caja
      BY <1>6, <1>0 DEF EliminarCierre, Abierto, FilaCierre
    <2>2. tocado' = tocado /\ peticion' = peticion
      BY <1>6 DEF EliminarCierre
    <2> QED BY <2>1, <2>2, AperturaGuarda
  <1>7. ASSUME NEW p \in Peticiones, NEW c \in Cierres,
               EmpezarCerrar(p, c) \/ EmpezarNocturna(p, c) \/ LeerConciliar(p, c)
                  \/ LeerPatch(p, c) \/ LeerCaja(p, c)
        PROVE  AperturaInv'
    <2>1. PICK l : l.op # "abrir" /\ Recordar(p, l) /\ UNCHANGED varsCierres
      BY <1>7 DEF EmpezarCerrar, EmpezarNocturna, LeerConciliar, LeerPatch, LeerCaja
    <2> QED BY <1>0, <1>a, <2>1, RecordarNoAbre DEF varsCierres
  <1>8. ASSUME NEW p \in Peticiones, NEW o \in Origenes, Cobrar(p, o) PROVE AperturaInv'
    <2>1. UNCHANGED cierre /\ tocado \subseteq tocado' /\ Responder(p)
      BY <1>8 DEF Cobrar, Tocar
    <2> QED BY <1>0, <1>a, <2>1, ResponderNoAbre
  <1>9. ASSUME NEW p \in Peticiones, Deshacer(p) PROVE AperturaInv'
    <2>1. UNCHANGED varsCierres /\ Responder(p)
      BY <1>9 DEF Deshacer
    <2> QED BY <1>0, <1>a, <2>1, ResponderNoAbre DEF varsCierres
  <1>10. ASSUME NEW m \in Movimientos, DeMovimiento(m) PROVE AperturaInv'
    <2>1. UNCHANGED <<cierre, peticion>> /\ tocado \subseteq tocado'
      BY <1>10 DEF DeMovimiento, EscribirMovimiento, EliminarMovimiento, Tocar
    <2> QED BY <1>a, <2>1
  <1>11. ASSUME NEW m \in Manuales, NEW c \in Cierres, RegistrarMovimiento(m, c)
         PROVE  AperturaInv'
    BY <1>11, <1>a DEF RegistrarMovimiento
  <1>12. CASE NextFacturacion /\ UNCHANGED varsCierres
    <2>1. ASSUME NEW p \in Peticiones, NEW o \in Origenes, LeerAnularOrigen(p, o)
          PROVE  AperturaInv'
      <3>1. PICK l : l.op # "abrir" /\ Recordar(p, l)
        BY <2>1 DEF LeerAnularOrigen
      <3> QED BY <1>0, <1>a, <1>12, <3>1, RecordarNoAbre DEF varsCierres
    <2>2. ASSUME NEW p \in Peticiones, AnularOrigen(p) PROVE AperturaInv'
      <3>1. Responder(p)
        BY <2>2 DEF AnularOrigen
      <3> QED BY <1>0, <1>a, <1>12, <3>1, ResponderNoAbre DEF varsCierres
    <2>3. CASE UNCHANGED peticion
      BY <1>a, <1>12, <2>3 DEF varsCierres
    <2> QED BY <1>12, <2>1, <2>2, <2>3
        DEF NextFacturacion, EmitirParaOrigen, EmitirLote, AnularFactura, EditarFactura,
            EliminarFactura, ReescribirOrigen, EliminarVenta
  <1>13. CASE UNCHANGED vars
    BY <1>13, <1>a DEF vars, varsCierres
  <1> QED BY <1>1, <1>2, <1>3, <1>4, <1>5, <1>6, <1>7, <1>8, <1>9, <1>10, <1>11, <1>12, <1>13
      DEF Next, DePeticion, Cerrar, CerrarDeNoche

\* A desk has at most one open shift, and nobody opens another one behind the
\* back of who holds its lock, a PATCH apart: for any desks, cashiers, closings
\* and edits that move a shift to another desk.
THEOREM CajaSegura == Spec => []UnaCajaAbierta
  <1>1. Init => AperturaInv
    BY DEF Init, AperturaInv, AperturaUnica, AbiertosDistintos, AperturaLibre, Abre, Abierto,
           SinCierre, Libre
  <1>2. AperturaInv => UnaCajaAbierta
    BY DEF AperturaInv, AbiertosDistintos, AperturaLibre, UnaCajaAbierta, Abre
  <1>3. TiposCaja /\ AperturaInv /\ [Next]_vars => AperturaInv'
    BY AperturaPaso
  <1> QED BY <1>1, <1>2, <1>3, TypeInicial, TypePaso, PTL DEF Spec
-----------------------------------------------------------------------------
(* The count of a shift.  Whoever is closing one holds its lock, under     *)
(* which it stays open and what was added up stays true; whoever changes   *)
(* its movements without that lock is remembered in tocado.                *)

Cierra(q) == peticion[q].op \in {"cerrar", "nocturna"}

Cuadrado(c, esperado) == esperado \in {EfectivoEsperado(c), MontoEsperado(c)}

CierreUnico ==
    \A q, s \in Peticiones :
        Cierra(q) /\ Cierra(s) /\ peticion[q].cierre = peticion[s].cierre => q = s

CierraFiel ==
    \A q \in Peticiones : Cierra(q) =>
        LET c == peticion[q].cierre
        IN  Abierto(c) /\ (c \notin tocado => Cuadrado(c, peticion[q].esperado))

Terminados == {"CERRADO", "CONCILIADO", "ELIMINADO"}

\* A shift that is to be reconciled was closed, and only a PATCH opens it again
ConciliaFiel ==
    \A q \in Peticiones : peticion[q].op = "conciliar" =>
        peticion[q].cierre \in tocado \/ cierre[peticion[q].cierre].estado \in Terminados

\* A row that is not there yet has no movement
NuevoSinMovimiento == \A o \in Origenes : origen[o] = "NINGUNO" => movimiento[o] = Sin

ArqueoInv == CierreUnico /\ CierraFiel /\ ConciliaFiel /\ NuevoSinMovimiento /\ ArqueoCuadra

\* Requests that close or reconcile a shift
DeCuenta == {"cerrar", "nocturna", "conciliar"}

\* What a step must respect that lets no request begin to close or reconcile.
LEMMA ArqueoGuarda ==
    ASSUME TiposCaja, ArqueoInv, tocado \subseteq tocado', NuevoSinMovimiento',
           \A q \in Peticiones : peticion'[q] = peticion[q] \/ peticion'[q].op \notin DeCuenta,
           \A c \in Cierres : CierreBloqueado(c)' /\ Abierto(c) =>
               /\ Abierto(c)'
               /\ c \notin tocado' => /\ EfectivoEsperado(c)' = EfectivoEsperado(c)
                                      /\ MontoEsperado(c)' = MontoEsperado(c),
           \A c \in Cierres \ tocado' :
               cierre[c].estado \in Terminados => cierre'[c].estado \in Terminados,
           \A c \in Cierres \ tocado' :
               cierre'[c].estado \in {"CERRADO", "CONCILIADO"} =>
                   Cuadrado(c, cierre[c].contado - cierre[c].diferencia)'
    PROVE  ArqueoInv'
  <1>1. \A q \in Peticiones :
           peticion'[q].op \in DeCuenta => peticion'[q] = peticion[q] /\ peticion[q].cierre \in Cierres
    BY LecturaDeOperacion DEF DeCuenta, DeCierre, TiposCaja, TypeOK
  <1>2. CierreUnico'
    BY <1>1 DEF ArqueoInv, CierreUnico, Cierra, DeCuenta
  <1>3. ASSUME NEW q \in Peticiones, Cierra(q)'
        PROVE  /\ Abierto(peticion[q].cierre)' /\ peticion'[q] = peticion[q]
               /\ peticion[q].cierre \notin tocado' =>
                     Cuadrado(peticion[q].cierre, peticion[q].esperado)'
    <2> PICK c \in Cierres : c = peticion[q].cierre
      BY <1>1, <1>3 DEF Cierra, DeCuenta
    <2>1. peticion'[q] = peticion[q] /\ Cierra(q)
      BY <1>1, <1>3 DEF Cierra, DeCuenta
    <2>2. CierreBloqueado(c)'
      BY <1>3, <2>1 DEF CierreBloqueado, Cierra
    <2>3. Abierto(c) /\ (c \notin tocado => Cuadrado(c, peticion[q].esperado))
      BY <2>1 DEF ArqueoInv, CierraFiel
    <2>4. /\ Abierto(c)'
          /\ c \notin tocado' => /\ EfectivoEsperado(c)' = EfectivoEsperado(c)
                                 /\ MontoEsperado(c)' = MontoEsperado(c)
      BY <2>2, <2>3
    <2>5. c \notin tocado' => peticion[q].esperado \in {EfectivoEsperado(c)', MontoEsperado(c)'}
      BY <2>3, <2>4 DEF Cuadrado
    <2> QED BY <2>1, <2>4, <2>5 DEF Cuadrado
  <1>4. CierraFiel'
    BY <1>3 DEF CierraFiel, Cuadrado
  <1>5. ConciliaFiel'
    BY <1>1 DEF ArqueoInv, ConciliaFiel, DeCuenta
  <1>6. ArqueoCuadra'
    BY DEF ArqueoCuadra, Cuadrado
  <1> QED BY <1>2, <1>4, <1>5, <1>6 DEF ArqueoInv

LEMMA ResponderNoCuenta ==
    ASSUME TypeOK, NEW p \in Peticiones, Responder(p)
    PROVE  \A q \in Peticiones : peticion'[q] = peticion[q] \/ peticion'[q].op \notin DeCuenta
  BY ResponderTipo, LibreEsLectura DEF DeCuenta

LEMMA RecordarNoCuenta ==
    ASSUME TypeOK, NEW p \in Peticiones, NEW l, l.op \notin DeCuenta, Recordar(p, l)
    PROVE  \A q \in Peticiones : peticion'[q] = peticion[q] \/ peticion'[q].op \notin DeCuenta
  BY DEF Recordar, TypeOK

\* What a shift should hold depends on its opening balance and its movements.
LEMMA EsperadoIgual ==
    ASSUME NEW c \in Cierres, cierre'[c].inicial = cierre[c].inicial, Todos(c)' = Todos(c)
    PROVE  EfectivoEsperado(c)' = EfectivoEsperado(c) /\ MontoEsperado(c)' = MontoEsperado(c)
  BY DEF EfectivoEsperado, MontoEsperado

\* Only movements change: those of a shift that is open and not being closed,
\* or else of one that is marked.
LEMMA MovimientoGuarda ==
    ASSUME TiposCaja, ArqueoInv, tocado \subseteq tocado', NuevoSinMovimiento',
           \A q \in Peticiones : peticion'[q] = peticion[q] \/ peticion'[q].op \notin DeCuenta,
           UNCHANGED cierre,
           \A c \in Cierres : \/ Todos(c)' = Todos(c)
                              \/ c \in tocado'
                              \/ Abierto(c) /\ ~CierreBloqueado(c)
    PROVE  ArqueoInv'
  <1>1. \A c \in Cierres : CierreBloqueado(c)' => CierreBloqueado(c)
    BY DEF CierreBloqueado, DeCuenta
  <1>2. ASSUME NEW c \in Cierres \ tocado', CierreBloqueado(c) \/ ~Abierto(c)
        PROVE  EfectivoEsperado(c)' = EfectivoEsperado(c) /\ MontoEsperado(c)' = MontoEsperado(c)
    BY <1>2, EsperadoIgual
  <1>3. \A c \in Cierres : CierreBloqueado(c)' /\ Abierto(c) =>
           /\ Abierto(c)'
           /\ c \notin tocado' => /\ EfectivoEsperado(c)' = EfectivoEsperado(c)
                                  /\ MontoEsperado(c)' = MontoEsperado(c)
    BY <1>1, <1>2 DEF Abierto
  <1>4. ASSUME NEW c \in Cierres \ tocado', cierre'[c].estado \in {"CERRADO", "CONCILIADO"}
        PROVE  Cuadrado(c, cierre[c].contado - cierre[c].diferencia)'
    <2>1. Cuadrado(c, cierre[c].contado - cierre[c].diferencia) /\ ~Abierto(c)
      BY <1>4 DEF ArqueoInv, ArqueoCuadra, Cuadrado, Abierto
    <2>2. EfectivoEsperado(c)' = EfectivoEsperado(c) /\ MontoEsperado(c)' = MontoEsperado(c)
      BY <1>2, <2>1
    <2> QED BY <2>1, <2>2 DEF Cuadrado
  <1> QED BY <1>3, <1>4, ArqueoGuarda

\* Only the row of a shift that nobody is closing any more changes.
LEMMA FilaGuarda ==
    ASSUME TiposCaja, ArqueoInv, tocado \subseteq tocado',
           \A q \in Peticiones : peticion'[q] = peticion[q] \/ peticion'[q].op \notin DeCuenta,
           UNCHANGED <<movimiento, origen>>,
           NEW c \in Cierres, NEW f \in FilaCierre, cierre' = [cierre EXCEPT ![c] = f],
           ~CierreBloqueado(c)',
           c \notin tocado' =>
               /\ cierre[c].estado \in Terminados => f.estado \in Terminados
               /\ f.estado \in {"CERRADO", "CONCILIADO"} =>
                     f.inicial = cierre[c].inicial /\ Cuadrado(c, f.contado - f.diferencia)
    PROVE  ArqueoInv'
  <1>1. cierre'[c] = f /\ \A d \in Cierres \ {c} : cierre'[d] = cierre[d]
    BY DEF TiposCaja, TypeOK
  <1>2. NuevoSinMovimiento' /\ \A d \in Cierres : Todos(d)' = Todos(d)
    BY DEF ArqueoInv, NuevoSinMovimiento, Todos
  <1>3. \A d \in Cierres \ {c} :
           EfectivoEsperado(d)' = EfectivoEsperado(d) /\ MontoEsperado(d)' = MontoEsperado(d)
    BY <1>1, <1>2, EsperadoIgual
  <1>4. \A d \in Cierres : CierreBloqueado(d)' /\ Abierto(d) =>
           /\ Abierto(d)'
           /\ d \notin tocado' => /\ EfectivoEsperado(d)' = EfectivoEsperado(d)
                                  /\ MontoEsperado(d)' = MontoEsperado(d)
    BY <1>1, <1>3 DEF Abierto
  <1>5. \A d \in Cierres \ tocado' :
           cierre[d].estado \in Terminados => cierre'[d].estado \in Terminados
    BY <1>1
  <1>6. ASSUME NEW d \in Cierres \ tocado', cierre'[d].estado \in {"CERRADO", "CONCILIADO"}
        PROVE  Cuadrado(d, cierre[d].contado - cierre[d].diferencia)'
    <2>1. CASE d # c
      <3>1. Cuadrado(d, cierre[d].contado - cierre[d].diferencia)
        BY <1>1, <1>6, <2>1 DEF ArqueoInv, ArqueoCuadra, Cuadrado
      <3> QED BY <1>1, <1>3, <2>1, <3>1 DEF Cuadrado
    <2>2. CASE d = c
      <3>1. f.inicial = cierre[c].inicial /\ Cuadrado(c, f.contado - f.diferencia)
        BY <1>1, <1>6, <2>2
      <3>2. EfectivoEsperado(c)' = EfectivoEsperado(c) /\ MontoEsperado(c)' = MontoEsperado(c)
        BY <1>1, <1>2, <3>1, EsperadoIgual
      <3> QED BY <1>1, <2>2, <3>1, <3>2 DEF Cuadrado
    <2> QED BY <2>1, <2>2
  <1> QED BY <1>2, <1>4, <1>5, <1>6, ArqueoGuarda

\* Requests that read nothing but keep a note, and invoices: no shift changes.
LEMMA SinCambioDeCierre ==
    ASSUME TiposCaja, ArqueoInv, UNCHANGED varsCierres,
           \A o \in Origenes : origen'[o] = "NINGUNO" => origen[o] = "NINGUNO",
           \A q \in Peticiones : peticion'[q] = peticion[q] \/ peticion'[q].op \notin DeCuenta
    PROVE  ArqueoInv'
  <1>1. NuevoSinMovimiento'
    BY DEF ArqueoInv, NuevoSinMovimiento, varsCierres
  <1>2. \A c \in Cierres : Todos(c)' = Todos(c)
    BY DEF Todos, varsCierres
  <1> QED BY <1>1, <1>2, MovimientoGuarda DEF varsCierres

\* Whoever begins to close a shift finds it open, unlocked and adds it up.
LEMMA EmpezarGuarda ==
    ASSUME TiposCaja, ArqueoInv, UNCHANGED <<varsCierres, origen>>,
           NEW p \in Peticiones, NEW l \in Lecturas, Recordar(p, l),
           NEW c \in Cierres, l.cierre = c, l.op \in {"cerrar", "nocturna"},
           Abierto(c), ~CierreBloqueado(c), Cuadrado(c, l.esperado)
    PROVE  ArqueoInv'
  <1>1. /\ peticion'[p] = l
        /\ \A q \in Peticiones \ {p} : peticion'[q] = peticion[q]
    BY RecordarTipo DEF TiposCaja
  <1>2. /\ \A d \in Cierres : Abierto(d)' <=> Abierto(d)
        /\ \A d \in Cierres : Todos(d)' = Todos(d) /\ cierre'[d] = cierre[d]
        /\ tocado' = tocado
    BY DEF Abierto, Todos, varsCierres
  <1>3. ASSUME NEW d \in Cierres
        PROVE  EfectivoEsperado(d)' = EfectivoEsperado(d) /\ MontoEsperado(d)' = MontoEsperado(d)
    BY <1>2, EsperadoIgual
  <1>4. \A q \in Peticiones \ {p} : Cierra(q) => peticion[q].cierre # c
    BY DEF CierreBloqueado, Cierra
  <1>5. CierreUnico'
    BY <1>1, <1>4 DEF ArqueoInv, CierreUnico, Cierra
  <1>6. ASSUME NEW q \in Peticiones, Cierra(q)'
        PROVE  \E d \in Cierres :
                  /\ peticion'[q].cierre = d /\ Abierto(d)'
                  /\ d \notin tocado' =>
                        peticion'[q].esperado \in {EfectivoEsperado(d)', MontoEsperado(d)'}
    <2>1. CASE q = p
      <3>1. peticion'[q] = l /\ Abierto(c)'
        BY <1>1, <1>2, <2>1
      <3>2. l.esperado \in {EfectivoEsperado(c)', MontoEsperado(c)'}
        BY <1>3 DEF Cuadrado
      <3> QED BY <3>1, <3>2
    <2>2. CASE q # p
      <3>1. Cierra(q) /\ peticion'[q] = peticion[q]
        BY <1>1, <1>6, <2>2 DEF Cierra
      <3> PICK d \in Cierres : d = peticion[q].cierre
        BY <3>1, LecturaDeOperacion DEF Cierra, DeCierre, TiposCaja, TypeOK
      <3>2. Abierto(d) /\ (d \notin tocado => Cuadrado(d, peticion[q].esperado))
        BY <3>1 DEF ArqueoInv, CierraFiel
      <3>3. /\ Abierto(d)'
            /\ d \notin tocado' => peticion[q].esperado \in {EfectivoEsperado(d)', MontoEsperado(d)'}
        BY <1>2, <1>3, <3>2 DEF Cuadrado
      <3> QED BY <3>1, <3>3
    <2> QED BY <2>1, <2>2
  <1>7. CierraFiel'
    BY <1>6 DEF CierraFiel, Cuadrado
  <1>8. ConciliaFiel'
    BY <1>1, <1>2, LecturaDeOperacion
    DEF ArqueoInv, ConciliaFiel, TiposCaja, TypeOK, DeCierre
  <1>9. NuevoSinMovimiento'
    BY DEF ArqueoInv, NuevoSinMovimiento, varsCierres
  <1>10. ArqueoCuadra'
    BY <1>2, <1>3 DEF ArqueoInv, ArqueoCuadra
  <1> QED BY <1>5, <1>7, <1>8, <1>9, <1>10 DEF ArqueoInv

\* A movement that comes or moves is noticed by the shifts it leaves and enters.
LEMMA TodosIguales ==
    ASSUME TypeOK, NEW m \in Movimientos, NEW c, movimiento' = [movimiento EXCEPT ![m] = c],
           NEW d \in Cierres, d # c, d # movimiento[m]
    PROVE  Todos(d)' = Todos(d)
  BY DEF Todos, TypeOK

LEMMA BloqueoNoCrece ==
    ASSUME NEW c, CierreBloqueado(c)',
           \A q \in Peticiones : peticion'[q] = peticion[q] \/ peticion'[q].op \notin DeCuenta
    PROVE  CierreBloqueado(c)
  BY DEF CierreBloqueado, DeCuenta

\* The steps that write the row of a shift.
LEMMA ArqueoFila ==
    ASSUME TiposCaja, ArqueoInv, NEW p \in Peticiones
    PROVE  /\ \A inicial \in Iniciales : Abrir(p, inicial) => ArqueoInv'
           /\ \A inicial \in Iniciales, k \in Cajas : GuardarPatch(p, inicial, k) => ArqueoInv'
           /\ \A contado \in Contados : Cerrar(p, contado) => ArqueoInv'
           /\ CerrarDeNoche(p) \/ Conciliar(p) => ArqueoInv'
  <1> DEFINE l == peticion[p]
  <1>a. TypeOK /\ l \in Lecturas /\ cierre \in [Cierres -> FilaCierre]
    BY DEF TiposCaja, TypeOK
  <1>b. UNCHANGED varsFacturacion \/ UNCHANGED varsOrigen => UNCHANGED origen
    BY DEF varsFacturacion, varsOrigen
  <1>1. ASSUME NEW inicial \in Iniciales, Abrir(p, inicial) PROVE ArqueoInv'
    <2>1. l.cierre \in Cierres
      BY <1>1, <1>a, LecturaDeOperacion DEF Abrir, DeCierre
    <2> PICK c \in Cierres : c = l.cierre
      BY <2>1
    <2> DEFINE f == [SinCierre EXCEPT !.estado = "ABIERTO", !.caja = l.caja, !.inicial = inicial]
    <2>2. /\ cierre[c].estado = "NINGUNO" /\ cierre' = [cierre EXCEPT ![c] = f]
          /\ Responder(p) /\ UNCHANGED <<movimiento, tocado, origen>>
      BY <1>1, <1>b DEF Abrir
    <2>3. f \in FilaCierre /\ f.estado = "ABIERTO"
      <3>1. SinCierre \in FilaCierre
        BY DEF SinCierre, FilaCierre, EstadosCierre
      <3>2. l.caja \in Cajas /\ inicial \in Int
        BY <1>1, <1>a, LecturaDeOperacion, CajaAssumption DEF Abrir
      <3> QED BY <3>1, <3>2, FilaTipo DEF SinCierre
    <2> HIDE DEF f
    <2>4. ~CierreBloqueado(c)
      BY <2>2 DEF ArqueoInv, CierraFiel, CierreBloqueado, Cierra, Abierto
    <2>5. \A q \in Peticiones : peticion'[q] = peticion[q] \/ peticion'[q].op \notin DeCuenta
      BY <2>2, <1>a, ResponderNoCuenta
    <2>6. ~CierreBloqueado(c)'
      BY <2>4, <2>5, BloqueoNoCrece
    <2>7. cierre[c].estado \notin Terminados
      BY <2>2 DEF Terminados
    <2> QED BY <2>2, <2>3, <2>5, <2>6, <2>7, FilaGuarda
  <1>2. ASSUME NEW inicial \in Iniciales, NEW k \in Cajas, GuardarPatch(p, inicial, k)
        PROVE  ArqueoInv'
    <2>1. l.cierre \in Cierres /\ l.fila \in FilaCierre
      BY <1>2, <1>a, LecturaDeOperacion DEF GuardarPatch, DeCierre
    <2> PICK c \in Cierres : c = l.cierre
      BY <2>1
    <2> DEFINE f == [l.fila EXCEPT !.caja = k, !.inicial = inicial]
    <2>2. /\ ~CierreBloqueado(c) /\ cierre' = [cierre EXCEPT ![c] = f]
          /\ Responder(p) /\ UNCHANGED <<movimiento, origen>> /\ tocado \subseteq tocado'
          /\ c \notin tocado' => /\ [cierre[c] EXCEPT !.inicial = inicial] = f
                                 /\ Abierto(c) \/ f = cierre[c]
      BY <1>2, <1>b DEF GuardarPatch
    <2>3. f \in FilaCierre
      BY <2>1, FilaTipo, CajaAssumption
    <2>4. [cierre[c] EXCEPT !.inicial = inicial].estado = cierre[c].estado
      BY <1>a DEF FilaCierre
    <2> HIDE DEF f
    <2>5. \A q \in Peticiones : peticion'[q] = peticion[q] \/ peticion'[q].op \notin DeCuenta
      BY <2>2, <1>a, ResponderNoCuenta
    <2>6. ~CierreBloqueado(c)'
      BY <2>2, <2>5, BloqueoNoCrece
    <2>7. ASSUME c \notin tocado'
          PROVE  /\ cierre[c].estado \in Terminados => f.estado \in Terminados
                 /\ f.estado \in {"CERRADO", "CONCILIADO"} =>
                       f.inicial = cierre[c].inicial /\ Cuadrado(c, f.contado - f.diferencia)
      <3>1. CASE Abierto(c)
        BY <2>2, <2>4, <2>7, <3>1 DEF Abierto, Terminados
      <3>2. CASE f = cierre[c]
        BY <2>2, <2>7, <3>2 DEF ArqueoInv, ArqueoCuadra, Cuadrado
      <3> QED BY <2>2, <2>7, <3>1, <3>2
    <2> QED BY <2>2, <2>3, <2>5, <2>6, <2>7, FilaGuarda
  <1>3. ASSUME NEW contado \in Int, Cierra(p), EscribirCierre(p, contado) PROVE ArqueoInv'
    <2>1. l.cierre \in Cierres /\ l.esperado \in Int
      BY <1>3, <1>a, LecturaDeOperacion DEF Cierra, DeCierre
    <2> PICK c \in Cierres : c = l.cierre
      BY <2>1
    <2> DEFINE f == [cierre[c] EXCEPT !.estado = "CERRADO", !.contado = contado,
                                      !.diferencia = contado - l.esperado]
    <2>2. /\ cierre' = [cierre EXCEPT ![c] = f]
          /\ Responder(p) /\ UNCHANGED <<movimiento, tocado, origen>>
      BY <1>3, <1>b DEF EscribirCierre, EstadoAlCerrar
    <2>3. cierre[c] \in FilaCierre /\ contado - l.esperado \in Int
      BY <1>a, <2>1
    <2>4. f \in FilaCierre
      BY <2>3, FilaCerrada
    <2>5. /\ f.estado = "CERRADO" /\ f.inicial = cierre[c].inicial
          /\ f.contado = contado /\ f.diferencia = contado - l.esperado
      BY <2>3 DEF FilaCierre
    <2> HIDE DEF f
    <2>6. f.contado - f.diferencia = l.esperado
      BY <2>1, <2>5
    <2>7. c \notin tocado => Cuadrado(c, l.esperado)
      BY <1>3 DEF ArqueoInv, CierraFiel
    <2>8. \A q \in Peticiones : peticion'[q] = peticion[q] \/ peticion'[q].op \notin DeCuenta
      BY <2>2, <1>a, ResponderNoCuenta
    <2>9. ~CierreBloqueado(c)'
      <3>1. \A q \in Peticiones : Cierra(q)' => q # p /\ peticion'[q] = peticion[q]
        BY <2>2, <1>a, ResponderTipo, LibreEsLectura DEF Cierra
      <3> QED BY <1>3, <3>1 DEF ArqueoInv, CierreUnico, CierreBloqueado, Cierra
    <2>10. f.estado \in Terminados
      BY <2>5 DEF Terminados
    <2>11. c \notin tocado' =>
               /\ cierre[c].estado \in Terminados => f.estado \in Terminados
               /\ f.estado \in {"CERRADO", "CONCILIADO"} =>
                     f.inicial = cierre[c].inicial /\ Cuadrado(c, f.contado - f.diferencia)
      BY <2>2, <2>5, <2>6, <2>7, <2>10
    <2> QED BY <2>2, <2>4, <2>8, <2>9, <2>11, FilaGuarda
  <1>4. ASSUME NEW contado \in Contados, Cerrar(p, contado) PROVE ArqueoInv'
    BY <1>3, <1>4, CajaAssumption DEF Cerrar, Cierra
  <1>5. CASE CerrarDeNoche(p)
    <2>1. l.esperado \in Int /\ Cierra(p)
      BY <1>5, <1>a, LecturaDeOperacion DEF CerrarDeNoche, Cierra
    <2> QED BY <1>3, <1>5, <2>1 DEF CerrarDeNoche
  <1>6. CASE Conciliar(p)
    <2>1. l.cierre \in Cierres
      BY <1>6, <1>a, LecturaDeOperacion DEF Conciliar, DeCierre
    <2> PICK c \in Cierres : c = l.cierre
      BY <2>1
    <2> DEFINE f == [cierre[c] EXCEPT !.estado = "CONCILIADO"]
    <2>2. /\ ~CierreBloqueado(c) /\ cierre[c].estado # "ELIMINADO"
          /\ cierre' = [cierre EXCEPT ![c] = f]
          /\ Responder(p) /\ UNCHANGED <<movimiento, tocado, origen>>
      BY <1>6, <1>b DEF Conciliar
    <2>3. /\ f \in FilaCierre /\ f.estado = "CONCILIADO" /\ f.inicial = cierre[c].inicial
          /\ f.contado = cierre[c].contado /\ f.diferencia = cierre[c].diferencia
      BY <1>a DEF FilaCierre, EstadosCierre
    <2> HIDE DEF f
    <2>4. c \notin tocado => cierre[c].estado \in {"CERRADO", "CONCILIADO"}
      BY <1>6, <2>2 DEF ArqueoInv, ConciliaFiel, Conciliar, Terminados
    <2>5. c \notin tocado => Cuadrado(c, f.contado - f.diferencia)
      BY <2>3, <2>4 DEF ArqueoInv, ArqueoCuadra, Cuadrado
    <2>6. \A q \in Peticiones : peticion'[q] = peticion[q] \/ peticion'[q].op \notin DeCuenta
      BY <2>2, <1>a, ResponderNoCuenta
    <2>7. ~CierreBloqueado(c)'
      BY <2>2, <2>6, BloqueoNoCrece
    <2>8. f.estado \in Terminados
      BY <2>3 DEF Terminados
    <2> QED BY <2>2, <2>3, <2>5, <2>6, <2>7, <2>8, FilaGuarda
  <1> QED BY <1>1, <1>2, <1>4, <1>5, <1>6

LEMMA EliminarGuarda ==
    ASSUME TiposCaja, ArqueoInv, NEW c \in Cierres, EliminarCierre(c)
    PROVE  ArqueoInv'
  <1>a. cierre \in [Cierres -> FilaCierre]
    BY DEF TiposCaja, TypeOK
  <1>b. UNCHANGED varsFacturacion \/ UNCHANGED varsOrigen => UNCHANGED origen
    BY DEF varsFacturacion, varsOrigen
  <1> DEFINE f == [cierre[c] EXCEPT !.estado = "ELIMINADO"]
  <1>1. /\ ~CierreBloqueado(c) /\ cierre' = [cierre EXCEPT ![c] = f]
        /\ UNCHANGED <<movimiento, tocado, origen, peticion>>
    BY <1>b DEF EliminarCierre
  <1>2. f \in FilaCierre /\ f.estado = "ELIMINADO"
    BY <1>a DEF FilaCierre, EstadosCierre
  <1> HIDE DEF f
  <1>3. f.estado \in Terminados
    BY <1>2 DEF Terminados
  <1>4. ~CierreBloqueado(c)'
    BY <1>1 DEF CierreBloqueado
  <1> QED BY <1>1, <1>2, <1>3, <1>4, FilaGuarda

\* The steps that write movements.
LEMMA ArqueoMovimiento ==
    ASSUME TiposCaja, ArqueoInv, NEW m \in Movimientos
    PROVE  /\ \A c \in Cierres : m \in Manuales /\ RegistrarMovimiento(m, c) => ArqueoInv'
           /\ DeMovimiento(m) => ArqueoInv'
           /\ \A p \in Peticiones : m \in Origenes /\ Cobrar(p, m) => ArqueoInv'
  <1>a. /\ TypeOK /\ NuevoSinMovimiento /\ peticion \in [Peticiones -> Lecturas]
        /\ movimiento \in [Movimientos -> Cierres \cup {Sin}]
        /\ UNCHANGED varsFacturacion \/ UNCHANGED varsOrigen => UNCHANGED origen
    BY DEF TiposCaja, TypeOK, ArqueoInv, varsFacturacion, varsOrigen
  <1>1. ASSUME NEW c \in Cierres, m \in Manuales, RegistrarMovimiento(m, c) PROVE ArqueoInv'
    <2>1. /\ movimiento' = [movimiento EXCEPT ![m] = c] /\ movimiento[m] = Sin
          /\ Abierto(c) /\ ~CierreBloqueado(c)
          /\ UNCHANGED <<cierre, tocado, peticion, origen>>
      BY <1>1, <1>a DEF RegistrarMovimiento, SigueAbierto
    <2>2. NuevoSinMovimiento'
      BY <1>1, <1>a, <2>1, CajaAssumption DEF NuevoSinMovimiento, Movimientos
    <2>3. \A d \in Cierres : d # c => Todos(d)' = Todos(d)
      BY <1>a, <2>1, TodosIguales, CajaAssumption
    <2> QED BY <2>1, <2>2, <2>3, MovimientoGuarda
  <1>2. ASSUME NEW c \in Cierres \cup {Sin}, NEW cs,
               movimiento' = [movimiento EXCEPT ![m] = c], Tocar(cs),
               \A d \in Cierres : d = c \/ d = movimiento[m] => d \in cs,
               UNCHANGED <<varsOrigen, cierre, peticion>>,
               m \in Origenes => origen[m] # "NINGUNO"
        PROVE  ArqueoInv'
    <2>1. NuevoSinMovimiento'
      BY <1>2, <1>a DEF NuevoSinMovimiento, Movimientos
    <2>2. \A d \in Cierres : d # c /\ d # movimiento[m] => Todos(d)' = Todos(d)
      BY <1>a, <1>2, TodosIguales
    <2>3. \A d \in Cierres : d \in cs => d \in tocado' \/ (Abierto(d) /\ ~CierreBloqueado(d))
      BY <1>2 DEF Tocar
    <2>4. tocado \subseteq tocado'
      BY <1>2 DEF Tocar
    <2> QED BY <1>2, <2>1, <2>2, <2>3, <2>4, MovimientoGuarda
  <1>3. CASE DeMovimiento(m)
    <2>1. ASSUME NEW c \in Cierres, EscribirMovimiento(m, c) PROVE ArqueoInv'
      <3>1. m \in Origenes => origen[m] # "NINGUNO"
        BY <2>1, <1>a DEF EscribirMovimiento, NuevoSinMovimiento
      <3>2. \A d \in Cierres : d = c \/ d = movimiento[m] => d \in {c, movimiento[m]} \ {Sin}
        BY CajaAssumption
      <3> QED BY <1>2, <2>1, <3>1, <3>2 DEF EscribirMovimiento
    <2>2. CASE EliminarMovimiento(m)
      <3>1. m \in Origenes => origen[m] # "NINGUNO"
        BY <2>2, <1>a DEF EliminarMovimiento, NuevoSinMovimiento
      <3>2. \A d \in Cierres : d = Sin \/ d = movimiento[m] => d \in {movimiento[m]}
        BY CajaAssumption
      <3> QED BY <1>2, <2>2, <3>1, <3>2 DEF EliminarMovimiento
    <2> QED BY <1>3, <2>1, <2>2 DEF DeMovimiento
  <1>4. ASSUME NEW p \in Peticiones, m \in Origenes, Cobrar(p, m) PROVE ArqueoInv'
    <2>1. peticion[p].cierre \in Cierres
      BY <1>4, <1>a, LecturaDeOperacion DEF Cobrar, DeCierre
    <2> PICK c \in Cierres : c = peticion[p].cierre
      BY <2>1
    <2>2. /\ origen[m] = "NINGUNO" /\ movimiento' = [movimiento EXCEPT ![m] = c] /\ Tocar({c})
          /\ origen' = [origen EXCEPT ![m] = "VIGENTE"] /\ Responder(p) /\ UNCHANGED cierre
      BY <1>4 DEF Cobrar
    <2>3. movimiento[m] = Sin
      BY <1>4, <1>a, <2>2 DEF NuevoSinMovimiento
    <2>4. NuevoSinMovimiento'
      <3>1. origen'[m] = "VIGENTE"
        BY <1>4, <1>a, <2>2 DEF TypeOK, TypeOKFacturacion
      <3>2. \A o \in Origenes \ {m} : origen'[o] = origen[o] /\ movimiento'[o] = movimiento[o]
        BY <1>a, <2>2 DEF TypeOK, TypeOKFacturacion, Movimientos
      <3> QED BY <1>a, <3>1, <3>2 DEF NuevoSinMovimiento
    <2>5. \A d \in Cierres : d # c => Todos(d)' = Todos(d)
      BY <1>a, <2>2, <2>3, TodosIguales, CajaAssumption
    <2>6. tocado \subseteq tocado' /\ (c \in tocado' \/ (Abierto(c) /\ ~CierreBloqueado(c)))
      BY <2>2 DEF Tocar
    <2>7. \A q \in Peticiones : peticion'[q] = peticion[q] \/ peticion'[q].op \notin DeCuenta
      BY <1>a, <2>2, ResponderNoCuenta
    <2> QED BY <2>2, <2>4, <2>5, <2>6, <2>7, MovimientoGuarda
  <1> QED BY <1>1, <1>3, <1>4

LEMMA ArqueoPaso ==
    ASSUME TiposCaja, ArqueoInv, [Next]_vars
    PROVE  ArqueoInv'
  <1>a. /\ TypeOK /\ peticion \in [Peticiones -> Lecturas]
        /\ UNCHANGED varsFacturacion \/ UNCHANGED varsOrigen => UNCHANGED origen
    BY DEF TiposCaja, TypeOK, varsFacturacion, varsOrigen
  <1>b. ASSUME NEW p \in Peticiones, UNCHANGED <<varsCierres, origen>>,
               Responder(p) \/ \E l : l.op \notin DeCuenta /\ Recordar(p, l)
        PROVE  ArqueoInv'
    <2>1. \A q \in Peticiones : peticion'[q] = peticion[q] \/ peticion'[q].op \notin DeCuenta
      BY <1>a, <1>b, ResponderNoCuenta, RecordarNoCuenta
    <2> QED BY <1>b, <2>1, SinCambioDeCierre
  <1>0. ASSUME NEW p \in Peticiones, NEW c \in Cierres, NEW k \in Cajas, EmpezarAbrir(p, c, k)
        PROVE  ArqueoInv'
    BY <1>0, <1>a, <1>b DEF EmpezarAbrir, DeCuenta
  <1>1. ASSUME NEW p \in Peticiones, NEW c \in Cierres, LeerPatch(p, c) \/ LeerCaja(p, c)
        PROVE  ArqueoInv'
    BY <1>1, <1>a, <1>b DEF LeerPatch, LeerCaja, DeCuenta
  <1>2. ASSUME NEW p \in Peticiones, Deshacer(p) PROVE ArqueoInv'
    BY <1>2, <1>a, <1>b DEF Deshacer
  <1>3. ASSUME NEW p \in Peticiones, NEW c \in Cierres,
               EmpezarCerrar(p, c) \/ EmpezarNocturna(p, c)
        PROVE  ArqueoInv'
    <2>1. EfectivoEsperado(c) \in Int /\ MontoEsperado(c) \in Int
      BY EsperadoEntero
    <2>2. \A n \in Int, op \in {"cerrar", "nocturna"} :
             [op |-> op, cierre |-> c, esperado |-> n] \in Lecturas
      BY DEF Lecturas
    <2>3. PICK l \in Lecturas :
             /\ l.cierre = c /\ l.op \in {"cerrar", "nocturna"} /\ Recordar(p, l)
             /\ l.esperado \in {EfectivoEsperado(c), MontoEsperado(c)}
      BY <1>3, <2>1, <2>2 DEF EmpezarCerrar, EmpezarNocturna
    <2>4. Abierto(c) /\ ~CierreBloqueado(c) /\ UNCHANGED <<varsCierres, origen>>
      BY <1>3, <1>a DEF EmpezarCerrar, EmpezarNocturna, SigueAbierto
    <2> QED BY <2>3, <2>4, EmpezarGuarda DEF Cuadrado
  <1>4. ASSUME NEW p \in Peticiones, NEW c \in Cierres, LeerConciliar(p, c)
        PROVE  ArqueoInv'
    <2>1. [op |-> "conciliar", cierre |-> c] \in Lecturas
      BY DEF Lecturas
    <2>2. /\ peticion'[p] = [op |-> "conciliar", cierre |-> c]
          /\ \A q \in Peticiones \ {p} : peticion'[q] = peticion[q]
          /\ UNCHANGED <<cierre, movimiento, tocado, origen>> /\ cierre[c].estado = "CERRADO"
      BY <1>4, <1>a, <2>1, RecordarTipo DEF LeerConciliar, varsCierres
    <2>3. \A q \in Peticiones : Cierra(q)' => Cierra(q) /\ peticion'[q] = peticion[q]
      BY <2>2 DEF Cierra
    <2>4. \A d \in Cierres : Todos(d)' = Todos(d)
      BY <2>2 DEF Todos
    <2>5. ASSUME NEW d \in Cierres
          PROVE  EfectivoEsperado(d)' = EfectivoEsperado(d) /\ MontoEsperado(d)' = MontoEsperado(d)
      BY <2>2, <2>4, EsperadoIgual
    <2>6. CierreUnico'
      BY <2>3 DEF ArqueoInv, CierreUnico
    <2>7. CierraFiel'
      <3>1. ASSUME NEW q \in Peticiones, Cierra(q)'
            PROVE  /\ Abierto(peticion[q].cierre)'
                   /\ peticion'[q].cierre \notin tocado' =>
                         \E d \in Cierres :
                            /\ d = peticion'[q].cierre
                            /\ peticion'[q].esperado \in {EfectivoEsperado(d)', MontoEsperado(d)'}
        <4>1. Cierra(q) /\ peticion'[q] = peticion[q]
          BY <2>3, <3>1
        <4> PICK d \in Cierres : d = peticion[q].cierre
          BY <4>1, <1>a, LecturaDeOperacion DEF Cierra, DeCierre
        <4>2. Abierto(d) /\ (d \notin tocado => Cuadrado(d, peticion[q].esperado))
          BY <4>1 DEF ArqueoInv, CierraFiel
        <4>3. Abierto(d)'
          BY <2>2, <4>2 DEF Abierto
        <4>4. d \notin tocado' => peticion[q].esperado \in {EfectivoEsperado(d)', MontoEsperado(d)'}
          BY <2>2, <2>5, <4>2 DEF Cuadrado
        <4> QED BY <4>1, <4>3, <4>4
      <3> QED BY <3>1 DEF CierraFiel, Cuadrado
    <2>8. ConciliaFiel'
      BY <2>2 DEF ArqueoInv, ConciliaFiel, Terminados
    <2>9. NuevoSinMovimiento'
      BY <2>2 DEF ArqueoInv, NuevoSinMovimiento
    <2>10. ArqueoCuadra'
      BY <2>2, <2>5 DEF ArqueoInv, ArqueoCuadra
    <2> QED BY <2>6, <2>7, <2>8, <2>9, <2>10 DEF ArqueoInv
  <1>5. ASSUME NEW p \in Peticiones, NEW o \in Origenes, Cobrar(p, o) PROVE ArqueoInv'
    BY <1>5, ArqueoMovimiento DEF Movimientos
  <1>6. ASSUME NEW m \in Manuales, NEW c \in Cierres, RegistrarMovimiento(m, c) PROVE ArqueoInv'
    BY <1>6, ArqueoMovimiento DEF Movimientos
  <1>7. ASSUME NEW p \in Peticiones, DePeticion(p) PROVE ArqueoInv'
    BY <1>7, <1>0, <1>1, <1>2, <1>3, <1>4, <1>5, ArqueoFila DEF DePeticion
  <1>8. CASE NextFacturacion /\ UNCHANGED varsCierres
    <2>1. ASSUME NEW p \in Peticiones, NEW o \in Origenes, LeerAnularOrigen(p, o)
          PROVE  ArqueoInv'
      BY <1>8, <2>1, <1>a, <1>b DEF LeerAnularOrigen, DeCuenta
    <2>2. ASSUME NEW p \in Peticiones, AnularOrigen(p) PROVE ArqueoInv'
      <3>1. \A o \in Origenes : origen'[o] = "NINGUNO" => origen[o] = "NINGUNO"
        BY <2>2, <1>a DEF AnularOrigen, TypeOK, TypeOKFacturacion
      <3>2. \A q \in Peticiones : peticion'[q] = peticion[q] \/ peticion'[q].op \notin DeCuenta
        BY <2>2, <1>a, ResponderNoCuenta DEF AnularOrigen
      <3> QED BY <1>8, <3>1, <3>2, SinCambioDeCierre
    <2>3. CASE UNCHANGED <<peticion, origen>>
      BY <1>8, <2>3, SinCambioDeCierre
    <2>4. ASSUME NEW o \in Origenes,
                 EliminarVenta(o) \/ \E fila \in Reescrituras(o) : ReescribirOrigen(o, fila)
          PROVE  ArqueoInv'
      <3>1. \A fila \in Reescrituras(o) : fila[1] # "NINGUNO"
        BY DEF Reescrituras
      <3>2. \A x \in Origenes : origen'[x] = "NINGUNO" => origen[x] = "NINGUNO"
        BY <2>4, <1>a, <3>1 DEF EliminarVenta, ReescribirOrigen, TypeOK, TypeOKFacturacion
      <3>3. UNCHANGED peticion
        BY <2>4 DEF EliminarVenta, ReescribirOrigen
      <3> QED BY <1>8, <3>2, <3>3, SinCambioDeCierre
    <2> QED BY <1>8, <2>1, <2>2, <2>3, <2>4
        DEF NextFacturacion, EmitirParaOrigen, EmitirLote, AnularFactura, EditarFactura,
            EliminarFactura
  <1>9. CASE UNCHANGED vars
    BY <1>9, <1>a, SinCambioDeCierre DEF vars
  <1>10. ASSUME NEW c \in Cierres, EliminarCierre(c) PROVE ArqueoInv'
    BY <1>10, EliminarGuarda
  <1> QED BY <1>6, <1>7, <1>8, <1>9, <1>10, ArqueoMovimiento DEF Next

\* The difference noted on a closed shift agrees with its movements, for any
\* shifts, movements, amounts and cashiers at once: closing under the lock and
\* waiting for it suffices, a late sale and the PATCH, PUT and DELETE apart.
THEOREM ArqueoSeguro == Spec => []ArqueoCuadra
  <1>1. Init => ArqueoInv
    BY DEF Init, InitFacturacion, ArqueoInv, CierreUnico, CierraFiel, ConciliaFiel,
           NuevoSinMovimiento, ArqueoCuadra, Cierra, SinCierre, Libre, Movimientos
  <1>2. ArqueoInv => ArqueoCuadra
    BY DEF ArqueoInv
  <1>3. TiposCaja /\ ArqueoInv /\ [Next]_vars => ArqueoInv'
    BY ArqueoPaso
  <1> QED BY <1>1, <1>2, <1>3, TypeInicial, TypePaso, PTL DEF Spec

LEMMA SoloFila ==
    ASSUME [Next]_vars
    PROVE  \/ UNCHANGED cierre
           \/ \E p \in Peticiones :
                 \/ \E inicial \in Iniciales : Abrir(p, inicial)
                 \/ \E inicial \in Iniciales, k \in Cajas : GuardarPatch(p, inicial, k)
                 \/ Cierra(p) /\ \E contado : EscribirCierre(p, contado)
                 \/ Conciliar(p)
           \/ \E c \in Cierres : EliminarCierre(c)
  <1>1. ASSUME NEW p \in Peticiones, DePeticion(p)
        PROVE  \/ UNCHANGED cierre
               \/ \E inicial \in Iniciales : Abrir(p, inicial)
               \/ \E inicial \in Iniciales, k \in Cajas : GuardarPatch(p, inicial, k)
               \/ Cierra(p) /\ \E contado : EscribirCierre(p, contado)
               \/ Conciliar(p)
    <2>1. ASSUME NEW c \in Cierres,
                 \/ EmpezarCerrar(p, c) \/ EmpezarNocturna(p, c) \/ LeerConciliar(p, c)
                 \/ LeerPatch(p, c) \/ LeerCaja(p, c) \/ \E k \in Cajas : EmpezarAbrir(p, c, k)
          PROVE  UNCHANGED cierre
      BY <2>1 DEF EmpezarAbrir, EmpezarCerrar, EmpezarNocturna, LeerConciliar, LeerPatch,
                  LeerCaja, varsCierres
    <2>2. (\E contado \in Contados : Cerrar(p, contado)) \/ CerrarDeNoche(p) =>
             Cierra(p) /\ \E contado : EscribirCierre(p, contado)
      BY DEF Cerrar, CerrarDeNoche, Cierra
    <2>3. (\E o \in Origenes : Cobrar(p, o)) \/ Deshacer(p) => UNCHANGED cierre
      BY DEF Cobrar, Deshacer, varsCierres
    <2> QED BY <1>1, <2>1, <2>2, <2>3 DEF DePeticion
  <1>2. \A m : DeMovimiento(m) => UNCHANGED cierre
    BY DEF DeMovimiento, EscribirMovimiento, EliminarMovimiento
  <1>3. \A m, c : RegistrarMovimiento(m, c) => UNCHANGED cierre
    BY DEF RegistrarMovimiento
  <1>4. UNCHANGED vars \/ UNCHANGED varsCierres => UNCHANGED cierre
    BY DEF vars, varsCierres
  <1> QED BY <1>1, <1>2, <1>3, <1>4 DEF Next

LEMMA ConteoPaso ==
    ASSUME TiposCaja, ArqueoInv, [Next]_vars, NEW c \in Cierres,
           cierre[c].estado \in {"CERRADO", "CONCILIADO"}, c \notin tocado'
    PROVE  cierre'[c].contado = cierre[c].contado /\ cierre'[c].diferencia = cierre[c].diferencia
  <1>a. cierre \in [Cierres -> FilaCierre] /\ peticion \in [Peticiones -> Lecturas]
    BY DEF TiposCaja, TypeOK
  <1>1. ASSUME NEW p \in Peticiones, NEW inicial \in Iniciales, Abrir(p, inicial)
        PROVE  cierre'[c] = cierre[c]
    BY <1>1, <1>a DEF Abrir
  <1>2. ASSUME NEW p \in Peticiones, NEW inicial \in Iniciales, NEW k \in Cajas,
               GuardarPatch(p, inicial, k)
        PROVE  cierre'[c] = cierre[c]
    <2> DEFINE d == peticion[p].cierre
               f == [peticion[p].fila EXCEPT !.caja = k, !.inicial = inicial]
    <2>1. /\ cierre' = [cierre EXCEPT ![d] = f]
          /\ c = d => Abierto(d) \/ f = cierre[d]
      BY <1>2 DEF GuardarPatch
    <2>2. ~Abierto(c)
      BY DEF Abierto
    <2> HIDE DEF d, f
    <2> QED BY <1>a, <2>1, <2>2
  <1>3. ASSUME NEW p \in Peticiones, NEW contado, Cierra(p), EscribirCierre(p, contado)
        PROVE  cierre'[c] = cierre[c]
    <2>1. Abierto(peticion[p].cierre)
      BY <1>3 DEF ArqueoInv, CierraFiel
    <2> QED BY <1>3, <1>a, <2>1 DEF EscribirCierre, Abierto
  <1>4. ASSUME NEW p \in Peticiones, Conciliar(p)
        PROVE  cierre'[c].contado = cierre[c].contado /\ cierre'[c].diferencia = cierre[c].diferencia
    BY <1>4, <1>a DEF Conciliar, FilaCierre
  <1>5. ASSUME NEW d \in Cierres, EliminarCierre(d)
        PROVE  cierre'[c].contado = cierre[c].contado /\ cierre'[c].diferencia = cierre[c].diferencia
    BY <1>5, <1>a DEF EliminarCierre, FilaCierre
  <1> QED BY <1>1, <1>2, <1>3, <1>4, <1>5, SoloFila

\* No step of any request overwrites what the cashier counted in a closed shift
\* or the difference noted then, a PATCH apart.
THEOREM ConteoSeguro == Spec => ConteoIntacto
  <1>1. Init => ArqueoInv
    BY DEF Init, InitFacturacion, ArqueoInv, CierreUnico, CierraFiel, ConciliaFiel,
           NuevoSinMovimiento, ArqueoCuadra, Cierra, SinCierre, Libre, Movimientos
  <1>2. TiposCaja /\ ArqueoInv /\ [Next]_vars => ArqueoInv'
    BY ArqueoPaso
  <1>3. TiposCaja /\ ArqueoInv /\ [Next]_vars =>
           [\A c \in Cierres :
               cierre[c].estado \in {"CERRADO", "CONCILIADO"} /\ c \notin tocado' =>
                   /\ cierre'[c].contado = cierre[c].contado
                   /\ cierre'[c].diferencia = cierre[c].diferencia]_vars
    BY ConteoPaso
  <1> QED BY <1>1, <1>2, <1>3, TypeInicial, TypePaso, PTL DEF Spec, ConteoIntacto
=============================================================================
