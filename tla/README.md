# Formal models of tita2026

TLA+ models of the school-canteen system *tita2026* (Django back end, React PWA,
Celery, PostgreSQL, Bancard vPOS): what its operations promise about money, what
concurrent requests and lost answers do to those promises, and proofs of the ones
that hold. Paths below are relative to the repository (`src/` is its root here).

| module | models | instances | theorems |
|---|---|---|---|
| `Tarjeta` | the prepaid card: balance, ledger, top-ups, sales, blocking, the nightly expiry | `MCTarjeta`, `Tarjeta*.cfg` | `TarjetaProofs` |
| `Bancard` | the online payment: start, saved-card charge, webhook, return, re-query, closing, retry, annulment | `MCBancard`, `Bancard*.cfg` | `BancardProofs` |
| `PagoIdeal` | abstract: what an online payment promises | as a property of `Bancard.cfg` | `BancardProofs` |
| `CuentaCorriente` | the chained ledger of a client under two lock disciplines | `MCCuentaCorriente`, `CuentaCorriente.cfg` | `CuentaCorrienteProofs` |
| `Inventario` | stock, its movements, sales and adjustments | with `Compras` | `ComprasProofs` |
| `Compras` (extends `Inventario`) | purchases, receptions, supplier payments and credit notes | `MCCompras`, `Compras.cfg` | `ComprasProofs` |
| `Almuerzos` | the lunches of a day, the lunch balance, its top-ups | `MCAlmuerzos`, `Almuerzos.cfg` | `AlmuerzosProofs` |
| `ColaOffline` (extends `Almuerzos`) | the offline queue of the PWA over the POST of the lunches | `MCColaOffline`, `ColaOffline.cfg` | `AlmuerzosProofs` |
| `Facturacion` | invoices and what they bill | with `Caja` | `CajaProofs` |
| `Caja` (extends `Facturacion`) | cash desk shifts, their movements, their closing | `MCCaja`, `Caja.cfg` | `CajaProofs` |
| `CierreCuentas` | closing the accounts of pupils who leave | `MCCierreCuentas`, `CierreCuentas.cfg` | `CierreCuentasProofs` |
| `Alumnos` | pupils at the end of the year: promotion, dismissal, purge | `MCAlumnos`, `Alumnos.cfg` | `AlumnosProofs` |

`PROJECT.json` lists components, runs, mutants, the map from definitions to source
lines, findings, hazards and theorems. Run a configuration with
`tlc -config Compras.cfg MCCompras`, check proofs with `tlapm BancardProofs.tla`.

## 1. Inventory

### How the system runs

* **HTTP requests.** Daphne (ASGI, `backend/Dockerfile:52`) runs each request of a
  synchronous view in a thread of its own, so requests overlap; one PostgreSQL
  database, READ COMMITTED, `ATOMIC_REQUESTS = True` (`backend/backend/settings/base.py:138-146`):
  a request is one transaction, an exception that leaves the view undoes all of
  it, and an answer with status 400 that is *returned* undoes nothing. Row locks
  (`select_for_update`) are held to the commit. A plain read is not locked, and
  PostgreSQL shows it only committed rows.
* **Celery beat** (`backend/backend/celery_app.py`): scheduled tasks. Those that
  write state others rely on: `expirar_recargas_pendientes` (02:00),
  `dar_baja_alumnos_ultimo_curso` (05:00), `marcar_alumnos_pendientes_purga` (monthly).
  `cierre_nocturno_cajas` exists and is not scheduled (`celery_app.py:104`): whoever runs it
  by hand runs it beside the tills. A task has no transaction but the ones it opens.
* **Foreign keys** are `DEFERRABLE INITIALLY DEFERRED`, as Django makes them: the insertion of a
  row takes no lock on the row it names, only the commit does, for the moment of the check.
* **Triggers** keep two balances at the sum of their ledger (migrations `core/0015`,
  `almuerzos/0029`) and the sale of a saved invoice pointing to it (`contabilidad/0016`).
* **Bancard** calls the webhook `bancard_confirmar`, when it likes and as often as
  it likes; the browser of the payer comes back to `bancard_retorno` on its own.
  The server calls Bancard from inside a request, with a timeout of up to 30 s and
  behind a circuit breaker that lives in the memory of the process.
* **The service worker** of the PWA queues sales and lunches whose POST failed
  in IndexedDB and posts them again; so does the page that is open.

### Components

| component | state | operations that change it | what makes it correct |
|---|---|---|---|
| **core: card, ledger, top-ups** (`core/services.py`, `views.py`, `tasks.py`, migration 0015) | `Tarjeta` (saldo_actual, estado, deuda_maxima), `MovimientoTarjeta` (append only, with a chain of saldo_resultante), `CargaSaldo.estado` | cargar_saldo, create, confirmar_carga, anular_carga_saldo, ajustar_saldo, renumerar, bloquear, activar, PUT/PATCH, the expiry task, a trigger on every movement | the balance is the sum of the ledger; a top-up stands in the ledger as its estado says, once; nothing waits for ever |
| **core: online payments** (`core/bancard_views.py`, `bancard_service.py`) | `PagoBancard.estado`, the operation at Bancard, a credit in card, lunch or current account | iniciar (3), pagar_con_tarjeta (3), webhook, retorno, reconsultar, cerrar_manual, reintentar, anular | credited once, only if charged; taken back once, only if given back |
| **ventas** | `Venta`, credit notes | registrar_venta, anular_venta, emitir_nota_credito, PUT/PATCH/DELETE | a sale takes stock, card, account and cash once, and gives them back once |
| **clientes: current account** | `CuentaCorrienteCliente`, a chained ledger | movements from sales, payments, Bancard, adjustments | each row's saldo continues the row before it |
| **clientes: people** | `Hijo` (activo, grado, fecha_baja, purge), `PromocionAnual` and its lines, `HistorialGrado`, guardians, validity | the promotion drafted, edited, discarded, applied; the nightly dismissal; PUT; purge marked and approved | promoted once a year; the history tells what became of a pupil; nobody leaves without a closing; purged only a year after leaving |
| **almuerzos** | `SaldoAlmuerzo` and its ledger `MovimientoSaldoAlmuerzo`, `RecargaSaldoAlmuerzo`, `RegistroConsumoAlmuerzo` | top-ups, consumption by scan, annulment, PUT/PATCH of a lunch and of the balance, a trigger on every movement | at most one charged lunch per pupil and day; a top-up counted once; a repeated POST is one lunch |
| **cierre_cuentas** | `CierreCuentaAlumno`, its `ResolucionSaldo` rows | open, add resolution, approve, reject, execute, close with balance | executed resolutions take no more than the two balances hold; the state follows the remainder |
| **inventario** | `Stock`, movements, `AjusteInventario` | movements of sales and purchases, adjustment asked for, approved, rejected | stock is the sum of its movements; an adjustment is decided once |
| **compras** | `Compra`, supplier ledger | register, receive, pay, annul, PUT/DELETE | received once, sent back once; PAGADO only what payments cover |
| **contabilidad** | `CierreCaja`, `MovimientoCaja`, invoices | open, close, reconcile, PUT/PATCH/DELETE; movements from every till operation; invoices issued, annulled, edited | one open shift per desk; a closed shift's difference is about its movements; a row is billed once |
| **common: circuit breaker** | state, failures and last failure, under a thread lock | call, success, failure | an open circuit calls nobody until the recovery time; then probes |
| **frontend: offline queue** (`sw.js`, `useOfflineQueue.ts`) | the IndexedDB store | enqueue, flush (by the worker, and by the page) | every queued operation reaches the server, once |
| usuarios, notificaciones, productos, React pages, deployment | | | see `PROJECT.json` |

### How they interact

```
 page of payer -- retorno --> [online payments] <-- webhook / answers --> Bancard
                                   |  cargar_saldo / almuerzo / CC movement
 till --> ventas -- CONSUMO --> [card + ledger] <-- confirmar / anular -- office
            |   |                    ^   ^
            |   +-> stock            |   +-- expirar_recargas (Celery, nightly)
            +-> current account      +-- cierre_cuentas (withdrawals, transfers)
 service worker -- queued POSTs --> ventas, almuerzos
 every till operation -- MovimientoCaja --> contabilidad (cash box)
```

Everything meets in shared rows: a card's row and the last row of its ledger are
written by core, ventas, Bancard and cierre_cuentas; a cash box by all of
them. There are no queues between components, so the hard behaviour is what
happens between an unlocked read and the locked write that trusts it.

### Hard behaviours

1. A row is read without a lock, and its state is used after a lock, or after a
   call of up to 30 s to Bancard, without being read again.
2. Bancard has its effect and its answer is lost, or the worker is lost.
3. The webhook is repeated, late, or arrives at the same time as the return.
4. Two lock disciplines over one ledger; locks taken in two orders.
5. Two places compute the same sum: the trigger and the services.
6. Retries of something that may have been done (administrator's retry, offline
   queue).

`PROJECT.json` lists each one at its line under `hazards`, with the property that
guards it or the reason there is none. Where the code does go wrong and a property names that
case as its exception, the note of the hazard says so; it names a property only where that
property bounds the damage or shows that no other writer does it.

## 2. What is modelled now

### Tarjeta

State: `tarjeta` is the row (saldo_actual, estado, deuda_maxima), `libro` the
signed sum of the card's movements, `ultimo` the saldo_resultante of the last one,
`carga` and `venta` the two estados, and `peticion` what each request in progress
read. `acreditado` and `cobrado` count how often a top-up or a sale stands in the
ledger; the code can recover both from the movements, nothing reads them.

A service that locks before it reads is **one** action (CargarSaldo,
AjustarSaldo, RegistrarVenta): its locks are held to the commit. An endpoint that
reads first is **two**: `LeerConfirmar`/`ConfirmarCarga`,
`LeerAnularCarga`/`AnularCarga`, `LeerAnularVenta`/`AnularVenta`,
`LeerEditar`/`GuardarEdicion`, `LeerCambiarEstado`/`CambiarEstado`. The second one
re-checks exactly what the code re-reads under its lock: the annulments do
(`SigueConfirmada`, `SigueActiva`), `confirmar_carga` does not. `Deshacer` is the
rollback of a request that failed anywhere. `Renumerar` moves the primary key: a `t` is the card,
not its number, so history and balance stay as they are, and a confirmation or an edit that read the
old number can only be undone. `Asentar` is `MovimientoTarjeta.save()`
together with the trigger of migration 0015, each with its own rule for the sign;
`anular_carga_saldo` leaves saldo_anterior to `save()` (from the last movement),
the others pass the balance they see, and the model keeps that difference.
`MoverCierre` is `_mover` of cierre_cuentas, the one writer that inserts first and then writes
the balance it read over the trigger's sum. `EditarVenta` and `EliminarVenta` are the generic
PUT/PATCH and DELETE of the sale: `estado`, `tarjeta` and `monto_total` are fields they take and
none of them moves the card, so an annulled sale can be ACTIVA again and be refunded
again; `ediciones` counts the edits, and `CobroDe` is what an edited sale may give back.

### Bancard

State: `pago` is `PagoBancard.estado` ("NINGUNO" before the row is *committed*),
`banco` the operation at the gateway, `credito` and `reverso` the number of
credits and compensating movements with this reference, `activa` the estado of the
card, `peticion` what each request knows so far. `solapada` remembers whether two
requests for one payment were ever in progress together; it is read by properties
only. A request is a read (`Leer...`), in most cases a call (`Consultar`,
`LlamarCharge`, `LlamarRollback`, `BuscarCredito`), and the write and commit
(`Aplicar...`, `ResolverCharge`); `Caida` loses it at any point, keeping what
Bancard did. The three endpoints that start a payment (`IniciarTarjeta`, `IniciarAlmuerzo`,
`IniciarCC`) and the three that charge a saved card (`PagarConTarjeta`, ...) share one step each and
differ in `tipo` (which `Repartos` gives to the payments), in the card only the first ones look at,
in `Acreditable` (an inactive card, a missing portal user make the credit fail) and in
`AplicarAnulacion` (a CC payment has no card to reverse).

Bancard is external, and modelled from how the code uses it:
an approved operation can be rolled back once; a reversed operation no longer
answers "00" to a query; a rejection is final; any answer may be lost; the webhook
comes any number of times, at any time after the result. An open circuit breaker
is a call without an answer.

### PagoIdeal

The payment without requests, gateway calls or crashes: charged, credited, given
back, annulled. `Bancard` defines the mapping (`EstadoIdeal`, `DineroIdeal`,
`SolaIdeal`) and `CicloIdeal`, the specification of `PagoIdeal` under it. A payment
two requests ever attended at once is free to go wrong in its state and to be credited
again (the code does), but even then it is taken back once, and only after Bancard
returned the money.

### CuentaCorriente

Each document (sale on credit, credit note, payment, charge of a top-up) and the row it
leaves. The services of ventas lock the *last row* of the client and chain from
it; a request that waits for that lock is given the row it waited for, so what it chains from is
what was last when it asked (`LeerUltimo`). `CuentaCorrienteCliente.save()` locks the
*client* and then reads the last row (`BloquearCliente`, `Asentar`); nothing it
does excludes the others, although its comment (`clientes/models.py:230`) says so.
`cruzada` remembers the clients for whom a last-row writer overlapped anybody;
without that exception `CadenaCuadra` is false (an empty account has no
row to lock at all). A payment is two steps (`ConvenirPago` checks the debt without a lock,
`AsentarCobro` writes it); so is a top-up on account, of the card (`ConvenirCarga`) or of the
lunches (`ConvenirRecargaAlmuerzo`). When there is a limit these two lock the last row to check it
and then chain through `save()`, which the model allows more freely: without that lock. The two
annulments (`AnularVenta`, `AnularNota`) share their locks and differ in the sign of the row they add. PUT and DELETE of a sale come from the
generic viewset, bounded by `MaxEdiciones`.

### Inventario and Compras

`existencia` is `Stock.cantidad`, `libro` the sum of `MovimientoStock`. A sale locks
the rows of its products in one query and writes them later (`EmpezarVenta`,
`RegistrarVenta`); a product without a row is not in that query, and its row is read
without a lock if another request creates it meanwhile (`LeerFilaAjena`): those
products are in `sinCandado`. An adjustment is read, locked and looked at again by
`aprobar`, and only read by `rechazar`, so one that was applied may end RECHAZADO.
`Compras` adds purchases over the same stock: reception and annulment re-read the
purchase under its lock; a payment and a PUT write the row they read before. A reception or
an annulment between the two halves of a payment leaves what one before it leaves, and
is not modelled apart (`PagoEnCurso`). A credit purchase that is annulled before it is received can still be
received (`PorRecibir` looks at the delivery only); `AnularNota` of a supplier's credit note has
no second look either. Both are in the model, and no property says otherwise.

### Almuerzos and ColaOffline

A POST of a scan is: look for its `client_request_id` (`Recibir`), lock the pupil and
count the lunches of the day (`Contar`), insert and charge the first one
(`Insertar`). `anular` is a read and a write without any lock: two of them refund
twice. `EditarRegistro` takes the pupil, the day and the `client_request_id` from the caller and
writes the rest of the row as it read it, so it brings back one that was
annulled (the docstring at `almuerzos/views.py:263` says nothing generic can), moves a charged lunch to
a pupil or a day that has one already, and gives a row another key, under which whoever has read
the row goes on (`Sigue`); `save()` after a DELETE inserts the row again (`Reinsertar`). Rows
that were edited are in `aMano`. The PATCH of `limite_credito` writes back the
whole balance row; after any movement the trigger of migration 0029 sets the balance to the sum of the ledger
(`Sincronizado`), so what such a PATCH did lasts until the next one (`pisado`). Annulling the first of two lunches leaves the day uncharged;
deleting an annulled one frees its key.

`ColaOffline` replaces the client of that POST: the page, the service worker, the
IndexedDB store under the key `Date.now()`, the two loops that flush it (the
worker's and the page's, whose fetch passes through the worker and is queued again
under a new key when it fails), answers that are lost or come after the page gave up
at 6 s, and loops that stop halfway because the browser stops the worker. An entry
leaves the store on a success or a 400 only; a 401 after the token expired
leaves it there for ever, which the model has as an answer that is neither. Two scans of
one millisecond overwrite one another (`perdidos`).

### Facturacion and Caja

An invoice is its number. Emission, alone (`EmitirParaOrigen`) or as a batch (`EmitirLote`), looks at the billed row under
its lock; whoever annuls a sale or a top-up looks at its invoice before taking the lock, so
a row annulled while it is being invoiced keeps a standing invoice (`cruzados`). The invoice of
one sale names it (`ventaDe`), and a trigger makes the sale that a saved invoice names point to it
(`Apuntado`), a PUT of the invoice included. `ReescribirOrigen` is whoever writes a
billed row without looking at any invoice: the PUT/PATCH of a sale, which takes `estado` and
`factura`, and a second confirmation of a top-up, whose `save()` writes back the row it read pending
and, for a card, clears `factura` (`Reescrituras`); such rows are in `reescritos`.
`Caja` adds the shifts of the desks: opening under the lock of the desk; closing by the
cashier and by `cierre_nocturno_cajas` (when somebody runs it), each under the lock of the shift, with its own sum of
the movements; the movements, which a sale or a top-up inserts with a shift it read
without a lock. Such an insertion is never refused: its foreign key makes its commit wait for a closing in
progress, and the movement then is in the closed shift. The PUT/PATCH of a shift takes `monto_inicial` and
`caja` and writes the rest as it read it; the unique index `uq_caja_abierta` (`IndiceLibre`)
is what keeps two open shifts off one desk then. A shift such a late movement reached, or a PUT, PATCH or DELETE touched, is in
`tocado`. The movement of an annulled sale is never taken back; the code does not.

### CierreCuentas

The closing of a pupil, two pockets (card, lunch) and the card of a sibling, resolutions
of the six kinds. A resolution is asked for on a closing and balances read without a lock
(`LeerRegistrar`, `Registrar`), approved later, executed under the locks of its row
and of the pockets it moves (`Ejecutar`, `Confirmar`), and the execution writes
the estado of the closing it joined. COBRO and TRASLADO_CC do the same to a pocket. `libro` is the ledger of each pocket:
`_mover` writes over the sum the trigger left in a card, and is overruled by it in a lunch account; a COBRO is a top-up
and leaves the sum in both (`Sincroniza`, `Tras`). `MoverAjeno` is every other movement
(sales, lunches, top-ups, adjustments), `LeerEditar` and `GuardarEdicion` the PUT of a card and the PATCH of a lunch
account, which write back the balance they read (`pisado`, until a movement that synchronises).
Nothing a registration does before its commit keeps `cerrar_con_saldo` from closing: one that
read the closing open, and is executed at once, writes PARCIAL or RESUELTO over CERRADO_CON_SALDO.
Reachable too, and not forbidden by any sentence of the repository: a closing left PARCIAL with both balances at zero by two executions that
did not see each other.

### Alumnos

A pupil (`alumno`: activo, grado, fecha_baja, purge), the promotion of one year and its line
for each pupil, the last row of history it wrote, the pupils with a closing. The draft is refreshed, edited
line by line and discarded on what was read of it without a lock (`Leer...` and the write);
`aplicar` holds the row of the promotion from `LeerAplicar` to `Aplicar`. The nightly
dismissal is four kinds of step because each commits by itself: list, one UPDATE, the flag
of the calendar, one closing after another; `CaidaTarea` cuts it off between any two. A
PUT writes back the row it read. The clock has the grain the code looks at: the
school year, the 30 days after its end, then half years.
What TLC found first, and the properties except by name: the promotion may be applied on
January 1st before the dismissal of 05:00, which then dismisses those just promoted into the
last course (`adelantada`; `promocion.py:8-10` gives this very case as the reason to wait
for the end of the year); the dismissal cut off after its UPDATE leaves pupils without a closing for
good (`cortada`); a DELETE that read a draft removes a promotion applied meanwhile, and a
second one of the year can be applied (`descartada`; `promocion.py:5` says once a year); a PUT that reactivates a pupil
leaves fecha_baja and the request for the purge behind (`reactivado`). Reachable too, and
not forbidden by any sentence: a line edited or added after the promotion was applied, by a request
that read it as a draft; a PUT that writes back the data of a pupil purged meanwhile.

### Abstractions, in all of them

* Amounts are small integers (units), not guaraníes; the ledger is its sum and its
  last row.
* `_exigir_tarjeta_operativa`, `vigencia`, and the time limits (annulment on the
  same day, closing by hand after 60 minutes) only refuse operations; the model
  allows more orders than the code, so what it proves safe is safe in the code, and
  the counterexamples below do not depend on the missing guards.
* Audit columns, timestamps and notifications are left out: nothing in these
  components reads them back. Each module keeps the part of `registrar_venta` and
  `anular_venta` its own state needs; they are one transaction in the code, and none of the properties
  relates the parts.
* A request that waits for a row lock is a request that has not taken its step yet. PostgreSQL aborts one
  of two requests that wait for each other; that, like any exception, is `Deshacer`.
* VENCIDA and CANCELADA cards behave as BLOQUEADA here.
* The admin form (`core/admin.py`) and the seeding commands are left out of this
  version. A PUT that meets a renumbered card is taken to keep its holder.

## 3. What the runs show

| run | shows |
|---|---|
| `tarjeta` | `CargaRespaldada`: a top-up is in the ledger as its estado says, however stale confirmations, annulments and the expiry interleave (it may be credited *more* than once, see below, never less). `VentaCobradaUnaVez`: charged once, refunded once, and once more at most for each PUT of the sale. `SoloEdicionDescuadra`: only the PUT/PATCH of the card, which writes back the whole row it read, takes balance, ledger and chain apart (`serializers.py:62-63`, "saldo_actual jamás se edita a mano", holds but for that). `MovimientoRecompone`: whatever it did, the next movement repairs the balance, unless it is the one of a closing of accounts, which carries the difference on. `PendienteSeResuelve` (liveness). |
| `tarjeta_confirmacion` | **finding**: two confirmations that both read PENDIENTE credit a top-up twice; `confirmar_carga` locks the card and never the top-up. |
| `bancard` | `SinSolapeUnCredito`: without overlap, no order of replays, returns, re-queries, retries and crashes credits twice. `AprobadoTieneCredito`. `ReversoRespaldado`: one reversal, only after the rollback at Bancard, even with two administrators. `CreditoConCobro`: only the administrator's retry credits without Bancard's word. `CicloIdeal`: the payment implements `PagoIdeal`. |
| `bancard_idempotencia` | **finding**: webhook and browser return that both read PENDIENTE credit the payment twice. |
| `bancard_reintento` | **finding**: ERROR is also the state of a payment that could not be started; its retry credits it though nobody was charged. |
| `cuenta_corriente` | `EfectoExacto`: what a document left in the account is what its estado says, with two annulments of it at once. `CadenaCuadra`: the last running balance is the debt, as long as no last-row writer overlapped another; payments and charges may overlap one another. |
| `compras` | `StockCuadra`: quantity = movements under sales, annulments, adjustments and purchases at once (but for a first row that appears in the middle of a sale), and never below zero. `AplicadoUnaVez`: an adjustment is applied once; goods come in once and go out once, and what went out is not owed. `PagadaCubierta`: PAGADO is covered by payments. |
| `almuerzos` | `UnCobroPorDia`: at most two lunches and one charge a day under concurrent scans, among the rows no PUT changed. `DeshechoRespaldado`: a lunch is refunded when annulled, and only then; a standing top-up has a credit that stands. `SoloPatchDescuadra`: only the PATCH of the balance parts it from its ledger, until the next movement. |
| `cola_offline` | `EntregaExacta`: a scan the page was told is stored is stored, or answered, or overwritten by one of its millisecond; and however often it is sent, the pupil is charged once. `VaciadoTermina` (liveness): a flush ends. |
| `caja` | `UnaCajaAbierta`: a desk has one open shift, whatever a PATCH moves or brings back, and nobody opens another while its lock is held (but such a PATCH); `ArqueoCuadra`: the difference noted on a shift is about the movements it has (but for a late sale or an edit); `ConteoIntacto`: no second closing changes what was counted. `FacturacionExacta`: a row nobody wrote over is billed once, and not after its annulment (but in the window named above). |
| `cierre_cuentas` | `AsientoExacto`: an executed resolution moved its pockets once, any other not at all, and a pocket no edit wrote over is the sum of its ledger. `HaciaCero`: an execution brings a pocket towards zero and not past it, although it was checked when it was asked for (but on a balance an edit left and the trigger replaces). `CerradoFirme`: only a registration in flight, executed at once, reopens what was closed with its balance. |
| `alumnos` | `PromocionUnaVez`: one promotion a year, by however many requests. `RegistroFiel`: the history says what the pupil is, until somebody edits the pupil. `BajaConExpediente`: nobody leaves without a closing of accounts. `PurgaDeBaja`: only data of pupils gone for more than a year are purged. Each but for the case named above. |

The three findings are counterexamples to a sentence the repository itself states;
`PROJECT.json` quotes it and the lines. Every exception in a property (`cruzada`,
`sinCandado`, `aMano`, `pisado`, `tocado`, `cruzados`, `reescritos`, `ediciones`, `editadas`, `perdidos`,
`adelantada`, `cortada`, `descartada`, `reactivado`) was
found by TLC as a counterexample first: it names the code path the promise does not
survive, and the property says that there is no other.

### Bounds, and why they are enough

Two requests in progress are the least that overlap, and every property speaks of one
row of each kind (or of two rows that contend for a third): the instances take
that many, of the writes by hand one, and one more where "somebody else" must be able to act between the two steps
of a request. Requests are interchangeable, hence symmetric, and so are the documents
that no constant tells apart.

| run | instance | distinct states |
|---|---|---|
| `tarjeta` | one card, a top-up, a sale of one unit that one edit may make two, two requests, one adjustment or closing movement of -1, overdraft limits {0, none}; the violation takes two cards (a pupil's and a teacher's), two top-ups and two sales | 1.43 million |
| `bancard` | two payments (a top-up of the card or of the lunches, next to one of the current account), three requests (an annulment, a webhook, one more) | 2.21 million |
| `cuenta_corriente` | one client, a sale, a note, a payment and a charge of one unit, a limit of one, one edit by hand per document, two requests | 472 thousand |
| `compras` | a product with stock that may not go below zero and one without a row that may; a sale, an adjustment, a purchase of two units, a credit note, payments of one up to two, two requests | 6.56 million |
| `almuerzos` | two pupils, three scans of the first, a top-up, one edit of a lunch or of the balance, balances from -1 to 1, two requests | 1.81 million |
| `cola_offline` | one pupil, two scans, a clock of three instants, both loops, two requests at the server | 379 thousand |
| `caja` | two desks, two shifts, a cash sale (its rewritings include a top-up's), a movement by hand, two invoices, two requests, one PUT, PATCH or DELETE of anything | 2.02 million |
| `cierre_cuentas` | a pupil with a card and a lunch account, a sibling's card, two resolutions of one unit, one edit of a pocket, ordinary movements that leave the card between -1 and 1 and the lunch account between -1 and 0 (none of the sibling's), two requests | 801 thousand |
| `alumnos` | a pupil of the last course or the one before, a year and a half, two edits by hand (of the pupil or of a line), up to two promotions, two requests beside the task | 1.99 million |

What else is bounded is named in the modules: `Tope` in Almuerzos and `Rango` in CierreCuentas (balances), `MaxPagado` (sum of
payments), `MaxEdiciones` (writes by hand), `MaxTiempo` (half years) and `MaxVeces` (promotions applied; one more than the
property allows), `MaxReloj` (the clock of the page: with two
scans, three instants give both equal and different keys). A batch of two rows is one step like
the emission for one, and what it needs of them is proved (`FacturacionSegura`), not enumerated. In Tarjeta and Bancard nothing
needs one: what may credit is a request that read PENDIENTE, CANCELADO or ERROR, and only the
requests already in flight are stale. Where proved, the properties hold for any
number of everything.

### Fairness

*Tarjeta*: `WF_vars(ExpirarRecargas)` only: Celery beat starts the task every
night and it is one UPDATE, so a top-up that stays PENDIENTE for more than 24 h is
in the set of some later run. *ColaOffline*: the steps of a loop that flushes the
store are weakly fair, since it is one `for` over a list with an `await` per entry,
and each `fetch` ends with an answer or an error; the loop reads its list once, so
entries queued meanwhile do not keep it alive (mutant `Releer`). Nothing else is
assumed to happen: people may never confirm, webhooks may never come, the network
may never return.

Deadlock is checked where the system cannot stop (the card, which can always be blocked or
activated). The other models may come to rest: every document annulled, every payment decided, every bound used up.

## 4. What is proved

Assumptions: the `...Assumption` of each module only: the types of the constants, positive
amounts, 0 among the overdraft limits, "none" outside the set it stands for, movements by hand
apart from those of a sale, and that the scans of a day are finitely many (the charges of the day
are counted). All other sets may be infinite.

| module | theorems | statement |
|---|---|---|
| each `...Proofs` | `Tipos` or `TypeCorrect`, `TiposDeCola` | `Spec => []TypeOK` (`TypeOKCola` of the queue) |
| `TarjetaProofs` | `CargaSegura`, `VentaSegura` | `Spec => []CargaRespaldada`, `Spec => []VentaCobradaUnaVez` |
| | `SoloEdicion`, `Recompone` | the two action properties of the card |
| `BancardProofs` | `AprobadoSeguro`, `ReversoSeguro` | `Spec => []AprobadoTieneCredito`, `Spec => []ReversoRespaldado` |
| | `SinSolape`, `CreditoCobrado` | `Spec => []SinSolapeUnCredito`, `Spec => CreditoConCobro` |
| | `Refinamiento` | `Spec => CicloIdeal`: the payment implements `PagoIdeal` |
| `CuentaCorrienteProofs` | `CadenaSegura`, `EfectoSeguro` | `Spec => []CadenaCuadra`, `Spec => []EfectoExacto` |
| `CierreCuentasProofs` | `AsientoSeguro`, `HaciaCeroSeguro`, `CerradoFirmeSeguro` | `Spec => []AsientoExacto`, `Spec => HaciaCero`, `Spec => CerradoFirme` |
| `ComprasProofs` | `StockSeguro`, `AplicadoSeguro`, `PagadaSegura` | `Spec => []StockCuadra`, `Spec => []AplicadoUnaVez`, `Spec => []PagadaCubierta` |
| `AlmuerzosProofs` | `SaldoSeguro`, `DeshechoSeguro`, `UnCobroSeguro` | `SpecAlmuerzos => []SoloPatchDescuadra`, `[]DeshechoRespaldado`, `[]UnCobroPorDia` |
| | `ColaImplementa`, `EntregaSegura` | `Spec => SpecAlmuerzos`: the queue only uses the account; `Spec => []EntregaExacta` |
| `CajaProofs` | `FacturacionSegura`, `CajaSegura` | `Spec => []FacturacionExacta`, `Spec => []UnaCajaAbierta` |
| | `ArqueoSeguro`, `ConteoSeguro` | `Spec => []ArqueoCuadra`, `Spec => ConteoIntacto` |
| `AlumnosProofs` | `UnaSegura`, `RegistroSeguro`, `BajaSegura`, `PurgaSegura` | `Spec => []PromocionUnaVez`, `[]RegistroFiel`, `[]BajaConExpediente`, `Spec => PurgaDeBaja` |

So every property of the passing runs is a theorem for all values of the constants, except
the two liveness properties.

**The card.** `CargaRespaldada` is inductive together with the types, and the
reason is worth a look: a confirmation trusts a stale estado, but it only ever
adds a movement and leaves CONFIRMADA; an annulment trusts nothing but the
CONFIRMADA it reads under the lock; the expiry only touches PENDIENTE, which has no
movement. Take the second check away (mutant `CargaSinReleer`) and it fails.
`VentaCobradaUnaVez` is not inductive: `anular_venta` re-checks only that the sale
is not ANULADA, so the proof needs that a request which waits to annul a sale read
one that exists (`VentaLeida`). An edit of the sale moves nothing and pays for one refund
more: the bound goes down by one with each. The two action properties rest on a lemma about one
call of `Asentar` (the trigger's rule for the sign and the one of `save()` agree on
every kind of movement), and on another that says every step except the edit of the card and the
movement of a closing makes at most one such call, from a saldo_anterior that is either the balance or the last
saldo_resultante (`PasoAsienta`). `MoverCierre` adds the same to balance and ledger, so it parts nothing and
repairs nothing.

**The payment.** `AprobadoTieneCredito` and `ReversoRespaldado` need what a request
in flight knows: a retry that found a credit is right for ever (credits are never
undone); a request that was told "reversado" is the only one, since Bancard does it
once, and the credit was there when it read APROBADO (`IInv`). A charge needs its own part: nobody else can see its row.
`SinSolapeUnCredito` needs much more, `SecuencialInv`: for a payment whose
requests never overlapped, at most one request is in flight, and the credit so
far, plus the one the request may still make, is bounded by the state it read,
which nobody else can have changed meanwhile (`Turno`); PENDIENTE has no credit,
CANCELADO and APROBADO have one, and the operation at Bancard agrees with what the
request has been told. It uses the whole control of the module: why a return from
CANCELADO cannot credit (the rollback made Bancard answer no more "00"), and why
the retry's search suffices when nobody else is writing. `CreditoConCobro` follows
from what a request that knows "00" implies for the operation.

**The refinement.** Each step of a request maps to one step of `PagoIdeal` or to a
stutter. `EscribirIdeal` is the core: a write of estado and credit that obeys the four
cases a lone request can meet is a step of the ideal payment. Which case it is follows from
`SecuencialInv` and from one more invariant (`AbiertaInv`: an
operation still open at Bancard belongs to a payment that is PENDIENTE, failed to start
or was given up). `LocalEfecto` says that a step which writes one payment changes the
mapped functions at one point.

**The current account.** `EfectoExacto` is inductive with what a request in progress holds: the document
it is creating does not exist yet and nobody else creates it; the one it annuls is locked.
`CadenaCuadra` needs that the saldo_anterior a request has read is still the last one
if nobody crossed it: two writers that lock the client cannot both be past the lock.

**The closing of accounts.** `IInv` says what a request that executes a resolution knows:
the row is still to be inserted, or pending once it is locked (`LecturaFiel`); no other
request executes it (`Exclusiva`); and the pockets it has locked hold what it validated,
and will be left as `Tras` says (`Vigente`), since two such requests share no pocket (`Disjuntas`) and
neither movements nor edits pass the lock.
`AsientoExacto` and `HaciaCero` follow: what is committed was validated on the balances
it is committed on, and balance and ledger move by the same amount unless an edit had parted them
and the trigger has the last word (`Fiable`). `CerradoFirme` needs a second invariant, `FirmeInv`: while a request
holds the closing to close it, nothing of it that is committed waits SOLICITADA, and then and once it
is closed, whoever is still executing a resolution that had been committed either read the closing as closed or will find its
resolution decided (`Tardia`). A resolution whose registration has not committed is outside that
argument, as it is outside what `cerrar_con_saldo` sees; the property names it as the one way out.

**Stock and purchases.** What must be true between the two halves of a sale is
`StockInv`: a product whose row the sale has locked still holds what the sale read
(`LeidoVigente`), two requests lock no row in common (`LlavesAparte`), and a product without a
row has neither stock nor movements (`SinFilaVacia`). The one way out is a product without a row
when the sale looked: it has no lock to hold, and is remembered in `sinCandado`.
`AplicadoUnaVez` is inductive once it says that an adjustment that does not exist has been applied
zero times (`AjusteInv`), and that what a purchase has brought in, sent out and owes is what
its estados say (`CompraEnOrden`). `PagadaCubierta` is part of the latter, and needs that the sum a
payment in progress is about to write is no more than what has been paid by now with its own
amount (`PagosEnOrden`): another payment may only have made it an underestimate.

**The lunches.** `SoloPatchDescuadra` and `DeshechoRespaldado` are inductive with the types
alone (every movement leaves the balance at the sum of the ledger, whatever it was), although a confirmation trusts a stale read as on the card: it only adds a credit, and
whatever takes something back looks again at the row under its lock. `UnCobroPorDia` is about counting, and needs
`CuentaInv`: one request at a time has counted the lunches of a pupil (`UnCandado`), and
what it counted can only have become less when it inserts, so there is still at most one lunch, and
none if it is to charge (`ConLugar`). The count is about the rows nobody edited (`Vigentes`): an edit
only takes rows away from them, and what it brings in is counted by `Contar` but not by the property. `ConLugar` is why the code counts *after* it locks.

**The queue.** `ColaImplementa` is a refinement by inclusion: each step of
`ColaOffline` is a step of the account or leaves it alone, so the theorems of the account hold under the
queue. `EntregaExacta` rests on `EntregaInv`: ids are of the past (`Pasada`); what a loop has still to
send is what is stored under the id, unless the other loop has seen to it (`ListaFiel`); each loop has one
fetch at a time, about an entry of its list (`UnFetch`, `DeSuLista`); the answer a fetch carries is what the
server did (`RespuestaFiel`); no scan the page believes stored is outside the store, the rows, the refusals and
the known losses (`NadaSePierde`); and, whoever sends, the balance is minus the number of charged rows (`CobroInv`).

**The cash desk.** `UnaCajaAbierta` rests on two things of different kinds. That two open shifts never share a
desk is what the index refuses otherwise, at each of its two writers (`Abrir`, `GuardarPatch`). That the index never refuses
whoever passed the check of `abrir_caja` needs the lock: who is opening a shift is the only
one at that desk (`AperturaUnica`), and no shift of it has opened since but one a PATCH brought there
(`AperturaLibre`). `ArqueoCuadra` needs
`ArqueoInv`: one request closes a shift at a time (`CierreUnico`); under its lock the shift stays open and the sum it
has added up stays the sum of the movements, because whoever adds one either waits or marks the shift
(`CierraFiel`); a shift about to be reconciled is still closed or deleted (`ConciliaFiel`); and a
row not inserted yet has no movement (`NuevoSinMovimiento`). `ConteoIntacto` follows from it: the writer of a count finds the
shift open. The sum is `SumFunctionOnSet`, a recursion over the set; the first lemmas show that a function which
satisfies it exists for a finite set of movements, and that it is an integer. Nothing else of
the sum is used: the proof compares sums of equal sets.
`FacturacionExacta` needs that a row nobody wrote over still points to the standing invoice that was issued for
it or that names it (`CubreFiel`), that nothing points to an invoice that is gone and no invoice names
a sale that does not exist (`ApuntaViva`), and that a row not inserted has none (`NuevoSinFactura`).
Then a second emission, which looks at `factura_id` under the lock of the row, cannot pass.

**The pupils.** The number of promotions is bounded because one request at a time applies one,
and it is a draft from its check to its commit (`UnoAplica`, `AplicaBorrador`): even `TypeOK` needs
that. `PromocionUnaVez` adds that, while no promotion was deleted, one not yet applied has promoted nobody (`UnaInv`). `RegistroFiel`
needs that a history row comes after the dismissal of the year was marked in the calendar, which is what `adelantada`
breaks, and that it is not marked while the task is between its list and its UPDATE (`FielInv`). `BajaConExpediente` is
inductive as it stands. `PurgaDeBaja` is about a chain of stale reads: neither a row of the table nor
an old copy that a PUT will write back may show a dismissal as older than it is, and
an active pupil has no date of dismissal (`FilasEnRegla`, `PeticionEnRegla`); a copy
may be as old as it likes, because a pupil who is not reactivated is dismissed once.

**Only model-checked:** the liveness properties `PendienteSeResuelve` and `VaciadoTermina`: they
depend on fairness, which is about ENABLED. The three violations are
counterexamples, not theorems.

## 5. Plan for what is left

* Ideal specifications of the lunch, the shift and the stock, as `PagoIdeal` is one of the
  payment, with the proofs that the modules implement them.
* A composition of Tarjeta and Bancard: a top-up annulled from both sides.
* Purchase orders, the monthly lunch account.

## 6. Not modelled, and why

Authentication, roles and 2FA decide who may start an operation and are library
code; notifications are best effort and nobody reads them; catalogue and guardians are
data entry with one writer, `vigencia` only refuses operations; pages, deployment, backups and monitoring have no
algorithm of their own. The circuit breaker shows itself to Bancard as a call without an
answer, which every call of the model may be. Of the modelled components: the Django admin forms, `PagoService` and `PagoVenta.anular` (called by seeds and tests only),
`registrar_consumo` (called by a seeding command), the stock that a customer's credit note or its annulment moves, purchase orders, the chain of the supplier's account (its
`save()` locks the supplier before it reads; a generic viewset, `compras/views.py:70`, also takes PUT and DELETE of its rows, which
re-chain nothing), the amounts of a PUT of a purchase, invoice
numbers against the timbrado, IVA, reports and exports (read only). Queued sales carry no key, so a
sale whose answer was lost is registered twice; the queue is modelled with lunches only.
The waiting for locks in two orders is not modelled (PostgreSQL aborts one side, `Deshacer`).
`PROJECT.json` has a line for each.
