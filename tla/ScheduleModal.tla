----------------------------- MODULE ScheduleModal -----------------------------
(****************************************************************************)
(* The detail modal of a schedule, which edits the schedule itself or, in   *)
(* override mode, what one client has different.  Its forms are seeded once *)
(* from query results of any age, which refetch under them; clients are     *)
(* attached, detached and returned to the schedule by requests of their     *)
(* own, other operators write at any time, and a save sends some fields     *)
(* always, some only if they were changed, and the client links as last     *)
(* fetched.                                                                 *)
(*                                                                          *)
(* text stands for every field that a save always sends and an override     *)
(* compares with the schedule's; zones for zones and linehauls; extra for   *)
(* what an override carries without being compared.                         *)
(****************************************************************************)
EXTENDS Naturals

CONSTANTS
  SmClients,  \* clients
  Texts,      \* values of a field
  Addresses,  \* addresses of a client's site that the geocoder may find
  NoValue,    \* null
  MaxWrites   \* bound: writes of all operators

ASSUME SmAssumption ==
  /\ NoValue \notin SmClients \cup Texts \cup Addresses
  /\ {"shut", "base"} \cap SmClients = {}

VARIABLES
  base,   \* server: the schedule, NoValue once it is retired
  delta,  \* server: tblBulkRunScheduleOverride, by client
  detail, \* query.data; NoValue before it loads, or for a schedule that is gone
  ovs,    \* ovListQuery.data
  due,    \* queries being fetched
  modal,  \* "shut", "base", or the client whose override is edited
  fields,   \* form*, NoValue before it is seeded
  seed,   \* initialSnapshot, seeded*Json
  ov,     \* ov*, NoValue before it is seeded
  site,   \* server: the address whose coordinates the client's site has
  geo,    \* ClientGeocodeWarning: preview, override, error
  writes  \* writes so far

smServer == <<base, delta, site>>
smForms == <<modal, fields, seed, ov, geo>>
smVars == <<smServer, detail, ovs, due, smForms, writes>>

Schedule == [text : Texts, zones : Texts, default : BOOLEAN, clients : SUBSET SmClients]

Fields(s) == [text |-> s.text, zones |-> s.zones, default |-> s.default]

ASSUME NullAssumption == NoValue \notin Schedule \cup {Fields(s) : s \in Schedule}

\* What a client differs on; a client without a row differs on nothing.
Delta == [text : Texts \cup {NoValue}, extra : BOOLEAN]

NoDelta == [text |-> NoValue, extra |-> FALSE]

NoGeo == [preview |-> NoValue, typed |-> NoValue, failed |-> FALSE]

\* A schedule is default or has clients: rule 3 of spec 6.1.
Bookable(default, clients) == default \/ clients # {}

SmInit ==
  /\ base \in {s \in Schedule : Bookable(s.default, s.clients)}
  /\ delta \in [SmClients -> Delta]
  /\ detail = NoValue /\ ovs = NoValue /\ due = {}
  /\ modal = "shut" /\ fields = NoValue /\ seed = NoValue /\ ov = NoValue
  /\ site = NoValue /\ geo = NoGeo /\ writes = 0

-----------------------------------------------------------------------------
\* Opening from the list or the address bar: a cached answer is used at once, and fetched again
\* if it has gone stale.
FetchedOnOpen ==
  \E old \in SUBSET {"detail", "ovs"} :
    due' = due \cup old \cup {q \in {"detail"} : detail = NoValue} \cup {q \in {"ovs"} : ovs = NoValue}

OpenBase ==
  /\ modal = "shut"
  /\ modal' = "base" /\ FetchedOnOpen
  /\ UNCHANGED <<smServer, detail, ovs, fields, seed, ov, geo, writes>>

\* The Clients tab: a card for every override, a row for every client attached.
OverrideCards == {c \in SmClients : ovs # NoValue /\ ovs[c] # NoDelta}

AttachedRows == IF detail = NoValue THEN {} ELSE detail.clients

\* A nested row of the list, or Configure override on the Clients tab, where the fields of the
\* schedule stay typed and the fields of the override are seeded afresh.
OpenOverride(c) ==
  /\ modal \in {"shut", "base"} /\ modal # c
  /\ modal = "base" => detail # NoValue /\ c \in AttachedRows \cup OverrideCards
  /\ modal' = c /\ ov' = NoValue
  /\ IF modal = "shut" THEN FetchedOnOpen ELSE UNCHANGED due
  /\ UNCHANGED <<smServer, detail, ovs, fields, seed, geo, writes>>

AnswerDetail ==
  /\ "detail" \in due
  /\ detail' = base /\ due' = due \ {"detail"}
  /\ UNCHANGED <<smServer, ovs, smForms, writes>>

AnswerOverrides ==
  /\ "ovs" \in due
  /\ ovs' = delta /\ due' = due \ {"ovs"}
  /\ UNCHANGED <<smServer, detail, smForms, writes>>

\* The window regains the focus, or a query has a new observer.
Refocus(q) ==
  /\ modal # "shut" /\ due' = due \cup {q} /\ due' # due
  /\ UNCHANGED <<smServer, detail, ovs, smForms, writes>>

\* The effect that seeds the form once per opening, whatever is refetched later.
SeedForm ==
  /\ modal # "shut" /\ detail # NoValue /\ fields = NoValue
  /\ fields' = Fields(detail) /\ seed' = Fields(detail)
  /\ UNCHANGED <<smServer, detail, ovs, due, modal, ov, geo, writes>>

Or(value, otherwise) == IF value = NoValue THEN otherwise ELSE value

\* The effect that seeds the override form: what the client resolves to.
SeedOverride ==
  /\ modal \in SmClients /\ ov = NoValue
  /\ detail # NoValue /\ ovs # NoValue /\ "ovs" \notin due
  /\ ov' = [text |-> Or(ovs[modal].text, detail.text)]
  /\ UNCHANGED <<smServer, detail, ovs, due, modal, fields, seed, geo, writes>>

\* onClose, closeModal; the effect on a null scheduleId forgets the seeds.
ResetOnClose ==
  modal' = "shut" /\ fields' = NoValue /\ seed' = NoValue /\ ov' = NoValue /\ geo' = NoGeo

CloseModal ==
  /\ modal # "shut" /\ ResetOnClose
  /\ UNCHANGED <<smServer, detail, ovs, due, writes>>

\* The schedule is gone: a toast, and the modal closes.
NotFound ==
  /\ modal # "shut" /\ detail = NoValue /\ "detail" \notin due
  /\ ResetOnClose
  /\ UNCHANGED <<smServer, detail, ovs, due, writes>>

TypeText(t) ==
  /\ modal = "base" /\ fields # NoValue
  /\ fields' = [fields EXCEPT !.text = t]
  /\ UNCHANGED <<smServer, detail, ovs, due, modal, seed, ov, geo, writes>>

\* Name, description, flags and display texts.
TypeHeader(t) == TypeText(t)

\* Occurrences ahead, with the dates it would offer.
TypeOccurrences(t) == TypeText(t)

\* The Operating days tab: days, windows and cut-offs.
ChangeDays(t) == TypeText(t)

\* The Advanced panel of the Route tab.
ChangeAdvanced(t) == TypeText(t)

\* The Coverage tab: postcodes and polygons.
ChangeCoverage(t) == TypeText(t)

\* The zone chips and the linehaul legs of the chain.
ChangeZones(z) ==
  /\ modal = "base" /\ fields # NoValue
  /\ fields' = [fields EXCEPT !.zones = z]
  /\ UNCHANGED <<smServer, detail, ovs, due, modal, seed, ov, geo, writes>>

\* The radio pair "Who can book this schedule".
ChooseWho(default) ==
  /\ modal = "base" /\ fields # NoValue
  /\ fields' = [fields EXCEPT !.default = default]
  /\ UNCHANGED <<smServer, detail, ovs, due, modal, seed, ov, geo, writes>>

\* A field of the override; emptied, it inherits.
TypeOverride(t) ==
  /\ modal \in SmClients /\ ov # NoValue
  /\ ov' = [text |-> t]
  /\ UNCHANGED <<smServer, detail, ovs, due, modal, fields, seed, geo, writes>>

\* Collection and delivery values on the Route tab.
TypeRouteOverride(t) == TypeOverride(t)

\* The day boxes and the cut-off pair of the Operating days tab.
TypeDaysOverride(t) == TypeOverride(t)

\* The active flag, display texts and occurrences in the header.
TypeHeaderOverride(t) == TypeOverride(t)

-----------------------------------------------------------------------------
\* Bounded; every write is one request.
Write == writes < MaxWrites /\ writes' = writes + 1

\* Mutant: they always go.
SentAlways == fields.zones

\* Zones and linehauls go only if they differ from the seeded ones.
SentZones == IF fields.zones = seed.zones THEN NoValue ELSE fields.zones

\* clientIds, clientCodes: from the query's data of now.
SentClients == detail.clients

\* UpsertAsync on an existing schedule, SyncClientsAsync included.
Upserted ==
  [text |-> fields.text, zones |-> Or(SentZones, base.zones), default |-> fields.default,
   clients |-> SentClients]

\* Save is off until something changed.  After a refusal to convert the modal stays open.
Save ==
  /\ modal = "base" /\ detail # NoValue /\ fields # NoValue /\ fields # seed
  /\ Bookable(fields.default, SentClients)
  /\ base # NoValue
  /\ Write
  /\ base' = Upserted
  /\ due' = due \cup {"detail"}
  /\ ResetOnClose \/ UNCHANGED smForms
  /\ UNCHANGED <<delta, site, detail, ovs>>

\* Mutant: what the form does not show is not sent.
PutShownOnly(c) ==
  [text |-> IF ov.text = detail.text THEN NoValue ELSE ov.text, extra |-> FALSE]

\* buildOverridePutBody: what equals the schedule's value, as last fetched, is left out.
PutBody(c) ==
  [text |-> IF ov.text = detail.text THEN NoValue ELSE ov.text, extra |-> ovs[c].extra]

\* PutAsync replaces the client's rows.
SaveOverride ==
  /\ modal \in SmClients /\ ov # NoValue /\ detail # NoValue
  /\ base # NoValue
  /\ Write
  /\ delta' = [delta EXCEPT ![modal] = PutBody(modal)]
  /\ due' = due \cup {"detail", "ovs"}
  /\ ResetOnClose
  /\ UNCHANGED <<base, site, detail, ovs>>

\* AttachClientsModal over this one, its ticks from the same query; the link may be there already.
Attach(c) ==
  /\ modal = "base" /\ detail # NoValue /\ c \notin detail.clients
  /\ base # NoValue
  /\ Write
  /\ base' = [base EXCEPT !.clients = @ \cup {c}]
  /\ due' = due \cup {"detail"}
  /\ UNCHANGED <<delta, site, detail, ovs, smForms>>

\* Remove on the Clients tab: refused for the last client of a schedule for specific clients.
Detach(c) ==
  /\ modal = "base" /\ c \in AttachedRows
  /\ base # NoValue /\ Bookable(base.default, base.clients \ {c})
  /\ Write
  /\ base' = [base EXCEPT !.clients = @ \ {c}]
  /\ due' = due \cup {"detail"}
  /\ UNCHANGED <<delta, site, detail, ovs, smForms>>

\* Remove override: the client follows the schedule again and stays attached.
RemoveOverride(c) ==
  /\ modal = "base" /\ c \in AttachedRows \cap OverrideCards
  /\ Write
  /\ delta' = IF base = NoValue THEN delta ELSE [delta EXCEPT ![c] = NoDelta]
  /\ due' = due \cup {"detail", "ovs"}
  /\ UNCHANGED <<base, site, detail, ovs, smForms>>

\* Another operator's save, attach, detach, override or retirement.
AnotherOperator ==
  /\ base # NoValue
  /\ Write
  /\ \/ \E t \in Texts : base' = [base EXCEPT !.text = t] /\ UNCHANGED delta
     \/ \E z \in Texts : base' = [base EXCEPT !.zones = z] /\ UNCHANGED delta
     \/ \E cs \in SUBSET SmClients :
          /\ Bookable(base.default, cs)
          /\ base' = [base EXCEPT !.clients = cs] /\ UNCHANGED delta
     \/ \E c \in SmClients, d \in Delta : delta' = [delta EXCEPT ![c] = d] /\ UNCHANGED base
     \/ base' = NoValue /\ UNCHANGED delta
  /\ UNCHANGED <<site, detail, ovs, due, smForms>>

-----------------------------------------------------------------------------
\* The warning above the route of a client-origin schedule, for one client without coordinates:
\* a lookup of the typed address, or of the one on file, which is confirmed to be written.
MayGeocode == modal # "shut" /\ detail # NoValue /\ site = NoValue

Typed == Or(geo.typed, CHOOSE a \in Addresses : TRUE)

\* Geocode site address, Look up again, Try this address.
LookUp ==
  /\ MayGeocode
  /\ \/ geo' = [geo EXCEPT !.preview = Typed, !.failed = FALSE]
     \/ geo' = [geo EXCEPT !.failed = TRUE]
  /\ UNCHANGED <<smServer, detail, ovs, due, modal, fields, seed, ov, writes>>

\* The box is there while the last lookup has failed.
TypeAddress(a) ==
  /\ MayGeocode /\ geo.failed
  /\ geo' = [geo EXCEPT !.typed = a]
  /\ UNCHANGED <<smServer, detail, ovs, due, modal, fields, seed, ov, writes>>

\* Another tab unmounts the warning.
ChangeTab ==
  /\ modal # "shut" /\ geo # NoGeo
  /\ geo' = NoGeo
  /\ UNCHANGED <<smServer, detail, ovs, due, modal, fields, seed, ov, writes>>

\* Save these coordinates looks the address up again, and writes what it finds now.
Confirm ==
  /\ MayGeocode /\ geo.preview # NoValue
  /\ Write
  /\ \/ site' = Typed /\ geo' = [geo EXCEPT !.preview = NoValue, !.failed = FALSE]
     \/ site' = site /\ geo' = [geo EXCEPT !.failed = TRUE]
  /\ UNCHANGED <<base, delta, detail, ovs, due, modal, fields, seed, ov>>

SmNext ==
  \/ OpenBase \/ AnswerDetail \/ AnswerOverrides \/ SeedForm \/ SeedOverride
  \/ CloseModal \/ NotFound \/ Save \/ SaveOverride \/ AnotherOperator \/ LookUp \/ ChangeTab \/ Confirm
  \/ \E q \in {"detail", "ovs"} : Refocus(q)
  \/ \E t \in Texts : 
       \/ TypeHeader(t) \/ TypeOccurrences(t) \/ ChangeDays(t)
       \/ ChangeAdvanced(t) \/ ChangeCoverage(t) \/ ChangeZones(t)
  \/ \E t \in Texts \cup {NoValue} : 
       \/ TypeRouteOverride(t) \/ TypeDaysOverride(t) \/ TypeHeaderOverride(t)
  \/ \E d \in BOOLEAN : ChooseWho(d)
  \/ \E c \in SmClients : OpenOverride(c) \/ Attach(c) \/ Detach(c) \/ RemoveOverride(c)
  \/ \E a \in Addresses : TypeAddress(a)

SmSpec == SmInit /\ [][SmNext]_smVars

-----------------------------------------------------------------------------
SmTypeOK ==
  /\ base \in Schedule \cup {NoValue} /\ delta \in [SmClients -> Delta]
  /\ detail \in Schedule \cup {NoValue} /\ ovs \in [SmClients -> Delta] \cup {NoValue}
  /\ modal \in {"shut", "base"} \cup SmClients /\ due \subseteq {"detail", "ovs"}
  /\ (fields = NoValue) = (seed = NoValue) /\ (modal = "shut" => fields = NoValue /\ ov = NoValue)
  /\ base # NoValue => Bookable(base.default, base.clients)

Resolved(c) == Or(delta[c].text, base.text)

\* What a save was not about it leaves as it is: zones and linehauls the operator did not change,
\* whoever changed them since (F7); and an override form saved as it was seeded, from data that
\* is still true, changes neither what the client resolves to nor the columns it does not show.
UntouchedKept ==
  [][/\ Save /\ fields.zones = seed.zones => base'.zones = base.zones
     /\ SaveOverride /\ detail = base /\ ovs = delta /\ ov.text = Resolved(modal) =>
          /\ \A c \in SmClients : Resolved(c)' = Resolved(c)
          /\ delta'[modal].extra = delta[modal].extra]_smVars
===============================================================================
