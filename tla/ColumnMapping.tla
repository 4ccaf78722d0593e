---------------------------- MODULE ColumnMapping ----------------------------
(***************************************************************************)
(* Step 2 of the bulk import wizard (MapColumnsModal.tsx, wizardState.ts): *)
(* which field of a job is read from which column of the file.  Columns    *)
(* are mapped by hand, by a template, and by three effects that run when   *)
(* the modal opens, the client's settings arrive or truck jobs come into   *)
(* play; each writes the mapping of the render it ran in.                  *)
(*                                                                         *)
(* cmWiz is the part of the reducer that the mapping needs, cmPage what    *)
(* the modal keeps itself, whichever client it is shown for.  A column and *)
(* a name of a field are sequences of words: case, blanks, _ and - between *)
(* them do not count for the match, and no word of a column is a part of   *)
(* another.  The steps after the mapping are fixZips and schedulePicker.   *)
(***************************************************************************)
EXTENDS Integers, Sequences, FiniteSets, SequencesExt, TLC

CONSTANTS
  CmClients,      \* ids of clients
  CmUs,           \* those of US tenants
  CmTrucked,      \* those with a truck speed
  CmMandatory,    \* per client, the references it demands
  CmFiles,        \* ids of files
  CmColumns,      \* per file, its columns in order
  CmBlank,        \* per file, the columns with a blank cell
  CmTruckColumns, \* per file, the columns with a cell that names a truck speed
  CmTemplates,    \* ids of templates
  CmTemplateMap,  \* per template, the column of each field
  CmByHand,       \* bound: the fields and columns that are mapped by hand
  CmTried,        \* bound: the options that are changed
  CmPatient       \* the operator waits for the replies of upload, check and deletion

CmNone == << >>

ASSUME CmAssumption ==
  /\ 0 \notin CmClients /\ 0 \notin CmFiles /\ 0 \notin CmTemplates
  /\ CmUs \subseteq CmClients /\ CmTrucked \subseteq CmClients
  /\ CmMandatory \in [CmClients -> SUBSET {"clientRefA", "clientRefB"}]
  /\ CmColumns \in [CmFiles -> Seq(Seq(STRING) \ {CmNone})]
  /\ \A f \in CmFiles : CmBlank[f] \cup CmTruckColumns[f] \subseteq ToSet(CmColumns[f])
  /\ CmTried \subseteq {"auto", "site", "contact", "stock", "trucks"}
  /\ CmPatient \in BOOLEAN

VARIABLES
  cmOpen,   \* the wizard is on the screen
  cmWiz,    \* WizardState
  cmPage,   \* MapColumnsModal: settings, templates, loading
  cmCalls,  \* the calls under way, with what their closures hold
  cmStored  \* the contact's templates on the server

cmVars == <<cmOpen, cmWiz, cmPage, cmCalls, cmStored>>

-------------------------------------------------------------------------------
(* The fields and their names                                              *)

\* The keys of the fields, in words.
CmKeyWords ==
  [jobNumber |-> <<"job", "number">>, bookDate |-> <<"book", "date">>, bookTime |-> <<"book", "time">>,
   fromContact |-> <<"from", "contact">>, fromCompany |-> <<"from", "company">>,
   fromAddress |-> <<"from", "address">>, fromCity |-> <<"from", "city">>, fromState |-> <<"from", "state">>,
   fromZipCode |-> <<"from", "zip", "code">>, fromSuburb |-> <<"from", "suburb">>,
   fromPostCode |-> <<"from", "post", "code">>, toCompany |-> <<"to", "company">>, toUnit |-> <<"to", "unit">>,
   toAddress |-> <<"to", "address">>, toCity |-> <<"to", "city">>, toState |-> <<"to", "state">>,
   toZipCode |-> <<"to", "zip", "code">>, toSuburb |-> <<"to", "suburb">>,
   toPostCode |-> <<"to", "post", "code">>, toContact |-> <<"to", "contact">>,
   toContactPhone |-> <<"to", "contact", "phone">>, stopType |-> <<"stop", "type">>, quantity |-> <<"quantity">>,
   length |-> <<"length">>, width |-> <<"width">>, height |-> <<"height">>, weight |-> <<"weight">>,
   totalWeight |-> <<"total", "weight">>, clientRefA |-> <<"client", "ref", "a">>,
   clientRefB |-> <<"client", "ref", "b">>, ourRef |-> <<"our", "ref">>, notes |-> <<"notes">>,
   trackingEmail |-> <<"tracking", "email">>, trackingMobile |-> <<"tracking", "mobile">>, speed |-> <<"speed">>,
   palletType |-> <<"pallet", "type">>, tailLiftPickup |-> <<"tail", "lift", "pickup">>,
   tailLiftDropoff |-> <<"tail", "lift", "dropoff">>, residential |-> <<"residential">>,
   dangerousGoods |-> <<"dangerous", "goods">>, dgClass |-> <<"dg", "class">>,
   dgDocument |-> <<"dg", "document">>, truckStart |-> <<"truck", "start">>, truckHours |-> <<"truck", "hours">>]

CmKeys == DOMAIN CmKeyWords

\* Each of the words in front of a.
CmEach(words, a) == [i \in DOMAIN words |-> <<words[i], a>>]

\* The label and the aliases of the fields of the address a job starts from.
CmOriginNames(us) ==
  [fromContact |-> <<<<"from", "contact">>, <<"sender">>, <<"shipper">>, <<"origin", "contact">>,
                     <<"pickup", "contact">>>>,
   fromCompany |-> CmEach(<<"from", "sender", "shipper", "origin", "pickup">>, "company"),
   fromAddress |-> IF us THEN <<<<"from", "address">>, <<"pickup", "address">>, <<"pickup", "street">>,
                                <<"origin", "address">>, <<"origin", "street">>, <<"sender", "address">>,
                                <<"from", "street">>>>
                   ELSE CmEach(<<"from", "pickup", "origin", "sender">>, "address"),
   fromCity |-> CmEach(<<"from", "pickup", "origin", "sender">>, "city"),
   fromState |-> <<<<"from", "state">>>>,
   fromZipCode |-> <<<<"from", "zip", "code">>>> \o CmEach(<<"pickup", "origin", "from", "sender">>, "zip")
                     \o <<<<"pickup", "postal">>>>,
   fromSuburb |-> CmEach(<<"from", "pickup", "origin", "sender">>, "suburb"),
   fromPostCode |-> [i \in 1 .. 4 |-> <<<<"from", "pickup", "origin", "sender">>[i], "post", "code">>]]

\* Of the address it goes to, in a US tenant.
CmUsNames ==
  [toCompany |-> <<<<"company">>, <<"business">>, <<"business", "name">>, <<"customer">>, <<"account">>,
                   <<"recipient", "company">>, <<"to", "business">>>>,
   toUnit |-> <<<<"unit/suite">>, <<"suite">>, <<"apt">>, <<"apartment">>, <<"unit">>, <<"unit", "number">>,
                <<"suite", "number">>>>,
   toAddress |-> <<<<"address">>, <<"street">>, <<"street", "address">>, <<"address", "line", "1">>,
                   <<"address", "1">>, <<"addr">>>>
                 \o CmEach(<<"delivery", "destination", "drop", "recipient">>, "address"),
   toCity |-> <<<<"city">>, <<"town">>, <<"locality">>, <<"delivery", "city">>, <<"destination", "city">>>>,
   toState |-> <<<<"state">>, <<"province">>, <<"region">>, <<"delivery", "state">>, <<"destination", "state">>,
                 <<"st">>>>,
   toZipCode |-> <<<<"zip", "code">>, <<"zip">>, <<"postal", "code">>, <<"post", "code">>, <<"postal">>,
                   <<"delivery", "zip">>, <<"destination", "zip">>>>,
   toContact |-> <<<<"contact">>, <<"recipient">>, <<"receiver">>, <<"attention">>, <<"handling">>,
                   <<"to", "name">>, <<"delivery", "contact">>, <<"destination", "contact">>,
                   <<"customer", "name">>>>,
   toContactPhone |-> <<<<"contact", "phone">>, <<"phone">>, <<"phone", "number">>, <<"telephone">>, <<"tel">>,
                        <<"mobile">>, <<"cell">>, <<"contact", "#">>, <<"recipient", "phone">>,
                        <<"delivery", "phone">>>>]

\* And in a New Zealand tenant.
CmNzNames ==
  [toCompany |-> <<<<"to", "company">>, <<"recipient", "company">>, <<"to", "business">>>>,
   toUnit |-> <<<<"to", "unit/suite">>, <<"suite">>, <<"apt">>, <<"apartment">>, <<"unit">>, <<"unit", "number">>,
                <<"suite", "number">>>>,
   toAddress |-> CmEach(<<"to", "delivery", "destination", "drop">>, "address"),
   toSuburb |-> <<<<"to", "suburb">>>>, toPostCode |-> <<<<"to", "post", "code">>>>,
   toContact |-> <<<<"to", "contact">>, <<"recipient">>, <<"receiver">>, <<"delivery", "contact">>,
                   <<"destination", "contact">>>>,
   toContactPhone |-> <<<<"to", "contact", "phone">>, <<"phone">>, <<"delivery", "phone">>,
                        <<"recipient", "phone">>>>]

\* Of the load; a truck counts pallets.
CmLoadNames(truck) ==
  [quantity |-> <<<<"quantity">>, <<"qty">>, <<"items">>, <<"number", "of", "items">>, <<"item", "count">>,
                  <<"pieces">>, <<"pcs">>, <<"count">>, <<"boxes">>, <<"cartons">>>>
                \o (IF truck THEN <<<<"pallets">>, <<"pallet", "count">>, <<"pallet", "qty">>>> ELSE << >>),
   length |-> <<<<"length">>, <<"package", "length">>>>, width |-> <<<<"width">>, <<"package", "width">>>>,
   height |-> <<<<"height">>, <<"package", "height">>>>,
   weight |-> <<IF truck THEN <<"weight", "(per", "pallet)">> ELSE <<"weight">>, <<"weight">>, <<"wgt">>,
                <<"lbs">>, <<"pounds">>, <<"kg">>, <<"kgs">>, <<"package", "weight">>>>,
   totalWeight |-> LET units == <<"weight", "kg", "kgs", "lbs", "pounds", "wgt">>
                       named(a) == [i \in DOMAIN units |-> <<a, units[i]>>]
                   IN  named("total") \o named("gross")]

\* Of the truck fields.
CmTruckNames ==
  [speed |-> <<<<"speed">>, <<"service">>, <<"service", "level">>, <<"speed", "code">>>>,
   palletType |-> <<<<"pallet", "type">>, <<"pallet", "size">>>>,
   tailLiftPickup |-> <<<<"tail", "lift", "pu">>, <<"tail", "lift", "pickup">>, <<"pickup", "tail", "lift">>>>,
   tailLiftDropoff |-> <<<<"tail", "lift", "do">>, <<"tail", "lift", "delivery">>,
                         <<"delivery", "tail", "lift">>>>,
   residential |-> <<<<"residential">>, <<"private", "address">>, <<"private", "residence">>>>,
   dangerousGoods |-> <<<<"dangerous", "goods">>, <<"dg">>>>, dgClass |-> <<<<"dg", "class">>>>,
   dgDocument |-> <<<<"dg", "document">>, <<"dg", "documentation">>>>,
   truckStart |-> <<<<"truck", "start">>, <<"start", "time">>>>, truckHours |-> <<<<"truck", "hours">>>>]

\* Of the rest.
CmOtherNames ==
  [jobNumber |-> <<<<"job", "number">>, <<"job", "#">>, <<"job", "id">>, <<"reference">>, <<"ref">>,
                   <<"order", "number">>, <<"order", "#">>>>,
   bookDate |-> <<<<"book", "date">>, <<"date">>, <<"delivery", "date">>>>,
   bookTime |-> <<<<"book", "time">>, <<"time">>, <<"ready", "time">>>>,
   stopType |-> <<<<"stop", "type">>, <<"type">>, <<"stop">>, <<"direction">>, <<"pickup/dropoff">>,
                  <<"pickup", "or", "dropoff">>>>,
   clientRefA |-> <<<<"ref", "a">>, <<"reference", "a">>, <<"reference", "1">>, <<"customer", "ref">>>>,
   clientRefB |-> <<<<"ref", "b">>, <<"reference", "b">>, <<"reference", "2">>>>,
   ourRef |-> <<<<"our", "ref">>, <<"internal", "ref">>, <<"po">>, <<"po", "number">>>>,
   notes |-> <<<<"notes">>, <<"note">>, <<"comments">>, <<"comment">>, <<"description">>, <<"instructions">>,
               <<"special", "instructions">>>>,
   trackingEmail |-> <<<<"tracking", "email">>, <<"email">>, <<"notification", "email">>,
                       <<"recipient", "email">>, <<"customer", "email">>>>,
   trackingMobile |-> <<<<"tracking", "mobile">>, <<"sms">>, <<"mobile">>, <<"notification", "mobile">>,
                        <<"notification", "sms">>, <<"customer", "mobile">>>>]

\* The label and the aliases of the fields, in order.
CmNames(us, truck) ==
  CmOriginNames(us) @@ (IF us THEN CmUsNames ELSE CmNzNames) @@ CmLoadNames(truck) @@ CmTruckNames @@ CmOtherNames

-------------------------------------------------------------------------------
(* autoMatchColumn                                                         *)

CmLetters(w) ==
  LET upTo[n \in 0 .. Len(w)] == IF n = 0 THEN 0 ELSE upTo[n - 1] + Len(w[n])
  IN  upTo[Len(w)]

\* stripFromTo
CmStrip(w) == IF Len(w) > 1 /\ w[1] \in {"from", "to"} THEN Tail(w) ELSE w

\* prefixOf: total and town begin with to.
CmSide(w) ==
  CASE w[1] \in {"from", "pickup", "origin", "sender", "shipper"} -> "from"
    [] w[1] \in {"to", "total", "town", "delivery", "destination", "drop", "recipient", "receiver"} -> "to"
    [] OTHER -> "none"

CmAligned(k, column) ==
  LET side == CmSide(CmKeyWords[k]) IN side = "none" \/ CmSide(column) \in {"none", side}

\* A total of the load, by the words of the column.
CmIsTotal(column) == ToSet(column) \cap {"total", "gross"} # {}

CmIsWeight(column) ==
  ToSet(column) \cap {"weight", "wgt", "kg", "kgs", "lb", "lbs", "pound", "pounds"} # {}

\* acceptsHeader: on demand, Weight leaves totals to Total Weight.
CmAccepts(k, job, column) ==
  /\ k = "totalWeight" => CmIsTotal(column) /\ CmIsWeight(column)
  /\ k = "weight" /\ job = "onDemand" => ~CmIsTotal(column)

CmStarts(a, column) == IsPrefix(a, column) \/ IsPrefix(column, a)

CmWithin(a, b) == \E i \in 0 .. Len(b) - Len(a) : SubSeq(b, i + 1, i + Len(a)) = a

CmHolds(a, column) == CmWithin(a, column) \/ CmWithin(column, a)

\* Lexicographic order of tuples of one length.
CmBefore(a, b) == \E i \in DOMAIN a : a[i] < b[i] /\ \A j \in 1 .. i - 1 : a[j] = b[j]

\* normalizedAliases with the stripped ones.
CmStripped(names) ==
  [n \in 1 .. 2 * Len(names) |-> IF n % 2 = 1 THEN names[(n + 1) \div 2] ELSE CmStrip(names[n \div 2])]

\* The claims of the aliases on the columns that are free: by the key, by a name, by the start of one,
\* by a part of one; then by the longest name, the first one of that length, the first column.
CmClaims(k, alias, columns, free) ==
  LET own == CmKeyWords[k]
      pairs == {p \in (DOMAIN alias) \X free : CmLetters(alias[p[1]]) >= 3 /\ CmAligned(k, columns[p[2]])}
      by(level, near) == {<<level, -CmLetters(alias[p[1]]), p[1], p[2]>> : p \in near}
  IN  {<<1, 0, 0, c>> : c \in {c \in free : columns[c] \in {own, CmStrip(own)}}}
      \cup by(2, {p \in (DOMAIN alias) \X free : alias[p[1]] = columns[p[2]]})
      \cup by(3, {p \in pairs : CmStarts(alias[p[1]], columns[p[2]])})
      \cup by(4, {p \in pairs : CmHolds(alias[p[1]], columns[p[2]])})

\* The column of the best claim.
CmBest(claims, columns) ==
  LET best == {a \in claims : \A b \in claims : a = b \/ CmBefore(a, b)}
  IN  IF best = {} THEN CmNone ELSE columns[(CHOOSE a \in best : TRUE)[4]]

CmAutoMatch(k, us, job, truck, columns) ==
  CmBest(CmClaims(k, CmStripped(CmNames(us, truck)[k]), columns,
                  {c \in DOMAIN columns : CmAccepts(k, job, columns[c])}), columns)

CmJobTypes == {"routed", "onDemand"}

CmHeaders(file) == IF file = 0 THEN << >> ELSE CmColumns[file]

\* The names there are for a field in a tenant: a suburb or a city, not both.
CmNamed(us, truck) == DOMAIN CmNames(us, truck) \cap CmKeys

\* The automatic match of every field with the columns of every file.
CmMatches ==
  [us \in BOOLEAN |-> [truck \in BOOLEAN |-> [job \in CmJobTypes |-> [file \in CmFiles \cup {0} |->
     [k \in CmKeys |-> IF k \in CmNamed(us, truck) THEN CmAutoMatch(k, us, job, truck, CmHeaders(file))
                       ELSE CmNone]]]]]

-------------------------------------------------------------------------------
(* What a state of the wizard shows                                        *)

CmUnmapped == [k \in CmKeys |-> CmNone]

\* initialWizardState. batch: the speed picked for the whole batch is a truck speed.
CmFresh ==
  [step |-> "newImport", client |-> 0, file |-> 0, job |-> "routed", map |-> CmUnmapped, held |-> 0,
   auto |-> FALSE, site |-> FALSE, contact |-> FALSE, stock |-> FALSE, trucks |-> FALSE, template |-> 0,
   batch |-> FALSE]

CmIsUs(s) == s.client \in CmUs

CmEligible(s) == ~CmIsUs(s) /\ s.job = "onDemand" /\ s.held \in CmTrucked

CmNamesTruck(s, column) == s.file # 0 /\ column \in CmTruckColumns[s.file]

\* truckInPlay
CmInPlay(s) == CmEligible(s) /\ (s.trucks \/ CmNamesTruck(s, s.map["speed"]) \/ s.batch)

CmTruckKeys == DOMAIN CmTruckNames \cup {"totalWeight"}

\* urgentFieldsFor
CmFields(s) ==
  LET us == CmIsUs(s)
      demand == s.job = "onDemand"
  IN  {k \in CmKeys :
         /\ k = "jobNumber" => ~s.auto
         /\ k \in {"bookDate", "bookTime"} => demand
         /\ k \in {"fromCompany", "fromAddress"} => demand \/ (us /\ s.site)
         /\ k \in {"fromCity", "fromState", "fromZipCode"} => us /\ (demand \/ s.site)
         /\ k \in {"fromSuburb", "fromPostCode"} => ~us /\ demand
         /\ k \in {"toCity", "toState", "toZipCode", "stopType"} => us
         /\ k \in {"toSuburb", "toPostCode"} => ~us
         /\ k \in {"length", "width", "height", "weight"} => ~s.stock
         /\ k = "totalWeight" => CmInPlay(s) \/ (demand /\ ~s.stock)
         /\ k \in DOMAIN CmTruckNames => CmInPlay(s)}

CmOriginKeys == DOMAIN CmOriginNames(FALSE)

\* visibleFields
CmVisible(s) ==
  {k \in CmFields(s) : ~(s.site /\ k \in CmOriginKeys) /\ ~(s.contact /\ k = "fromContact")}

\* The fields that the server insists on, and the references that the settings do.
CmRequired(settings) ==
  {"jobNumber", "fromContact", "fromAddress", "fromCity", "fromSuburb", "toAddress", "toCity", "toState",
   "toZipCode", "toSuburb", "toContact", "toContactPhone"}
  \cup (IF settings = 0 THEN {} ELSE CmMandatory[settings])

\* The columns with a value in every row.
CmFull(file) == IF file = 0 THEN {} ELSE ToSet(CmColumns[file]) \ CmBlank[file]

\* requiredFieldProblems
CmProblems(s, settings) == {k \in CmVisible(s) \cap CmRequired(settings) : s.map[k] \notin CmFull(s.file)}

\* The automatic match of every field.
CmMatched(s) == CmMatches[CmIsUs(s)][CmInPlay(s)][s.job][s.file]

CmMatch(s, k) == CmMatched(s)[k]

-------------------------------------------------------------------------------
(* The effects of a render                                                 *)

CmShown(r) == r.open /\ r.wiz.step = "mapColumns"

\* Mutant of CmAutoMapped: the match replaces what is mapped.
CmAutoMappedAnew(s) == [k \in CmKeys |-> IF k \in CmFields(s) THEN CmMatch(s, k) ELSE s.map[k]]

\* The fields without a column are matched.
CmAutoMapped(s) ==
  LET fields == CmFields(s)
      matched == CmMatched(s)
  IN  [k \in CmKeys |-> IF k \in fields /\ s.map[k] = CmNone THEN matched[k] ELSE s.map[k]]

\* Mutant of CmTruckMapped: Weight stays where it is.
CmTruckMappedKeep(s) ==
  [k \in CmKeys |-> IF k \in CmFields(s) \cap (CmTruckKeys \cup {"quantity"}) /\ s.map[k] = CmNone
                     THEN CmMatch(s, k) ELSE s.map[k]]

\* autoMapTruckFields
CmTruckMapped(s) ==
  LET truck == CmFields(s) \cap (CmTruckKeys \cup {"quantity"})
      matched == CmMatched(s)
      next == [k \in CmKeys |-> IF k \in truck /\ s.map[k] = CmNone THEN matched[k] ELSE s.map[k]]
  IN  IF next["totalWeight"] # CmNone /\ next["weight"] = next["totalWeight"]
      THEN [next EXCEPT !["weight"] = CmNone] ELSE next

\* What the effects depend on.
CmLoadDeps(r) == <<CmShown(r), r.wiz.client, CmIsUs(r.wiz), r.wiz.job, r.wiz.auto>>

CmLoads(b, r) == CmLoadDeps(b) # CmLoadDeps(r) /\ CmShown(r) /\ r.wiz.client # 0

\* A Speed column that names a truck speed is found.
CmSpots(b, r) ==
  /\ <<CmShown(b), CmEligible(b.wiz)>> # <<CmShown(r), CmEligible(r.wiz)>>
  /\ CmShown(r) /\ CmEligible(r.wiz)
  /\ r.wiz.map["speed"] = CmNone /\ CmNamesTruck(r.wiz, CmMatch(r.wiz, "speed"))

CmTrucks(b, r) ==
  /\ <<CmShown(b), CmInPlay(b.wiz)>> # <<CmShown(r), CmInPlay(r.wiz)>>
  /\ CmShown(r) /\ CmInPlay(r.wiz)

\* The mapping that the three effects leave: each starts from the mapping of the render.
CmEffects(b, r) ==
  LET loaded == IF CmLoads(b, r) THEN CmAutoMapped(r.wiz) ELSE r.wiz.map
      spotted == IF CmSpots(b, r) THEN [loaded EXCEPT !["speed"] = CmMatch(r.wiz, "speed")] ELSE loaded
  IN  IF CmTrucks(b, r) THEN CmTruckMapped(r.wiz) ELSE spotted

CmAfter(b, r) == [r EXCEPT !.wiz.map = CmEffects(b, r)]

\* A second render follows when the effects brought truck jobs into play.
CmSettled(b, r) == CmAfter(r, CmAfter(b, r))

\* A load that is cancelled leaves the overlay until another one ends.
CmLoading(b, r, load) ==
  IF CmLoadDeps(b) = CmLoadDeps(r) THEN load
  ELSE IF CmLoads(b, r) THEN "live"
  ELSE IF load = "none" THEN "none" ELSE "dropped"

CmRender(open, s, page) ==
  LET b == [open |-> cmOpen, wiz |-> cmWiz]
      r == [open |-> open, wiz |-> s]
  IN  /\ cmOpen' = open
      /\ cmWiz' = CmSettled(b, r).wiz
      /\ cmPage' = [page EXCEPT !.load = CmLoading(b, r, @)]

CmShow(s) == CmRender(cmOpen, s, cmPage)

CmInit ==
  /\ cmOpen = FALSE /\ cmWiz = CmFresh
  /\ cmPage = [settings |-> 0, templates |-> {}, load |-> "none"]
  /\ cmCalls = [upload |-> 0, checking |-> FALSE, deletions |-> {}]
  /\ cmStored = CmTemplates

-------------------------------------------------------------------------------
(* The first step                                                          *)

CmNoCalls == cmCalls = [upload |-> 0, checking |-> FALSE, deletions |-> {}]

CmWaits == CmPatient => CmNoCalls

CmAt(step) == cmOpen /\ cmWiz.step = step /\ CmWaits

CmStart == CmAt("newImport") /\ cmCalls.upload = 0

CmOpenWizard == ~cmOpen /\ CmRender(TRUE, cmWiz, cmPage) /\ UNCHANGED <<cmCalls, cmStored>>

\* handleClose: RESET.
CmCloseWizard == cmOpen /\ CmWaits /\ CmRender(FALSE, CmFresh, cmPage) /\ UNCHANGED <<cmCalls, cmStored>>

\* Mutant of CmPickClient: what another client left stays.
CmPickClientKeep(c) == CmStart /\ CmShow([cmWiz EXCEPT !.client = c]) /\ UNCHANGED <<cmCalls, cmStored>>

\* SET_CLIENT: what another client left is wiped.
CmPickClient(c) ==
  /\ CmStart
  /\ CmShow([(IF cmWiz.client \in {0, c} THEN cmWiz ELSE CmFresh) EXCEPT !.client = c])
  /\ UNCHANGED <<cmCalls, cmStored>>

CmPickType(job) == CmStart /\ CmShow([cmWiz EXCEPT !.job = job]) /\ UNCHANGED <<cmCalls, cmStored>>

\* handleUpload
CmUpload(file) ==
  /\ CmStart /\ cmWiz.client # 0
  /\ cmCalls' = [cmCalls EXCEPT !.upload = file]
  /\ UNCHANGED <<cmOpen, cmWiz, cmPage, cmStored>>

\* Its reply, or its failure, whatever is shown by then.
CmUploaded ==
  /\ cmCalls.upload # 0
  /\ cmCalls' = [cmCalls EXCEPT !.upload = 0]
  /\ CmShow(cmWiz) \/ CmShow([cmWiz EXCEPT !.file = cmCalls.upload, !.step = "mapColumns"])
  /\ UNCHANGED cmStored

-------------------------------------------------------------------------------
(* The columns                                                             *)

CmReady == CmAt("mapColumns") /\ cmPage.load = "none"

\* The settings, and the templates unless their own call failed.
CmLoaded ==
  /\ cmPage.load = "live"
  /\ \E templates \in {cmStored, cmPage.templates} :
       CmRender(cmOpen, [cmWiz EXCEPT !.held = cmWiz.client],
                [settings |-> cmWiz.client, templates |-> templates, load |-> "none"])
  /\ UNCHANGED <<cmCalls, cmStored>>

CmLoadFails ==
  /\ cmPage.load = "live"
  /\ cmPage' = [cmPage EXCEPT !.load = "none"]
  /\ UNCHANGED <<cmOpen, cmWiz, cmCalls, cmStored>>

\* PATCH_MAPPING
CmMapField(k, column) ==
  /\ CmReady /\ k \in CmVisible(cmWiz)
  /\ column \in ToSet(CmHeaders(cmWiz.file)) \cup {CmNone}
  /\ CmShow([cmWiz EXCEPT !.map[k] = column])
  /\ UNCHANGED <<cmCalls, cmStored>>

\* SET_OPTIONS, where the option can be changed.
CmSetOption(o) ==
  /\ CmReady
  /\ o \in {"contact", "stock"} => cmPage.settings # 0
  /\ o = "trucks" => CmEligible(cmWiz) /\ (CmInPlay(cmWiz) => cmWiz.trucks)
  /\ o = "site" => CmIsUs(cmWiz) /\ cmWiz.job = "routed"
  /\ CmShow([cmWiz EXCEPT ![o] = ~@])
  /\ UNCHANGED <<cmCalls, cmStored>>

\* APPLY_TEMPLATE: the columns of the template that the file has, and no others.
CmApplyTemplate(t) ==
  /\ CmReady /\ t \in cmPage.templates
  /\ CmShow([cmWiz EXCEPT !.template = t,
       !.map = [k \in CmKeys |-> IF CmTemplateMap[t][k] \in ToSet(CmHeaders(cmWiz.file))
                                 THEN CmTemplateMap[t][k] ELSE CmNone]])
  /\ UNCHANGED <<cmCalls, cmStored>>

CmClearTemplate ==
  /\ CmReady /\ cmWiz.template # 0
  /\ CmShow([cmWiz EXCEPT !.template = 0,
       !.map = [k \in CmKeys |-> IF k \in CmFields(cmWiz) THEN CmMatch(cmWiz, k) ELSE CmNone]])
  /\ UNCHANGED <<cmCalls, cmStored>>

\* The deletion keeps the mapping of the render it was asked in.
CmDeleteTemplate ==
  /\ CmReady /\ cmWiz.template # 0 /\ cmCalls.deletions = {}
  /\ cmCalls' = [cmCalls EXCEPT !.deletions = {[template |-> cmWiz.template, map |-> cmWiz.map]}]
  /\ UNCHANGED <<cmOpen, cmWiz, cmPage, cmStored>>

\* Its reply, or its failure, whatever is shown by then.
CmDeleted ==
  \E d \in cmCalls.deletions :
    /\ cmCalls' = [cmCalls EXCEPT !.deletions = @ \ {d}]
    /\ \/ CmShow(cmWiz) /\ UNCHANGED cmStored
       \/ /\ cmStored' = cmStored \ {d.template}
          /\ CmRender(cmOpen, [cmWiz EXCEPT !.template = 0, !.map = d.map],
                      [cmPage EXCEPT !.templates = @ \ {d.template}])

\* handleNext: on demand the references are checked first.
CmNextColumns ==
  /\ CmReady /\ CmProblems(cmWiz, cmPage.settings) = {} /\ ~cmCalls.checking
  /\ IF cmWiz.job = "onDemand" /\ cmWiz.client # 0
     THEN cmCalls' = [cmCalls EXCEPT !.checking = TRUE] /\ UNCHANGED <<cmOpen, cmWiz, cmPage>>
     ELSE CmShow([cmWiz EXCEPT !.step = "fixZips"]) /\ UNCHANGED cmCalls
  /\ UNCHANGED cmStored

\* Refused rows keep the step; none, or a check that failed, leads on from wherever the wizard is.
CmChecked ==
  /\ cmCalls.checking
  /\ cmCalls' = [cmCalls EXCEPT !.checking = FALSE]
  /\ CmShow(cmWiz) \/ CmShow([cmWiz EXCEPT !.step = "fixZips"])
  /\ UNCHANGED cmStored

-------------------------------------------------------------------------------
(* The steps around                                                        *)

CmGoto(step) == CmShow([cmWiz EXCEPT !.step = step]) /\ UNCHANGED <<cmCalls, cmStored>>

CmBack ==
  \/ CmReady /\ CmGoto("newImport")
  \/ CmAt("fixZips") /\ CmGoto("mapColumns")
  \/ CmAt("schedulePicker") /\ CmGoto("fixZips")

\* START_PENDING_DEPOT clears the speed that was picked.
CmToPicker ==
  /\ CmAt("fixZips") /\ CmShow([cmWiz EXCEPT !.step = "schedulePicker", !.batch = FALSE])
  /\ UNCHANGED <<cmCalls, cmStored>>

\* SET_SPEED_ID
CmPickSpeed ==
  /\ CmAt("schedulePicker") /\ cmWiz.held \in CmTrucked
  /\ CmShow([cmWiz EXCEPT !.batch = ~@])
  /\ UNCHANGED <<cmCalls, cmStored>>

\* The operator writes the mapping, or starts anew.
CmEdits ==
  \/ CmCloseWizard \/ CmClearTemplate
  \/ \E c \in CmClients \cup {0} : CmPickClient(c)
  \/ \E p \in CmByHand : CmMapField(p[1], p[2])
  \/ \E t \in CmTemplates : CmApplyTemplate(t)

CmWrites == CmEdits \/ CmDeleted

CmNext ==
  \/ CmWrites
  \/ CmOpenWizard \/ CmUploaded \/ CmLoaded \/ CmLoadFails
  \/ \E job \in CmJobTypes : CmPickType(job)
  \/ \E file \in CmFiles : CmUpload(file)
  \/ \E o \in CmTried : CmSetOption(o)
  \/ CmDeleteTemplate \/ CmNextColumns \/ CmChecked
  \/ CmBack \/ CmToPicker \/ CmPickSpeed

CmSpec == CmInit /\ [][CmNext]_cmVars

-------------------------------------------------------------------------------
(* Properties                                                              *)

CmAnyColumn == {CmNone} \cup UNION {ToSet(CmColumns[f]) : f \in CmFiles}

CmWizards ==
  [step : {"newImport", "mapColumns", "fixZips", "schedulePicker"}, client : CmClients \cup {0},
   file : CmFiles \cup {0}, job : CmJobTypes, map : [CmKeys -> CmAnyColumn], held : CmClients \cup {0},
   auto : BOOLEAN, site : BOOLEAN, contact : BOOLEAN, stock : BOOLEAN, trucks : BOOLEAN,
   template : CmTemplates \cup {0}, batch : BOOLEAN]

\* Every field is on a column of some file or on none; a call under way holds such a mapping; the
\* settings that are held are those of the client.
CmTypeOK ==
  /\ cmOpen \in BOOLEAN /\ cmWiz \in CmWizards /\ cmWiz.held \in {0, cmWiz.client}
  /\ cmPage \in [settings : CmClients \cup {0}, templates : SUBSET CmTemplates,
                  load : {"none", "live", "dropped"}]
  /\ cmCalls.upload \in CmFiles \cup {0} /\ cmCalls.checking \in BOOLEAN
  /\ \A d \in cmCalls.deletions : d.template \in CmTemplates /\ d.map \in [CmKeys -> CmAnyColumn]
  /\ cmStored \subseteq CmTemplates

CmTruckShown(r) == CmShown(r) /\ CmInPlay(r.wiz)

CmNow == [open |-> cmOpen, wiz |-> cmWiz]

\* When truck jobs come into play on the screen, whatever put Weight and Total Weight there, they are
\* not on one column.
TruckWeightApart ==
  [][~CmTruckShown(CmNow) /\ CmTruckShown(CmNow') =>
       cmWiz'.map["weight"] = CmNone \/ cmWiz'.map["weight"] # cmWiz'.map["totalWeight"]]_cmVars

\* A file whose Speed column names a truck speed has truck jobs as soon as the settings of a client
\* that has trucks arrive, or the modal opens, unless Speed is on another column.
TruckIsSpotted ==
  [][LET before == CmShown(CmNow) /\ CmEligible(cmWiz)
         after == CmShown(CmNow') /\ CmEligible(cmWiz')
     IN  ~before /\ after /\ CmNamesTruck(cmWiz', CmMatch(cmWiz', "speed")) =>
           CmInPlay(cmWiz') \/ cmWiz.map["speed"] # CmNone]_cmVars

\* What is mapped stays: only the operator replaces a column, but for Weight, which lets a total go;
\* the closure of a deletion puts an old mapping back ("mapping stays as-is, matching legacy which does
\* not undo already-applied mappings", MapColumnsModal.tsx) if the operator does not wait for it.
MappedStays ==
  [][CmEdits \/ (~CmPatient /\ CmDeleted) \/ \A k \in CmKeys :
       \/ cmWiz.map[k] \in {CmNone, cmWiz'.map[k]}
       \/ k = "weight" /\ cmWiz'.map[k] = CmNone /\ cmWiz.map[k] = cmWiz'.map["totalWeight"]]_cmVars
===============================================================================
