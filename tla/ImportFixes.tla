----------------------------- MODULE ImportFixes -----------------------------
(***************************************************************************)
(* Steps 3 and 4 of the bulk import wizard (FixZipCodesModal.tsx,          *)
(* FixAddressesModal.tsx) and what buildJobs makes of their answers.       *)
(*                                                                         *)
(* Each step asks the server when it is shown: the reference list of zip   *)
(* codes or suburbs, the positions of the addresses.  Its reply writes     *)
(* replacements of names and pins of rows into the wizard's state, where   *)
(* the operator writes too; a reply holds the state of the render that     *)
(* asked for it, and is dropped once the step is left.                     *)
(*                                                                         *)
(* A sheet is a file read through a mapping.  The name of a row is its zip *)
(* code or its suburb; a position is named for the address it is of.       *)
(***************************************************************************)
EXTENDS Integers, Sequences, FiniteSets

CONSTANTS
  FxClients,   \* ids of clients
  FxUs,        \* those of US tenants
  FxFiles,     \* ids of files
  FxSheet,     \* per sheet: its client, its file, its rows [name, post, to, from]
  FxFold,      \* a name in lower case
  FxLists,     \* the reference lists of the tenants: [us, nz], sets of names
  FxAliases,   \* per alias in lower case, the suburb and post code it stands for
  FxSuggests,  \* per address, the zip or post code the geocoder has for it
  FxReliable,  \* the reference list does arrive
  FxPatient    \* the operator waits for the replies of upload and place details

FxText == "" \* nothing: an empty string, an absent entry

FxIds == DOMAIN FxSheet

FxRowSet == UNION {{FxSheet[s].rows[i] : i \in DOMAIN FxSheet[s].rows} : s \in FxIds}

FxNames == {r.name : r \in FxRowSet} \cup FxLists.us \cup FxLists.nz

FxAddresses == ({r.to : r \in FxRowSet} \cup {r.from : r \in FxRowSet}) \ {FxText}

ASSUME FxAssumption ==
  /\ 0 \notin FxClients /\ 0 \notin FxFiles /\ 0 \notin FxIds
  /\ FxSheet \in [FxIds -> [client : FxClients, file : FxFiles,
                              rows : Seq([name : STRING, post : STRING, to : STRING, from : STRING])]]
  /\ FxUs \subseteq FxClients /\ FxText \notin FxLists.us \cup FxLists.nz
  /\ \A r \in FxRowSet : r.name # FxText /\ r.to # FxText
  /\ \A a \in DOMAIN FxAliases : FxAliases[a].name \in FxLists.nz
  /\ FxReliable \in BOOLEAN /\ FxPatient \in BOOLEAN

VARIABLES
  fxOpen,    \* the wizard is on the screen
  fxWiz,     \* WizardState
  fxPage,    \* the two modals: reference list, its loading, the addresses as they came back
  fxUpload,  \* the file that is being parsed
  fxGeo,     \* the geocode calls under way, with the state they were made in
  fxPick     \* the place whose details are asked for

fxVars == <<fxOpen, fxWiz, fxPage, fxUpload, fxGeo, fxPick>>

-------------------------------------------------------------------------------
(* Rows and their keys                                                     *)

FxWidth == {Len(FxSheet[s].rows) : s \in FxIds}

FxIdx == UNION {1 .. n : n \in FxWidth}

FxRows(w) == IF w.sheet = 0 THEN << >> ELSE FxSheet[w.sheet].rows

FxIsUs(w) == w.client \in FxUs

FxTenant(w) == IF FxIsUs(w) THEN "us" ELSE "nz"

\* storeKey: a zip code by itself, a suburb with its post code.
FxKey(w, row) == IF FxIsUs(w) THEN <<row.name, FxText>> ELSE <<FxFold[row.name], row.post>>

FxKeys == {<<r.name, FxText>> : r \in FxRowSet} \cup {<<FxFold[r.name], r.post>> : r \in FxRowSet}

\* seen: only the first row of a key is looked at.
FxFirsts(w) ==
  {i \in DOMAIN FxRows(w) : \A j \in 1 .. i - 1 : FxKey(w, FxRows(w)[j]) # FxKey(w, FxRows(w)[i])}

\* canonical: the names of the list that read the same in lower case.
FxCanon(list, name) == {k \in list : FxFold[k] = FxFold[name]}

\* The alias is that of a suburb whose post code does not disagree.
FxAliased(w, row) ==
  /\ ~FxIsUs(w) /\ FxFold[row.name] \in DOMAIN FxAliases
  /\ \/ FxText \in {row.post, FxAliases[FxFold[row.name]].post}
     \/ FxAliases[FxFold[row.name]].post = row.post

FxNoPin == [of |-> FxText, by |-> FxText]

FxPins == [FxIdx -> {FxNoPin} \cup [of : FxAddresses, by : {"geocoder", "operator"}]]

\* initialWizardState
FxFresh ==
  [step |-> "newImport", client |-> 0, file |-> 0, sheet |-> 0, zips |-> [k \in FxKeys |-> FxText],
   to |-> [i \in FxIdx |-> FxNoPin], from |-> [i \in FxIdx |-> FxNoPin], posts |-> [i \in FxIdx |-> FxText]]

-------------------------------------------------------------------------------
(* The reference list                                                      *)

FxListOf(known) == IF known = "none" THEN {} ELSE FxLists[known]

\* Mutant of FxNormalised: an alias is left to the operator.
FxNormalisedNames(w, known) ==
  [k \in FxKeys |->
     LET rows == {FxRows(w)[i] : i \in {i \in FxFirsts(w) : FxKey(w, FxRows(w)[i]) = k}}
         drifted == {c \in FxListOf(known) : \E r \in rows : FxFold[c] = FxFold[r.name] /\ c # r.name}
     IN  IF w.zips[k] # FxText \/ drifted = {} THEN w.zips[k] ELSE CHOOSE c \in drifted : TRUE]

\* The effect that writes the spelling of the list, and in NZ the suburb of an alias, where nothing
\* is written yet.
FxNormalised(w, known) ==
  [k \in FxKeys |->
     LET rows == {FxRows(w)[i] : i \in {i \in FxFirsts(w) : FxKey(w, FxRows(w)[i]) = k}}
         drifted == {c \in FxListOf(known) : \E r \in rows : FxFold[c] = FxFold[r.name] /\ c # r.name}
         aliased == {r \in rows : FxCanon(FxListOf(known), r.name) = {} /\ FxAliased(w, r)}
     IN  IF w.zips[k] # FxText \/ known = "none" THEN w.zips[k]
         ELSE IF drifted # {} THEN CHOOSE c \in drifted : TRUE
         ELSE IF aliased # {} THEN FxAliases[k[1]].name
         ELSE FxText]

\* badZips
FxBad(w, known) ==
  {k \in FxKeys : known # "none" /\ \E i \in FxFirsts(w) :
     LET row == FxRows(w)[i]
     IN  k = FxKey(w, row) /\ FxCanon(FxListOf(known), row.name) = {} /\ ~FxAliased(w, row)}

-------------------------------------------------------------------------------
(* What a render starts and stops                                          *)

FxShown(open, w, step) == open /\ w.step = step

FxEnters(open, w, step) == FxShown(open, w, step) /\ ~FxShown(fxOpen, fxWiz, step)

\* Mutant of FxLive: the calls of a step that was left are not cancelled.
FxLiveAll(open, w) == fxGeo

\* The calls that are not cancelled: what a cancelled one is answered is dropped.
FxLive(open, w) == IF FxShown(open, w, "fixAddresses") THEN fxGeo ELSE {}

\* Showing step 3 loads the list, and normalises by the one it still has; showing step 4 geocodes.
FxRender(open, w, page) ==
  LET lists == FxEnters(open, w, "fixZips")
      geocodes == FxEnters(open, w, "fixAddresses")
  IN  /\ fxOpen' = open
      /\ fxWiz' = IF lists /\ ~page.busy THEN [w EXCEPT !.zips = FxNormalised(w, page.known)] ELSE w
      /\ fxPage' = [page EXCEPT !.busy = @ \/ lists, !.geocoding = @ \/ geocodes]
      /\ fxGeo' = FxLive(open, w) \cup IF geocodes THEN {[sheet |-> w.sheet, was |-> w]} ELSE {}

FxInit ==
  /\ fxOpen = FALSE /\ fxWiz = FxFresh
  /\ fxPage = [known |-> "none", busy |-> FALSE, sheet |-> 0, found |-> [to |-> {}, from |-> {}],
               geocoding |-> FALSE]
  /\ fxUpload = 0 /\ fxGeo = {} /\ fxPick = {}

-------------------------------------------------------------------------------
(* The steps around                                                        *)

FxWaits == FxPatient => fxUpload = 0 /\ fxPick = {}

FxAt(step) == FxShown(fxOpen, fxWiz, step) /\ FxWaits

FxReady(step) ==
  /\ FxAt(step)
  /\ step = "fixZips" => ~fxPage.busy
  /\ step = "fixAddresses" => ~fxPage.geocoding

FxOpenWizard == ~fxOpen /\ FxRender(TRUE, fxWiz, fxPage) /\ UNCHANGED <<fxUpload, fxPick>>

\* handleClose: RESET.
FxCloseWizard == fxOpen /\ FxWaits /\ FxRender(FALSE, FxFresh, fxPage) /\ UNCHANGED <<fxUpload, fxPick>>

\* SET_CLIENT wipes what another client left.
FxPickClient(c) ==
  /\ FxAt("newImport") /\ fxUpload = 0
  /\ FxRender(TRUE, [(IF fxWiz.client \in {0, c} THEN fxWiz ELSE FxFresh) EXCEPT !.client = c], fxPage)
  /\ UNCHANGED <<fxUpload, fxPick>>

\* handleUpload
FxUploadFile(file) ==
  /\ FxAt("newImport") /\ fxUpload = 0
  /\ \E s \in FxIds : FxSheet[s].client = fxWiz.client /\ FxSheet[s].file = file
  /\ fxUpload' = file
  /\ UNCHANGED <<fxOpen, fxWiz, fxPage, fxGeo, fxPick>>

\* Its reply, SET_PARSED, or its failure; what was fixed for another file stays.
FxUploaded ==
  /\ fxUpload # 0 /\ fxUpload' = 0 /\ UNCHANGED fxPick
  /\ \/ FxRender(fxOpen, fxWiz, fxPage)
     \/ FxRender(fxOpen, [fxWiz EXCEPT !.file = fxUpload, !.sheet = 0, !.step = "mapColumns"], fxPage)

\* Step 2 leaves a mapping.
FxMapColumns(s) ==
  /\ FxAt("mapColumns")
  /\ FxSheet[s].client = fxWiz.client /\ FxSheet[s].file = fxWiz.file
  /\ FxRender(TRUE, [fxWiz EXCEPT !.sheet = s, !.step = "fixZips"], fxPage)
  /\ UNCHANGED <<fxUpload, fxPick>>

FxFollowing == [fixZips |-> "fixAddresses", fixAddresses |-> "selectRegions"]

FxBefore ==
  [mapColumns |-> "newImport", fixZips |-> "mapColumns", fixAddresses |-> "fixZips",
   selectRegions |-> "fixAddresses"]

FxNextStep ==
  \E step \in DOMAIN FxFollowing :
    /\ FxReady(step) /\ FxRender(TRUE, [fxWiz EXCEPT !.step = FxFollowing[step]], fxPage)
    /\ UNCHANGED <<fxUpload, fxPick>>

FxBack ==
  \E step \in DOMAIN FxBefore :
    /\ FxReady(step) /\ FxRender(TRUE, [fxWiz EXCEPT !.step = FxBefore[step]], fxPage)
    /\ UNCHANGED <<fxUpload, fxPick>>

-------------------------------------------------------------------------------
(* Step 3                                                                  *)

\* The list arrives, and is normalised by; a failure leaves none.
FxListed ==
  /\ FxShown(fxOpen, fxWiz, "fixZips") /\ fxPage.busy
  /\ \E known \in {FxTenant(fxWiz)} \cup (IF FxReliable THEN {} ELSE {"none"}) :
       /\ fxPage' = [fxPage EXCEPT !.known = known, !.busy = FALSE]
       /\ fxWiz' = [fxWiz EXCEPT !.zips = FxNormalised(fxWiz, known)]
  /\ UNCHANGED <<fxOpen, fxUpload, fxGeo, fxPick>>

\* SET_FIXED_ZIP by the operator, for a name that is listed.
FxChoose(k, name) ==
  /\ FxReady("fixZips") /\ k \in FxBad(fxWiz, fxPage.known)
  /\ name \in FxListOf(fxPage.known) \cup {FxText}
  /\ fxWiz' = [fxWiz EXCEPT !.zips[k] = name]
  /\ UNCHANGED <<fxOpen, fxPage, fxUpload, fxGeo, fxPick>>

-------------------------------------------------------------------------------
(* Step 4                                                                  *)

FxDirections == {"to", "from"}

\* The rows of a sheet with an address to look up.
FxLocated(s, dir) == {i \in DOMAIN FxSheet[s].rows : FxSheet[s].rows[i][dir] # FxText}

\* Mutant of FxPinned: the reply writes every pin it has.
FxPinnedAnew(c, dir, found) ==
  [i \in FxIdx |-> IF i \in found THEN [of |-> FxSheet[c.sheet].rows[i][dir], by |-> "geocoder"]
                   ELSE fxWiz[dir][i]]

\* SET_FIXED_ADDRESS, SET_FIXED_FROM_ADDRESS: where the asking render had no pin.
FxPinned(c, dir, found) ==
  [i \in FxIdx |-> IF i \in found /\ c.was[dir][i] = FxNoPin
                   THEN [of |-> FxSheet[c.sheet].rows[i][dir], by |-> "geocoder"]
                   ELSE fxWiz[dir][i]]

\* The rows whose address came back with another zip or post code.
FxSuggested(c, found) ==
  {i \in found : FxSuggests[FxSheet[c.sheet].rows[i].to] \notin
     {FxText, IF FxIsUs(c.was) THEN FxSheet[c.sheet].rows[i].name ELSE FxSheet[c.sheet].rows[i].post}}

\* Whether the reply writes a name: always in the US, in NZ where the asking render had none.
FxWritten(c, k) == FxIsUs(c.was) \/ c.was.zips[k] = FxText

\* SET_FIXED_ZIP: the zip code the geocoder suggests, the suburb as it was sent.
FxRenamed(c, found) ==
  [k \in FxKeys |->
     LET rows == FxSheet[c.sheet].rows
         at == {i \in FxSuggested(c, found) : FxKey(c.was, rows[i]) = k /\ FxWritten(c, k)}
     IN  IF at = {} THEN fxWiz.zips[k]
         ELSE LET last == CHOOSE i \in at : \A j \in at : j <= i
              IN  IF FxIsUs(c.was) THEN FxSuggests[rows[last].to] ELSE rows[last].name]

\* SET_FIXED_POSTCODE, in NZ.
FxPosted(c, found) ==
  [i \in FxIdx |-> IF ~FxIsUs(c.was) /\ i \in FxSuggested(c, found) /\ c.was.posts[i] = FxText
                   THEN FxSuggests[FxSheet[c.sheet].rows[i].to] ELSE fxWiz.posts[i]]

\* The reply to a geocode call.
FxGeocoded(c) ==
  /\ c \in fxGeo /\ fxGeo' = fxGeo \ {c}
  /\ \E to \in SUBSET FxLocated(c.sheet, "to"), from \in SUBSET FxLocated(c.sheet, "from") :
       /\ fxWiz' = [fxWiz EXCEPT !.to = FxPinned(c, "to", to), !.from = FxPinned(c, "from", from),
                                 !.zips = FxRenamed(c, to), !.posts = FxPosted(c, to)]
       /\ fxPage' = [fxPage EXCEPT !.sheet = c.sheet, !.found = [to |-> to, from |-> from],
                                   !.geocoding = FALSE]
  /\ UNCHANGED <<fxOpen, fxUpload, fxPick>>

\* A call that failed leaves the addresses of the one before.
FxGeocodeFails(c) ==
  /\ c \in fxGeo /\ fxGeo' = fxGeo \ {c}
  /\ fxPage' = [fxPage EXCEPT !.geocoding = FALSE]
  /\ UNCHANGED <<fxOpen, fxWiz, fxUpload, fxPick>>

\* flagged: the addresses that came back without a position, and have no pin.
FxFlagged(dir) ==
  IF fxPage.sheet = 0 THEN {}
  ELSE {i \in FxLocated(fxPage.sheet, dir) \ fxPage.found[dir] : fxWiz[dir][i] = FxNoPin}

FxHand(dir, i) == [of |-> FxSheet[fxPage.sheet].rows[i][dir], by |-> "operator"]

\* saveCoords from the map.
FxSavePin(dir, i) ==
  /\ FxReady("fixAddresses") /\ i \in FxFlagged(dir)
  /\ fxWiz' = [fxWiz EXCEPT ![dir][i] = FxHand(dir, i)]
  /\ UNCHANGED <<fxOpen, fxPage, fxUpload, fxGeo, fxPick>>

\* pick: the details of a place are asked for.
FxPickPlace(dir, i) ==
  /\ FxReady("fixAddresses") /\ i \in FxFlagged(dir) /\ fxPick = {}
  /\ fxPick' = {[dir |-> dir, row |-> i, pin |-> FxHand(dir, i)]}
  /\ UNCHANGED <<fxOpen, fxWiz, fxPage, fxUpload, fxGeo>>

\* saveCoords with them, whatever is shown by then; none without a position.
FxPlaced ==
  \E p \in fxPick :
    /\ fxPick' = {}
    /\ fxWiz' \in {fxWiz, [fxWiz EXCEPT ![p.dir][p.row] = p.pin]}
    /\ UNCHANGED <<fxOpen, fxPage, fxUpload, fxGeo>>

FxFixes ==
  \/ \E k \in FxKeys, name \in FxLists.us \cup FxLists.nz \cup {FxText} : FxChoose(k, name)
  \/ \E dir \in FxDirections, i \in FxIdx : FxSavePin(dir, i) \/ FxPickPlace(dir, i)
  \/ FxPlaced

FxStarts == FxCloseWizard \/ \E c \in FxClients : FxPickClient(c)

FxReplies == FxListed \/ \E c \in fxGeo : FxGeocoded(c) \/ FxGeocodeFails(c)

FxNext ==
  \/ FxStarts \/ FxFixes \/ FxReplies \/ FxOpenWizard \/ FxUploaded \/ FxNextStep \/ FxBack
  \/ \E file \in FxFiles : FxUploadFile(file)
  \/ \E s \in FxIds : FxMapColumns(s)

FxSpec == FxInit /\ [][FxNext]_fxVars

-------------------------------------------------------------------------------
(* Properties                                                              *)

FxWizards ==
  [step : {"newImport", "mapColumns", "fixZips", "fixAddresses", "selectRegions"},
   client : FxClients \cup {0}, file : FxFiles \cup {0}, sheet : FxIds \cup {0},
   zips : [FxKeys -> FxNames \cup {FxSuggests[a] : a \in FxAddresses} \cup {FxText}],
   to : FxPins, from : FxPins, posts : [FxIdx -> {FxSuggests[a] : a \in FxAddresses} \cup {FxText}]]

\* The wizard, the two steps and the calls under way keep their shape, and a pin is of an address.
FxTypeOK ==
  /\ fxOpen \in BOOLEAN /\ fxWiz \in FxWizards
  /\ fxPage \in [known : {"none", "us", "nz"}, busy : BOOLEAN, sheet : FxIds \cup {0},
                 found : [FxDirections -> SUBSET FxIdx], geocoding : BOOLEAN]
  /\ fxUpload \in FxFiles \cup {0}
  /\ \A c \in fxGeo : c.sheet \in FxIds /\ c.was \in FxWizards
  /\ fxPick \subseteq [dir : FxDirections, row : FxIdx, pin : [of : FxAddresses, by : {"operator"}]]

\* Whatever was closed, opened and uploaded while a geocode call was under way, a reply pins a row of the
\* sheet on the screen at that row's own address.
RepliesPinTheirRows ==
  [][(\E c \in fxGeo : FxGeocoded(c)) =>
       \A dir \in FxDirections, i \in FxIdx :
         fxWiz'[dir][i] # fxWiz[dir][i] =>
           i \in DOMAIN FxRows(fxWiz) /\ fxWiz'[dir][i].of = FxRows(fxWiz)[i][dir]]_fxVars

\* What was fixed stays until the wizard starts anew, however often the step is shown again and geocodes
\* again: a pin of the operator, and in NZ a name that was chosen or normalised, which the operator
\* alone replaces.
FixesStay ==
  [][FxStarts \/
       /\ \A dir \in FxDirections, i \in FxIdx : fxWiz[dir][i].by = "operator" => fxWiz'[dir][i] = fxWiz[dir][i]
       /\ FxFixes \/ FxIsUs(fxWiz) \/ \A k \in FxKeys : fxWiz.zips[k] \in {FxText, fxWiz'.zips[k]}]_fxVars

FxPast == {"fixAddresses", "selectRegions"}

\* buildJobs: the name that is sent for a row.
FxSent(row) == LET k == FxKey(fxWiz, row) IN IF fxWiz.zips[k] = FxText THEN row.name ELSE fxWiz.zips[k]

FxShownRows == {FxRows(fxWiz)[i] : i \in DOMAIN FxRows(fxWiz)}

\* Past step 3, the suburb of an alias is sent for it ("buildJobs will rewrite it to the canonical name at
\* submit via the auto-normalize effect above", FixZipCodesModal.tsx): nothing that a reply wrote for
\* the same key stands in the way, as long as the list arrives.
AliasesAreRewritten ==
  fxWiz.step \in FxPast =>
    \A r \in FxShownRows :
      FxCanon(FxLists[FxTenant(fxWiz)], r.name) = {} /\ FxAliased(fxWiz, r) =>
        FxSent(r) = FxAliases[FxFold[r.name]].name
===============================================================================
