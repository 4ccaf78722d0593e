-------------------------------- MODULE StaffImport --------------------------------
(****************************************************************************)
(* StaffImportModal: a file is parsed, its client references are checked,   *)
(* unknown suburbs are replaced, addresses geocoded or placed by hand, and  *)
(* the rows go straight into the live job table.  The modal stays mounted   *)
(* when it is closed, and replies are stored by whatever state it is in.    *)
(* Two effects run on the steps in the middle and are cancelled on leaving. *)
(* A row has one address; the other side of a job is handled the same way.  *)
(****************************************************************************)
EXTENDS Naturals, Sequences, FiniteSets

CONSTANTS
  SiRowsOf,    \* the rows of each file
  SiSuburbOf,  \* the suburb of each row in the file
  SiAddressOf, \* and its address
  SiKnown,     \* the suburbs of the reference list
  MaxSi        \* bound: requests of the wizard

SiFiles == DOMAIN SiRowsOf

SiRows == DOMAIN SiSuburbOf

SiSuburbs == {SiSuburbOf[r] : r \in SiRows} \cup SiKnown

ASSUME SiAssumption ==
  /\ \A f \in SiFiles : SiRowsOf[f] \subseteq SiRows /\ SiRowsOf[f] # {}
  /\ SiRows \subseteq Nat /\ IsFiniteSet(SiRows) /\ DOMAIN SiAddressOf = SiRows
  /\ 0 \notin SiFiles /\ 0 \notin SiSuburbs /\ SiKnown # {} /\ MaxSi \in Nat

VARIABLES
  siOpen,   \* the page's open flag
  siWiz,    \* State of the reducer, suburbs and the two loading flags
  siCalls,  \* parse, check and import requests not answered
  siLanded, \* server: how often each row was inserted
  siCount   \* requests so far

siVars == <<siOpen, siWiz, siCalls, siLanded, siCount>>

\* Coordinates: none, the geocoder's, the operator's.
SiCoords == {0, 1, 2}

\* rows: the suburb each parsed row carries by now; flags: the replacement of each flagged suburb,
\* 0 if none; geo and flagged: entries for an address and suburb; live: the effect's call counts.
SiBlank ==
  [step |-> "upload", file |-> 0, rows |-> << >>, flags |-> << >>, flagged |-> << >>, sel |-> 0,
   geo |-> << >>, refused |-> {}, result |-> FALSE, busy |-> FALSE]

SiIdle == [suburbs |-> {}, loading |-> FALSE, loadLive |-> FALSE, geocoding |-> FALSE, geoLive |-> FALSE]

SiInit ==
  /\ siOpen = FALSE /\ siWiz = [form |-> SiBlank, eff |-> SiIdle]
  /\ siCalls = {} /\ siLanded = [r \in SiRows |-> 0] /\ siCount = 0

-----------------------------------------------------------------------------
\* The n-th number of a set.
SiNth(nums, n) == CHOOSE a \in nums : Cardinality({b \in nums : b < a}) = n - 1

\* The distinct addresses to geocode, in the order of the rows.
ToGeocode(rows) ==
  LET entry(r) == <<SiAddressOf[r], rows[r]>>
      firsts == {r \in DOMAIN rows : \A q \in DOMAIN rows : entry(q) = entry(r) => r <= q}
  IN  [n \in 1 .. Cardinality(firsts) |-> [place |-> entry(SiNth(firsts, n)), coords |-> 0]]

\* Those of them without an answer, in that order.
Lacking(asked, found) ==
  LET lost == DOMAIN asked \ found
  IN  [n \in 1 .. Cardinality(lost) |-> asked[SiNth(lost, n)]]

\* The flagged suburbs of the rows; none when the reference list is empty.
UnknownSuburbs(rows, suburbs) ==
  IF suburbs = {} THEN << >>
  ELSE [n \in {rows[r] : r \in DOMAIN rows} \ suburbs |-> 0]

\* The effect that loads the suburbs starts over, or is cancelled, when the modal opens or
\* closes and when the step or the list changes; a cancelled load leaves its flag up.
LoadEffect(open, was, form, eff) ==
  IF was = <<open, form.step, eff.suburbs>> THEN eff
  ELSE IF open /\ form.step = "fixSuburbs" /\ eff.suburbs = {}
       THEN [eff EXCEPT !.loading = TRUE, !.loadLive = TRUE]
       ELSE [eff EXCEPT !.loadLive = FALSE]

\* The effect that flags suburbs, once: an earlier file's flags stay.
FlagEffect(form, eff) ==
  IF form.step = "fixSuburbs" /\ ~eff.loading /\ form.flags = << >>
  THEN [form EXCEPT !.flags = UnknownSuburbs(form.rows, eff.suburbs)] ELSE form

\* The effect that geocodes, unless an earlier visit or file did.
GeoEffect(open, was, form, eff) ==
  IF was = <<open, form.step, form.rows, form.geo>> THEN eff
  ELSE IF open /\ form.step = "fixAddresses" /\ form.geo = << >> /\ form.rows # << >>
       THEN [eff EXCEPT !.geocoding = TRUE, !.geoLive = TRUE]
       ELSE [eff EXCEPT !.geoLive = FALSE]

\* The state after a dispatch, with the effects of the render that follows.
SiRender(open, form, eff) ==
  LET old == siWiz
      loads == LoadEffect(open, <<siOpen, old.form.step, old.eff.suburbs>>, form, eff)
      geos == GeoEffect(open, <<siOpen, old.form.step, old.form.rows, old.form.geo>>, form, loads)
  IN  /\ siOpen' = open
      /\ siWiz' = [form |-> FlagEffect(form, geos), eff |-> geos]

SiDispatch(form) == SiRender(siOpen, form, siWiz.eff)

SiAt(step) == siOpen /\ siWiz.form.step = step

SiNoCall == UNCHANGED <<siCalls, siLanded, siCount>>

-----------------------------------------------------------------------------
OpenStaffImport == ~siOpen /\ SiRender(TRUE, siWiz.form, siWiz.eff) /\ SiNoCall

\* handleClose, also by a click beside the modal in the middle of a request.
CloseStaffImport == siOpen /\ SiRender(FALSE, SiBlank, [siWiz.eff EXCEPT !.suburbs = {}]) /\ SiNoCall

PickFile(f) ==
  /\ SiAt("upload") /\ ~siWiz.form.busy
  /\ SiDispatch([siWiz.form EXCEPT !.file = f]) /\ SiNoCall

SiSend(what, file, rows) ==
  /\ siCount < MaxSi /\ siCount' = siCount + 1
  /\ siCalls' = siCalls \cup {[n |-> siCount, what |-> what, file |-> file, rows |-> rows]}
  /\ SiDispatch([siWiz.form EXCEPT !.busy = TRUE])
  /\ UNCHANGED siLanded

Parse ==
  /\ SiAt("upload") /\ siWiz.form.file # 0 /\ ~siWiz.form.busy
  /\ SiSend("parse", siWiz.form.file, << >>)

\* handleParse after uploadFile: a file without rows or a client column, or a failure, stops it.
Parsed(c) ==
  /\ c \in siCalls /\ c.what = "parse"
  /\ \/ /\ siCalls' = siCalls \ {c}
        /\ SiDispatch([siWiz.form EXCEPT !.busy = FALSE])
     \/ /\ siCalls' = (siCalls \ {c}) \cup {[c EXCEPT !.what = "check"]}
        /\ SiDispatch([siWiz.form EXCEPT !.rows = [r \in SiRowsOf[c.file] |-> SiSuburbOf[r]]])
  /\ UNCHANGED <<siLanded, siCount>>

\* The reference check; one that fails refuses no row.
ReferencesChecked(c) ==
  /\ c \in siCalls /\ c.what = "check" /\ siCalls' = siCalls \ {c}
  /\ \E refused \in SUBSET SiRowsOf[c.file] :
       SiDispatch([siWiz.form EXCEPT !.refused = refused, !.step = "preview", !.busy = FALSE])
  /\ UNCHANGED <<siLanded, siCount>>

\* importableCount > 0; refused rows are known by their numbers in the file.
Importable == Cardinality(DOMAIN siWiz.form.rows) > Cardinality(siWiz.form.refused)

SiBackward == [preview |-> "upload", fixSuburbs |-> "preview", fixAddresses |-> "fixSuburbs",
             confirm |-> "fixAddresses"]

StepBack ==
  /\ siOpen /\ siWiz.form.step \in DOMAIN SiBackward
  /\ SiDispatch([siWiz.form EXCEPT !.step = SiBackward[@]]) /\ SiNoCall

LeavePreview ==
  /\ SiAt("preview") /\ (siWiz.form.rows # << >> => Importable)
  /\ SiDispatch([siWiz.form EXCEPT !.step = "fixSuburbs"]) /\ SiNoCall

-----------------------------------------------------------------------------
SuburbsAnswered ==
  /\ siWiz.eff.loadLive
  /\ \E list \in {{}, SiKnown} :
       SiRender(siOpen, siWiz.form,
              [siWiz.eff EXCEPT !.suburbs = list, !.loading = FALSE, !.loadLive = FALSE])
  /\ SiNoCall

PickSuburb(name, known) ==
  /\ SiAt("fixSuburbs") /\ ~siWiz.eff.loading
  /\ name \in DOMAIN siWiz.form.flags /\ known \in siWiz.eff.suburbs
  /\ SiDispatch([siWiz.form EXCEPT !.flags[name] = known]) /\ SiNoCall

\* Next, enabled while the list is still loading too; a replacement chosen again after the
\* rows carry the first one finds no row.
LeaveSuburbs ==
  LET form == siWiz.form
      flagged == DOMAIN form.flags
      fixed == [r \in DOMAIN form.rows |->
                  IF form.rows[r] \in flagged THEN form.flags[form.rows[r]] ELSE form.rows[r]]
  IN  /\ SiAt("fixSuburbs") /\ \A n \in flagged : form.flags[n] # 0
      /\ SiDispatch([form EXCEPT !.rows = fixed, !.step = "fixAddresses"]) /\ SiNoCall

\* The geocoder answers each address, some without coordinates, which are flagged; or fails.
Geocoded ==
  /\ siWiz.eff.geoLive
  /\ LET eff == [siWiz.eff EXCEPT !.geocoding = FALSE, !.geoLive = FALSE]
         asked == ToGeocode(siWiz.form.rows)
     IN  \/ SiRender(siOpen, siWiz.form, eff)
         \/ \E found \in SUBSET DOMAIN asked :
              LET lacking == Lacking(asked, found)
              IN  SiRender(siOpen,
                    [siWiz.form EXCEPT
                       !.geo = [i \in DOMAIN asked |->
                                  [asked[i] EXCEPT !.coords = IF i \in found THEN 1 ELSE 0]],
                       !.flagged = lacking, !.sel = IF lacking = << >> THEN 0 ELSE 1], eff)
  /\ SiNoCall

SelectFlagged(i) ==
  /\ SiAt("fixAddresses") /\ ~siWiz.eff.geocoding /\ i \in DOMAIN siWiz.form.flagged
  /\ SiDispatch([siWiz.form EXCEPT !.sel = i]) /\ SiNoCall

\* A click on the map, a drag of the pin or two typed numbers.
PlaceAddress ==
  LET placed == [siWiz.form.flagged[siWiz.form.sel] EXCEPT !.coords = 2]
  IN  /\ SiAt("fixAddresses") /\ ~siWiz.eff.geocoding /\ siWiz.form.sel # 0
      /\ SiDispatch([siWiz.form EXCEPT !.flagged[siWiz.form.sel] = placed,
                                     !.geo = Append(@, placed)])
      /\ SiNoCall

LeaveAddresses ==
  SiAt("fixAddresses") /\ SiDispatch([siWiz.form EXCEPT !.step = "confirm"]) /\ SiNoCall

-----------------------------------------------------------------------------
\* The coordinates a row goes out with: of the first entry for it, with or without any.
Stamped(row) ==
  LET geo == siWiz.form.geo
      hits == {i \in DOMAIN geo : geo[i].place = <<SiAddressOf[row], siWiz.form.rows[row]>>}
  IN  IF hits = {} THEN 0 ELSE geo[CHOOSE i \in hits : \A j \in hits : i <= j].coords

FireImport ==
  /\ SiAt("confirm") /\ ~siWiz.form.busy /\ Importable
  /\ SiSend("import", 0, [r \in DOMAIN siWiz.form.rows |->
                            [suburb |-> siWiz.form.rows[r], coords |-> Stamped(r)]])

\* The server inserts the rows it does not refuse; a file without a row that lands is an error
\* with the reasons, and a lost request or reply one without.
ServeImport(c) ==
  /\ c \in siCalls /\ c.what = "import"
  /\ \E rows \in SUBSET DOMAIN c.rows, reply \in {"rows", "lost"} :
       /\ siLanded' = [r \in SiRows |-> siLanded[r] + (IF r \in rows THEN 1 ELSE 0)]
       /\ siCalls' = (siCalls \ {c}) \cup {[c EXCEPT !.what = reply]}
  /\ UNCHANGED <<siOpen, siWiz, siCount>>

\* fireImport after the call, in whatever wizard is there by then.
ImportAnswered(c) ==
  /\ c \in siCalls /\ c.what \in {"rows", "lost"} /\ siCalls' = siCalls \ {c}
  /\ SiDispatch(IF c.what = "lost" THEN [siWiz.form EXCEPT !.busy = FALSE]
              ELSE [siWiz.form EXCEPT !.result = TRUE, !.step = "result", !.busy = FALSE])
  /\ UNCHANGED <<siLanded, siCount>>

SiNext ==
  \/ OpenStaffImport \/ CloseStaffImport \/ Parse \/ StepBack \/ LeavePreview \/ SuburbsAnswered
  \/ LeaveSuburbs \/ Geocoded \/ PlaceAddress \/ LeaveAddresses \/ FireImport
  \/ \E f \in SiFiles : PickFile(f)
  \/ \E n \in SiSuburbs, k \in SiKnown : PickSuburb(n, k)
  \/ \E i \in DOMAIN siWiz.form.flagged : SelectFlagged(i)
  \/ \E c \in siCalls : Parsed(c) \/ ReferencesChecked(c) \/ ServeImport(c) \/ ImportAnswered(c)

SiSpec == SiInit /\ [][SiNext]_siVars

-----------------------------------------------------------------------------
SiEntry == [place : {SiAddressOf[r] : r \in SiRows} \X SiSuburbs, coords : SiCoords]

SiTypeOK ==
  /\ siOpen \in BOOLEAN /\ siWiz.form.file \in SiFiles \cup {0}
  /\ DOMAIN siWiz.form.rows \subseteq SiRows /\ DOMAIN siWiz.form.flags \subseteq SiSuburbs
  /\ \A i \in DOMAIN siWiz.form.geo : siWiz.form.geo[i] \in SiEntry
  /\ siWiz.form.flagged = << >> \/ siWiz.form.sel \in DOMAIN siWiz.form.flagged
  /\ siWiz.form.refused \subseteq SiRows /\ siLanded \in [SiRows -> 0 .. MaxSi]
=================================================================================
