--------------------------- MODULE ImportStepsProofs ---------------------------
(*****************************************************************************)
(* Three steps of the bulk import wizard seen closely.  Those that correct   *)
(* names and addresses, for any sheets, lists and answers: whose pins and    *)
(* names a reply may write, and that no alias is left.  The step that maps   *)
(* columns, for any settings, files and templates: what stays mapped, and    *)
(* what is mapped at last.                                                   *)
(*****************************************************************************)
EXTENDS ImportSteps, FiniteSetTheorems, TLAPS

\* A finite set of integers has a greatest: of the subsets without one, a smallest would have.
LEMMA FiniteMax ==
  ASSUME NEW S \in SUBSET Int, IsFiniteSet(S), S # {}
  PROVE  Max(S) \in S /\ \A y \in S : Max(S) >= y
<1> DEFINE Topped(T) == \E x \in T : \A y \in T : x >= y
           Bad == {T \in SUBSET S : T # {} /\ ~Topped(T)}
<1>1. ASSUME Bad # {} PROVE FALSE
  <2>1. IsWellFoundedOn(StrictSubsetOrdering(S), FiniteSubsetsOf(S))
    BY FS_StrictSubsetOrderingWellFounded
  <2>2. FiniteSubsetsOf(S) = SUBSET S
    BY FS_FiniteSubsetsOfFinite
  <2>3. Bad \subseteq SUBSET S
    OBVIOUS
  <2>4. PICK T \in Bad : \A U \in Bad : ~ (<<U, T>> \in StrictSubsetOrdering(S))
    <3> HIDE DEF Bad
    <3>1. IsWellFoundedOn(StrictSubsetOrdering(S), SUBSET S)
      BY <2>1, <2>2, Zenon
    <3> QED
      BY <1>1, <2>3, <3>1, WFMin, Zenon
  <2>5. PICK x : x \in T
    BY <2>4
  <2>6. T \ {x} \notin Bad
    <3>1. <<T \ {x}, T>> \in StrictSubsetOrdering(S)
      BY <2>4, <2>5 DEF StrictSubsetOrdering
    <3> QED
      BY <2>4, <3>1
  <2>7. T \in SUBSET S /\ x \in Int /\ ~Topped(T) /\ \A y \in T : y \in Int
    BY <2>4, <2>5
  <2>8. T \ {x} = {} \/ Topped(T \ {x})
    BY <2>6, <2>7
  <2>9. CASE T \ {x} = {}
    BY <2>5, <2>7, <2>9
  <2>10. CASE Topped(T \ {x})
    <3>1. PICK m \in T \ {x} : \A y \in T \ {x} : m >= y
      BY <2>10
    <3>2. CASE m >= x
      BY <2>7, <3>1, <3>2
    <3>3. CASE x >= m
      BY <2>5, <2>7, <3>1, <3>3
    <3> QED
      BY <2>7, <3>1, <3>2, <3>3
  <2> QED
    BY <2>8, <2>9, <2>10
<1>2. Topped(S)
  BY <1>1
<1> QED
  BY <1>2 DEF Max

-------------------------------------------------------------------------------
(* The steps that fix zip codes and addresses                               *)

\* An operator who waits: a geocode call holds the state that is still there, and a place is asked
\* for a row that has no pin yet.
FxCalls ==
  /\ fxGeo \subseteq {[sheet |-> fxWiz.sheet, was |-> fxWiz]}
  /\ fxGeo # {} => fxPick = {} /\ FxShown(fxOpen, fxWiz, "fixAddresses") /\ fxPage.geocoding
  /\ fxUpload # 0 => FxShown(fxOpen, fxWiz, "newImport") /\ fxPick = {}
  /\ \A p \in fxPick : /\ FxShown(fxOpen, fxWiz, "fixAddresses") /\ ~fxPage.geocoding
                       /\ p.dir \in FxDirections /\ fxWiz[p.dir][p.row].by # "operator"

\* The records that are written into have their fields.
FxShapes ==
  /\ DOMAIN fxWiz = DOMAIN FxFresh
  /\ \A dir \in FxDirections : DOMAIN fxWiz[dir] = FxIdx
  /\ DOMAIN fxWiz.zips = FxKeys
  /\ DOMAIN fxPage = {"known", "busy", "sheet", "found", "geocoding"}

\* A render keeps them.
LEMMA FxRenderShapes ==
  ASSUME NEW open, NEW w, NEW page, DOMAIN w = DOMAIN FxFresh,
         \A dir \in FxDirections : DOMAIN w[dir] = FxIdx, DOMAIN w.zips = FxKeys,
         DOMAIN page = {"known", "busy", "sheet", "found", "geocoding"}, FxRender(open, w, page)
  PROVE  FxShapes'
<1>1. DOMAIN FxNormalised(w, page.known) = FxKeys
  BY DEF FxNormalised
<1>2. "zips" \in DOMAIN FxFresh
  BY DEF FxFresh
<1>3. /\ DOMAIN fxWiz' = DOMAIN w /\ DOMAIN fxWiz'.zips = FxKeys
      /\ fxWiz'.to = w.to /\ fxWiz'.from = w.from
  BY <1>1, <1>2 DEF FxRender
<1>4. DOMAIN fxPage' = DOMAIN page
  BY DEF FxRender
<1>. QED
  BY <1>3, <1>4 DEF FxShapes, FxDirections

\* And what it does with the calls.
LEMMA FxRenderCalls ==
  ASSUME NEW open \in BOOLEAN, NEW w, NEW page, fxPick = {}, fxPick' = {},
         "zips" \in DOMAIN w, DOMAIN page = {"known", "busy", "sheet", "found", "geocoding"},
         fxPage.geocoding => page.geocoding,
         FxCalls, w.step # "fixAddresses" \/ ~open \/ ~FxShown(fxOpen, fxWiz, "fixAddresses"),
         fxUpload' = 0 \/ FxShown(open, w, "newImport"),
         FxRender(open, w, page)
  PROVE  FxCalls'
<1>1. FxLive(open, w) = {}
  <2>1. CASE FxShown(open, w, "fixAddresses")
    BY <2>1 DEF FxCalls, FxShown, FxLive
  <2>2. CASE ~FxShown(open, w, "fixAddresses")
    BY <2>2 DEF FxLive
  <2>. QED
    BY <2>1, <2>2
<1>2. fxWiz'.step = w.step /\ fxWiz'.sheet = w.sheet /\ fxOpen' = open
  BY DEF FxRender
<1>3. ASSUME FxEnters(open, w, "fixAddresses")
      PROVE  fxWiz' = w /\ fxPage'.geocoding /\ fxGeo' = {[sheet |-> w.sheet, was |-> w]}
  <2>1. ~FxEnters(open, w, "fixZips")
    BY <1>3 DEF FxEnters, FxShown
  <2>. QED
    BY <1>1, <1>3, <2>1 DEF FxRender
<1>4. ASSUME ~FxEnters(open, w, "fixAddresses")
      PROVE  fxGeo' = {}
  BY <1>1, <1>4 DEF FxRender
<1>5. /\ fxGeo' \subseteq {[sheet |-> fxWiz'.sheet, was |-> fxWiz']}
      /\ fxGeo' # {} => FxShown(fxOpen', fxWiz', "fixAddresses") /\ fxPage'.geocoding
  BY <1>2, <1>3, <1>4 DEF FxEnters, FxShown
<1>. QED
  BY <1>2, <1>5 DEF FxCalls, FxShown

LEMMA FxFreshShapes ==
  /\ \A dir \in FxDirections : DOMAIN FxFresh[dir] = FxIdx
  /\ DOMAIN FxFresh.zips = FxKeys
BY DEF FxFresh, FxDirections

LEMMA FxShapesStep == FxShapes /\ [FxNext]_fxVars => FxShapes'
<1>. SUFFICES ASSUME FxShapes, [FxNext]_fxVars
              PROVE  FxShapes'
  OBVIOUS
<1>. USE DEF FxShapes
<1>f. "zips" \in DOMAIN FxFresh /\ "to" \in DOMAIN FxFresh /\ "from" \in DOMAIN FxFresh
      /\ "posts" \in DOMAIN FxFresh /\ FxDirections \subseteq DOMAIN FxFresh
  BY DEF FxFresh, FxDirections
<1>1. CASE FxCloseWizard
  BY <1>1, FxRenderShapes, FxFreshShapes DEF FxCloseWizard
<1>2. ASSUME NEW c \in FxClients, FxPickClient(c)
      PROVE  FxShapes'
  <2>. DEFINE w == IF fxWiz.client \in {0, c} THEN fxWiz ELSE FxFresh
              v == [w EXCEPT !.client = c]
  <2>1. DOMAIN w = DOMAIN FxFresh /\ DOMAIN w.zips = FxKeys
        /\ \A dir \in FxDirections : DOMAIN w[dir] = FxIdx
    BY FxFreshShapes
  <2>2. DOMAIN v = DOMAIN FxFresh /\ v.zips = w.zips /\ v.to = w.to /\ v.from = w.from
    BY <1>f, <2>1
  <2>3. \A dir \in FxDirections : DOMAIN v[dir] = FxIdx
    BY <2>1, <2>2 DEF FxDirections
  <2>4. FxRender(TRUE, v, fxPage)
    BY <1>2 DEF FxPickClient
  <2>5. DOMAIN v = DOMAIN FxFresh /\ DOMAIN v.zips = FxKeys
    BY <2>1, <2>2
  <2>. HIDE DEF v
  <2>. QED
    BY <2>3, <2>4, <2>5, FxRenderShapes
<1>3. ASSUME NEW k \in FxKeys, NEW name, FxChoose(k, name)
      PROVE  FxShapes'
  BY <1>3, <1>f DEF FxChoose, FxDirections
<1>4. ASSUME NEW dir \in FxDirections, NEW i \in FxIdx, FxSavePin(dir, i)
      PROVE  FxShapes'
  BY <1>4, <1>f DEF FxSavePin, FxDirections
<1>5. ASSUME NEW dir \in FxDirections, NEW i \in FxIdx, FxPickPlace(dir, i)
      PROVE  FxShapes'
  BY <1>5 DEF FxPickPlace
<1>6. CASE FxPlaced
  <2>1. PICK p \in fxPick : fxWiz' \in {fxWiz, [fxWiz EXCEPT ![p.dir][p.row] = p.pin]} /\ UNCHANGED fxPage
    BY <1>6 DEF FxPlaced
  <2>2. DOMAIN fxWiz' = DOMAIN fxWiz /\ \A d \in DOMAIN fxWiz : DOMAIN fxWiz'[d] = DOMAIN fxWiz[d]
    BY <2>1
  <2>. QED
    BY <2>1, <2>2, <1>f
<1>7. CASE FxListed
  <2>1. PICK known : /\ fxPage' = [fxPage EXCEPT !.known = known, !.busy = FALSE]
                     /\ fxWiz' = [fxWiz EXCEPT !.zips = FxNormalised(fxWiz, known)]
    BY <1>7 DEF FxListed
  <2>2. DOMAIN FxNormalised(fxWiz, known) = FxKeys
    BY DEF FxNormalised
  <2>. QED
    BY <2>1, <2>2, <1>f DEF FxDirections
<1>8. ASSUME NEW c \in fxGeo, FxGeocoded(c)
      PROVE  FxShapes'
  <2>1. PICK to, from :
          /\ fxWiz' = [fxWiz EXCEPT !.to = FxPinned(c, "to", to), !.from = FxPinned(c, "from", from),
                                    !.zips = FxRenamed(c, to), !.posts = FxPosted(c, to)]
          /\ fxPage' = [fxPage EXCEPT !.sheet = c.sheet, !.found = [to |-> to, from |-> from],
                                      !.geocoding = FALSE]
    BY <1>8 DEF FxGeocoded
  <2>2. DOMAIN FxPinned(c, "to", to) = FxIdx /\ DOMAIN FxPinned(c, "from", from) = FxIdx
        /\ DOMAIN FxRenamed(c, to) = FxKeys
    BY DEF FxPinned, FxRenamed
  <2>3. fxWiz'.to = FxPinned(c, "to", to) /\ fxWiz'.from = FxPinned(c, "from", from)
        /\ fxWiz'.zips = FxRenamed(c, to) /\ DOMAIN fxWiz' = DOMAIN fxWiz
    BY <2>1, <1>f
  <2>4. DOMAIN fxPage' = DOMAIN fxPage
    BY <2>1
  <2>. QED
    BY <2>2, <2>3, <2>4 DEF FxDirections
<1>9. ASSUME NEW c \in fxGeo, FxGeocodeFails(c)
      PROVE  FxShapes'
  BY <1>9 DEF FxGeocodeFails
<1>10. CASE FxOpenWizard
  BY <1>10, FxRenderShapes DEF FxOpenWizard
<1>11. CASE FxUploaded
  <2>. DEFINE v == [fxWiz EXCEPT !.file = fxUpload, !.sheet = 0, !.step = "mapColumns"]
  <2>1. DOMAIN v = DOMAIN FxFresh /\ v.zips = fxWiz.zips /\ v.to = fxWiz.to /\ v.from = fxWiz.from
    BY <1>f
  <2>2. \A dir \in FxDirections : DOMAIN v[dir] = FxIdx
    BY <2>1 DEF FxDirections
  <2>3. FxRender(fxOpen, fxWiz, fxPage) \/ FxRender(fxOpen, v, fxPage)
    BY <1>11 DEF FxUploaded
  <2>4. CASE FxRender(fxOpen, fxWiz, fxPage)
    BY <2>4, FxRenderShapes
  <2>5. DOMAIN v.zips = FxKeys
    BY <2>1
  <2>. HIDE DEF v
  <2>6. CASE FxRender(fxOpen, v, fxPage)
    BY <2>1, <2>2, <2>5, <2>6, FxRenderShapes
  <2>. QED
    BY <2>3, <2>4, <2>6
<1>12. ASSUME NEW step, FxRender(TRUE, [fxWiz EXCEPT !.step = step], fxPage)
       PROVE  FxShapes'
  <2>. DEFINE v == [fxWiz EXCEPT !.step = step]
  <2>1. DOMAIN v = DOMAIN FxFresh /\ v.zips = fxWiz.zips /\ v.to = fxWiz.to /\ v.from = fxWiz.from
    BY <1>f
  <2>2. \A dir \in FxDirections : DOMAIN v[dir] = FxIdx
    BY <2>1 DEF FxDirections
  <2>. QED
    BY <1>12, <2>1, <2>2, FxRenderShapes
<1>13. ASSUME NEW file, FxUploadFile(file)
       PROVE  FxShapes'
  BY <1>13 DEF FxUploadFile
<1>14. ASSUME NEW s \in FxIds, FxMapColumns(s)
       PROVE  FxShapes'
  <2>. DEFINE v == [fxWiz EXCEPT !.sheet = s, !.step = "fixZips"]
  <2>1. DOMAIN v = DOMAIN FxFresh /\ v.zips = fxWiz.zips /\ v.to = fxWiz.to /\ v.from = fxWiz.from
    BY <1>f
  <2>2. \A dir \in FxDirections : DOMAIN v[dir] = FxIdx
    BY <2>1 DEF FxDirections
  <2>. QED
    BY <1>14, <2>1, <2>2, FxRenderShapes DEF FxMapColumns
<1>15. CASE UNCHANGED fxVars
  BY <1>15 DEF fxVars
<1>. QED
  BY <1>1, <1>2, <1>3, <1>4, <1>5, <1>6, <1>7, <1>8, <1>9, <1>10, <1>11, <1>12, <1>13, <1>14, <1>15
  DEF FxNext, FxStarts, FxFixes, FxReplies, FxNextStep, FxBack

LEMMA FxCallsStep == FxPatient /\ FxShapes /\ FxCalls /\ [FxNext]_fxVars => FxCalls'
<1>. SUFFICES ASSUME FxPatient, FxShapes, FxCalls, [FxNext]_fxVars
              PROVE  FxCalls'
  OBVIOUS
<1>f. /\ DOMAIN fxWiz = DOMAIN FxFresh /\ "zips" \in DOMAIN FxFresh /\ "step" \in DOMAIN FxFresh
      /\ "client" \in DOMAIN FxFresh /\ FxFresh.step = "newImport"
      /\ DOMAIN fxPage = {"known", "busy", "sheet", "found", "geocoding"}
  BY DEF FxFresh, FxShapes
<1>1. CASE FxCloseWizard
  <2>1. fxUpload = 0 /\ fxPick = {} /\ fxUpload' = 0 /\ fxPick' = {} /\ FxRender(FALSE, FxFresh, fxPage)
    BY <1>1 DEF FxCloseWizard, FxWaits
  <2>. QED
    BY <1>f, <2>1, FxRenderCalls
<1>2. ASSUME NEW c \in FxClients, FxPickClient(c)
      PROVE  FxCalls'
  <2>. DEFINE w == IF fxWiz.client \in {0, c} THEN fxWiz ELSE FxFresh
              v == [w EXCEPT !.client = c]
  <2>1. /\ fxUpload = 0 /\ fxPick = {} /\ fxUpload' = 0 /\ fxPick' = {} /\ FxRender(TRUE, v, fxPage)
        /\ fxWiz.step = "newImport"
    BY <1>2 DEF FxPickClient, FxAt, FxWaits, FxShown
  <2>2. v.step = "newImport" /\ "zips" \in DOMAIN v
    BY <1>f, <2>1
  <2>. HIDE DEF v
  <2>. QED
    BY <1>f, <2>1, <2>2, FxRenderCalls
<1>3. ASSUME NEW k \in FxKeys, NEW name, FxChoose(k, name)
      PROVE  FxCalls'
  BY <1>3 DEF FxChoose, FxReady, FxAt, FxWaits, FxShown, FxCalls
<1>4. ASSUME NEW dir \in FxDirections, NEW i \in FxIdx, FxSavePin(dir, i)
      PROVE  FxCalls'
  <2>1. fxUpload = 0 /\ fxPick = {} /\ ~fxPage.geocoding
    BY <1>4 DEF FxSavePin, FxReady, FxAt, FxWaits
  <2>. QED
    BY <1>4, <2>1 DEF FxSavePin, FxCalls
<1>5. ASSUME NEW dir \in FxDirections, NEW i \in FxIdx, FxPickPlace(dir, i)
      PROVE  FxCalls'
  <2>1. fxUpload = 0 /\ ~fxPage.geocoding /\ FxShown(fxOpen, fxWiz, "fixAddresses") /\ fxGeo = {}
    BY <1>5 DEF FxPickPlace, FxReady, FxAt, FxWaits, FxCalls
  <2>2. fxWiz[dir][i].by = ""
    <3>1. fxWiz[dir][i] = FxNoPin
      BY <1>5 DEF FxPickPlace, FxFlagged
    <3>2. FxNoPin.by = ""
      BY DEF FxNoPin, FxText
    <3>. QED
      BY <3>1, <3>2
  <2>3. fxPick' = {[dir |-> dir, row |-> i, pin |-> FxHand(dir, i)]} /\ UNCHANGED <<fxOpen, fxWiz, fxPage, fxUpload, fxGeo>>
    BY <1>5 DEF FxPickPlace
  <2>4. \A p \in fxPick' : p.dir = dir /\ p.row = i
    BY <2>3
  <2>. QED
    BY <2>1, <2>2, <2>3, <2>4 DEF FxCalls, FxShown
<1>6. CASE FxPlaced
  <2>1. fxPick # {} /\ fxPick' = {} /\ UNCHANGED <<fxOpen, fxPage, fxUpload, fxGeo>>
    BY <1>6 DEF FxPlaced
  <2>. QED
    BY <2>1 DEF FxCalls, FxShown
<1>7. CASE FxListed
  <2>1. FxShown(fxOpen, fxWiz, "fixZips") /\ UNCHANGED <<fxOpen, fxUpload, fxGeo, fxPick>>
    BY <1>7 DEF FxListed
  <2>. QED
    BY <2>1 DEF FxCalls, FxShown
<1>8. ASSUME NEW c \in fxGeo, FxGeocoded(c)
      PROVE  FxCalls'
  <2>1. fxGeo' = fxGeo \ {c} /\ UNCHANGED <<fxOpen, fxUpload, fxPick>>
    BY <1>8 DEF FxGeocoded
  <2>. QED
    BY <2>1 DEF FxCalls, FxShown
<1>9. ASSUME NEW c \in fxGeo, FxGeocodeFails(c)
      PROVE  FxCalls'
  <2>1. fxGeo' = fxGeo \ {c} /\ UNCHANGED <<fxOpen, fxUpload, fxPick>>
    BY <1>9 DEF FxGeocodeFails
  <2>. QED
    BY <2>1 DEF FxCalls, FxShown
<1>10. CASE FxOpenWizard
  <2>1. fxUpload = 0 /\ fxPick = {} /\ fxUpload' = 0 /\ fxPick' = {} /\ FxRender(TRUE, fxWiz, fxPage) /\ ~fxOpen
    BY <1>10 DEF FxOpenWizard, FxCalls, FxShown
  <2>2. ~FxShown(fxOpen, fxWiz, "fixAddresses")
    BY <2>1 DEF FxShown
  <2>. QED
    BY <1>f, <2>1, <2>2, FxRenderCalls
<1>11. CASE FxUploaded
  <2>. DEFINE v == [fxWiz EXCEPT !.file = fxUpload, !.sheet = 0, !.step = "mapColumns"]
  <2>1. /\ fxUpload' = 0 /\ fxPick = {} /\ fxPick' = {} /\ fxOpen /\ fxWiz.step = "newImport" /\ fxOpen \in BOOLEAN
        /\ FxRender(fxOpen, fxWiz, fxPage) \/ FxRender(fxOpen, v, fxPage)
    BY <1>11 DEF FxUploaded, FxCalls, FxShown
  <2>2. v.step = "mapColumns" /\ "zips" \in DOMAIN v
    BY <1>f
  <2>. HIDE DEF v
  <2>3. CASE FxRender(fxOpen, fxWiz, fxPage)
    BY <1>f, <2>1, <2>3, FxRenderCalls
  <2>4. CASE FxRender(fxOpen, v, fxPage)
    BY <1>f, <2>1, <2>2, <2>4, FxRenderCalls
  <2>. QED
    BY <2>1, <2>3, <2>4
<1>12. ASSUME NEW from, NEW to, FxReady(from), to # from, FxRender(TRUE, [fxWiz EXCEPT !.step = to], fxPage),
              UNCHANGED <<fxUpload, fxPick>>
       PROVE  FxCalls'
  <2>. DEFINE v == [fxWiz EXCEPT !.step = to]
  <2>1. v.step = to /\ "zips" \in DOMAIN v
    BY <1>f
  <2>2. fxUpload = 0 /\ fxPick = {} /\ fxUpload' = 0 /\ fxPick' = {} /\ fxWiz.step = from
    BY <1>12 DEF FxReady, FxAt, FxWaits, FxShown
  <2>3. v.step # "fixAddresses" \/ ~FxShown(fxOpen, fxWiz, "fixAddresses")
    BY <1>12, <2>1, <2>2 DEF FxShown
  <2>4. FxRender(TRUE, v, fxPage)
    BY <1>12
  <2>. HIDE DEF v
  <2>. QED
    BY <1>f, <2>1, <2>2, <2>3, <2>4, FxRenderCalls
<1>13. ASSUME NEW file, FxUploadFile(file)
       PROVE  FxCalls'
  BY <1>13 DEF FxUploadFile, FxAt, FxWaits, FxShown, FxCalls
<1>14. ASSUME NEW s \in FxIds, FxMapColumns(s)
       PROVE  FxCalls'
  <2>. DEFINE v == [fxWiz EXCEPT !.sheet = s, !.step = "fixZips"]
  <2>1. v.step = "fixZips" /\ "zips" \in DOMAIN v
    BY <1>f
  <2>2. fxUpload = 0 /\ fxPick = {} /\ fxUpload' = 0 /\ fxPick' = {} /\ FxRender(TRUE, v, fxPage)
    BY <1>14 DEF FxMapColumns, FxAt, FxWaits
  <2>. HIDE DEF v
  <2>. QED
    BY <1>f, <2>1, <2>2, FxRenderCalls
<1>15. CASE UNCHANGED fxVars
  BY <1>15 DEF fxVars, FxCalls, FxShown
<1>16. ASSUME FxNextStep PROVE FxCalls'
  <2>1. PICK step \in DOMAIN FxFollowing : FxReady(step)
          /\ FxRender(TRUE, [fxWiz EXCEPT !.step = FxFollowing[step]], fxPage) /\ UNCHANGED <<fxUpload, fxPick>>
    BY <1>16 DEF FxNextStep
  <2>2. FxFollowing[step] # step
    BY DEF FxFollowing
  <2>. QED
    BY <1>12, <2>1, <2>2
<1>17. ASSUME FxBack PROVE FxCalls'
  <2>1. PICK step \in DOMAIN FxBefore : FxReady(step)
          /\ FxRender(TRUE, [fxWiz EXCEPT !.step = FxBefore[step]], fxPage) /\ UNCHANGED <<fxUpload, fxPick>>
    BY <1>17 DEF FxBack
  <2>2. FxBefore[step] # step
    BY DEF FxBefore
  <2>. QED
    BY <1>12, <2>1, <2>2
<1>. QED
  BY <1>1, <1>2, <1>3, <1>4, <1>5, <1>6, <1>7, <1>8, <1>9, <1>10, <1>11, <1>13, <1>14, <1>15, <1>16, <1>17
  DEF FxNext, FxStarts, FxFixes, FxReplies


\* From step 3 on there is a sheet.
FxSheeted == fxWiz.step \in {"fixZips", "fixAddresses", "selectRegions"} => fxWiz.sheet \in FxIds

LEMMA FxSheetedStep ==
  FxShapes /\ (\A p \in fxPick : p.dir \in FxDirections) /\ FxSheeted /\ [FxNext]_fxVars => FxSheeted'
<1>. SUFFICES ASSUME FxShapes, \A p \in fxPick : p.dir \in FxDirections, FxSheeted, [FxNext]_fxVars
              PROVE  FxSheeted'
  OBVIOUS
<1>f. {"step", "sheet", "client", "file", "zips", "to", "from", "posts"} \subseteq DOMAIN fxWiz
      /\ DOMAIN FxFresh = DOMAIN fxWiz
  BY DEF FxFresh, FxShapes
<1>r. ASSUME NEW open, NEW w, FxRender(open, w, fxPage)
      PROVE  fxWiz'.step = w.step /\ fxWiz'.sheet = w.sheet
  BY <1>r DEF FxRender
<1>1. CASE FxCloseWizard
  <2>1. FxFresh.step = "newImport"
    BY DEF FxFresh
  <2>2. FxRender(FALSE, FxFresh, fxPage)
    BY <1>1 DEF FxCloseWizard
  <2>3. fxWiz'.step = "newImport"
    BY <2>1, <2>2, <1>r
  <2>. QED
    BY <2>3 DEF FxSheeted
<1>2. ASSUME NEW c \in FxClients, FxPickClient(c)
      PROVE  FxSheeted'
  <2>. DEFINE w == IF fxWiz.client \in {0, c} THEN fxWiz ELSE FxFresh
              v == [w EXCEPT !.client = c]
  <2>1. FxRender(TRUE, v, fxPage) /\ fxWiz.step = "newImport"
    BY <1>2 DEF FxPickClient, FxAt, FxShown
  <2>2. v.step = "newImport"
    BY <1>f, <2>1 DEF FxFresh
  <2>. HIDE DEF v
  <2>. QED
    BY <2>1, <2>2, <1>r DEF FxSheeted
<1>3. ASSUME NEW k \in FxKeys, NEW name, FxChoose(k, name)
      PROVE  FxSheeted'
  BY <1>3, <1>f DEF FxChoose, FxSheeted
<1>4. ASSUME NEW dir \in FxDirections, NEW i \in FxIdx, FxSavePin(dir, i) \/ FxPickPlace(dir, i)
      PROVE  FxSheeted'
  BY <1>4, <1>f DEF FxSavePin, FxPickPlace, FxSheeted, FxDirections
<1>6. CASE FxPlaced
  <2>1. PICK p \in fxPick : fxWiz' \in {fxWiz, [fxWiz EXCEPT ![p.dir][p.row] = p.pin]}
    BY <1>6 DEF FxPlaced
  <2>2. p.dir \in FxDirections
    BY <2>1
  <2>. QED
    BY <2>1, <2>2, <1>f DEF FxSheeted, FxDirections
<1>7. CASE FxListed
  BY <1>7, <1>f DEF FxListed, FxSheeted
<1>8. ASSUME NEW c \in fxGeo, FxGeocoded(c) \/ FxGeocodeFails(c)
      PROVE  FxSheeted'
  BY <1>8, <1>f DEF FxGeocoded, FxGeocodeFails, FxSheeted
<1>10. CASE FxOpenWizard
  BY <1>10, <1>r DEF FxOpenWizard, FxSheeted
<1>11. CASE FxUploaded
  <2>. DEFINE v == [fxWiz EXCEPT !.file = fxUpload, !.sheet = 0, !.step = "mapColumns"]
  <2>1. FxRender(fxOpen, fxWiz, fxPage) \/ FxRender(fxOpen, v, fxPage)
    BY <1>11 DEF FxUploaded
  <2>2. v.step = "mapColumns"
    BY <1>f
  <2>. HIDE DEF v
  <2>. QED
    BY <2>1, <2>2, <1>r DEF FxSheeted
<1>12. ASSUME NEW from, NEW to, fxWiz.step = from, FxRender(TRUE, [fxWiz EXCEPT !.step = to], fxPage),
              \/ to \notin {"fixZips", "fixAddresses", "selectRegions"}
              \/ from \in {"fixZips", "fixAddresses", "selectRegions"}
       PROVE  FxSheeted'
  <2>. DEFINE v == [fxWiz EXCEPT !.step = to]
  <2>1. FxRender(TRUE, v, fxPage) /\ v.step = to /\ v.sheet = fxWiz.sheet
    BY <1>12, <1>f
  <2>. HIDE DEF v
  <2>. QED
    BY <1>12, <2>1, <1>r DEF FxSheeted
<1>13. ASSUME NEW file, FxUploadFile(file)
       PROVE  FxSheeted'
  BY <1>13 DEF FxUploadFile, FxSheeted
<1>14. ASSUME NEW s \in FxIds, FxMapColumns(s)
       PROVE  FxSheeted'
  <2>. DEFINE v == [fxWiz EXCEPT !.sheet = s, !.step = "fixZips"]
  <2>1. FxRender(TRUE, v, fxPage) /\ v.sheet = s
    BY <1>14, <1>f DEF FxMapColumns
  <2>. HIDE DEF v
  <2>. QED
    BY <2>1, <1>r DEF FxSheeted
<1>15. CASE UNCHANGED fxVars
  BY <1>15 DEF fxVars, FxSheeted
<1>16. CASE FxNextStep
  <2>1. PICK step \in DOMAIN FxFollowing : fxWiz.step = step
          /\ FxRender(TRUE, [fxWiz EXCEPT !.step = FxFollowing[step]], fxPage)
    BY <1>16 DEF FxNextStep, FxReady, FxAt, FxShown
  <2>2. step \in {"fixZips", "fixAddresses", "selectRegions"}
    BY DEF FxFollowing
  <2>. QED
    BY <1>12, <2>1, <2>2
<1>17. CASE FxBack
  <2>1. PICK step \in DOMAIN FxBefore : fxWiz.step = step
          /\ FxRender(TRUE, [fxWiz EXCEPT !.step = FxBefore[step]], fxPage)
    BY <1>17 DEF FxBack, FxReady, FxAt, FxShown
  <2>2. \/ FxBefore[step] \notin {"fixZips", "fixAddresses", "selectRegions"}
        \/ step \in {"fixZips", "fixAddresses", "selectRegions"}
    BY DEF FxBefore
  <2>. QED
    BY <1>12, <2>1, <2>2
<1>. QED
  BY <1>1, <1>2, <1>3, <1>4, <1>6, <1>7, <1>8, <1>10, <1>11, <1>13, <1>14, <1>15, <1>16, <1>17
  DEF FxNext, FxStarts, FxFixes, FxReplies

FxInv == FxShapes /\ FxCalls /\ FxSheeted

LEMMA FxBegins == FxInit => FxInv
BY FxFreshShapes DEF FxInit, FxInv, FxShapes, FxCalls, FxSheeted, FxFresh

LEMMA FxHolds == ASSUME FxPatient PROVE FxSpec => []FxInv
<1>1. FxInv /\ [FxNext]_fxVars => FxInv'
  <2>1. FxCalls => \A p \in fxPick : p.dir \in FxDirections
    BY DEF FxCalls
  <2>. QED
    BY <2>1, FxShapesStep, FxCallsStep, FxSheetedStep DEF FxInv
<1>. QED
  BY <1>1, FxBegins, PTL DEF FxSpec

\* Whatever is closed, opened and uploaded while a geocode call is under way, its reply pins rows of the sheet
\* on the screen, each at its own address, for any sheets and clients (FixAddressesModal's effect and cleanup).
THEOREM RepliesPinTheirs == ASSUME FxPatient PROVE FxSpec => RepliesPinTheirRows
<1>1. ASSUME FxInv, NEW c \in fxGeo, FxGeocoded(c), NEW dir \in FxDirections, NEW i \in FxIdx,
             fxWiz'[dir][i] # fxWiz[dir][i]
      PROVE  i \in DOMAIN FxRows(fxWiz) /\ fxWiz'[dir][i].of = FxRows(fxWiz)[i][dir]
  <2>1. c.sheet = fxWiz.sheet /\ c.was = fxWiz
    BY <1>1 DEF FxInv, FxCalls
  <2>2. PICK to \in SUBSET FxLocated(c.sheet, "to"), from \in SUBSET FxLocated(c.sheet, "from") :
          fxWiz' = [fxWiz EXCEPT !.to = FxPinned(c, "to", to), !.from = FxPinned(c, "from", from),
                                 !.zips = FxRenamed(c, to), !.posts = FxPosted(c, to)]
    BY <1>1 DEF FxGeocoded
  <2>3. fxWiz'.to = FxPinned(c, "to", to) /\ fxWiz'.from = FxPinned(c, "from", from)
    <3>1. "to" \in DOMAIN fxWiz /\ "from" \in DOMAIN fxWiz
      BY <1>1 DEF FxInv, FxShapes, FxFresh
    <3>. QED
      BY <2>2, <3>1
  <2>4. PICK found \in SUBSET FxLocated(c.sheet, dir) : fxWiz'[dir] = FxPinned(c, dir, found)
    BY <1>1, <2>3 DEF FxDirections
  <2>5. i \in found /\ fxWiz'[dir][i] = [of |-> FxSheet[c.sheet].rows[i][dir], by |-> "geocoder"]
    BY <1>1, <2>4 DEF FxPinned
  <2>6. i \in DOMAIN FxSheet[c.sheet].rows
    BY <2>4, <2>5 DEF FxLocated
  <2>7. fxWiz.sheet # 0
    BY <1>1, FxAssumption DEF FxInv, FxCalls, FxSheeted, FxShown
  <2>8. FxRows(fxWiz) = FxSheet[c.sheet].rows
    BY <2>1, <2>7 DEF FxRows
  <2>9. [of |-> FxSheet[c.sheet].rows[i][dir], by |-> "geocoder"].of = FxSheet[c.sheet].rows[i][dir]
    OBVIOUS
  <2>. QED
    BY <2>5, <2>6, <2>8, <2>9
<1>2. FxInv /\ [FxNext]_fxVars =>
        [(\E c \in fxGeo : FxGeocoded(c)) =>
           \A dir \in FxDirections, i \in FxIdx :
             fxWiz'[dir][i] # fxWiz[dir][i] =>
               i \in DOMAIN FxRows(fxWiz) /\ fxWiz'[dir][i].of = FxRows(fxWiz)[i][dir]]_fxVars
  BY <1>1
<1>. QED
  BY <1>2, FxHolds, PTL DEF FxSpec, RepliesPinTheirRows

\* What a render does with the pins and the names.
LEMMA FxRenderKeeps ==
  ASSUME NEW open, NEW w, FxRender(open, w, fxPage), DOMAIN w = DOMAIN FxFresh, DOMAIN w.zips = FxKeys
  PROVE  /\ fxWiz'.to = w.to /\ fxWiz'.from = w.from
         /\ \A k \in FxKeys : w.zips[k] \in {FxText, fxWiz'.zips[k]}
<1>1. \A k \in FxKeys : w.zips[k] \in {FxText, FxNormalised(w, fxPage.known)[k]}
  BY DEF FxNormalised
<1>2. {"zips", "to", "from"} \subseteq DOMAIN w
  BY DEF FxFresh
<1>3. \/ fxWiz' = [w EXCEPT !.zips = FxNormalised(w, fxPage.known)]
      \/ fxWiz' = w
  BY DEF FxRender
<1>4. \/ fxWiz'.zips = FxNormalised(w, fxPage.known) /\ fxWiz'.to = w.to /\ fxWiz'.from = w.from
      \/ fxWiz' = w
  BY <1>2, <1>3
<1>. QED
  BY <1>1, <1>4

\* The steps that neither start anew nor fix leave pins and names as they are, but for a reply.
LEMMA FxOthersKeep ==
  ASSUME FxInv, [FxNext]_fxVars, ~FxStarts, ~FxFixes, ~\E c \in fxGeo : FxGeocoded(c)
  PROVE  /\ fxWiz'.to = fxWiz.to /\ fxWiz'.from = fxWiz.from
         /\ \A k \in FxKeys : fxWiz.zips[k] \in {FxText, fxWiz'.zips[k]}
<1>f. /\ {"step", "sheet", "client", "file", "zips", "to", "from", "posts"} \subseteq DOMAIN fxWiz
      /\ DOMAIN fxWiz = DOMAIN FxFresh /\ DOMAIN fxWiz.zips = FxKeys
  BY DEF FxFresh, FxShapes, FxInv
<1>. DEFINE Kept == /\ fxWiz'.to = fxWiz.to /\ fxWiz'.from = fxWiz.from
                    /\ \A k \in FxKeys : fxWiz.zips[k] \in {FxText, fxWiz'.zips[k]}
<1>1. CASE FxListed
  <2>1. PICK known : fxWiz' = [fxWiz EXCEPT !.zips = FxNormalised(fxWiz, known)]
    BY <1>1 DEF FxListed
  <2>2. \A k \in FxKeys : fxWiz.zips[k] \in {FxText, FxNormalised(fxWiz, known)[k]}
    BY DEF FxNormalised
  <2>. QED
    BY <2>1, <2>2, <1>f
<1>2. ASSUME NEW c \in fxGeo, FxGeocodeFails(c)
      PROVE  Kept
  BY <1>2 DEF FxGeocodeFails
<1>3. ASSUME NEW open, FxRender(open, fxWiz, fxPage)
      PROVE  Kept
  BY <1>3, <1>f, FxRenderKeeps
<1>4. CASE FxOpenWizard
  BY <1>3, <1>4 DEF FxOpenWizard
<1>5. CASE FxUploaded
  <2>. DEFINE v == [fxWiz EXCEPT !.file = fxUpload, !.sheet = 0, !.step = "mapColumns"]
  <2>1. FxRender(fxOpen, fxWiz, fxPage) \/ FxRender(fxOpen, v, fxPage)
    BY <1>5 DEF FxUploaded
  <2>2. v.to = fxWiz.to /\ v.from = fxWiz.from /\ v.zips = fxWiz.zips /\ DOMAIN v = DOMAIN fxWiz
    BY <1>f
  <2>. HIDE DEF v
  <2>3. ASSUME FxRender(fxOpen, v, fxPage) PROVE Kept
    BY <1>f, <2>2, <2>3, FxRenderKeeps
  <2>. QED
    BY <1>3, <2>1, <2>3
<1>6. ASSUME NEW step, FxRender(TRUE, [fxWiz EXCEPT !.step = step], fxPage)
      PROVE  Kept
  <2>. DEFINE v == [fxWiz EXCEPT !.step = step]
  <2>1. v.to = fxWiz.to /\ v.from = fxWiz.from /\ v.zips = fxWiz.zips /\ DOMAIN v = DOMAIN fxWiz
        /\ FxRender(TRUE, v, fxPage)
    BY <1>6, <1>f
  <2>. HIDE DEF v
  <2>. QED
    BY <1>f, <2>1, FxRenderKeeps
<1>7. CASE FxNextStep
  BY <1>6, <1>7 DEF FxNextStep
<1>8. CASE FxBack
  BY <1>6, <1>8 DEF FxBack
<1>9. ASSUME NEW file, FxUploadFile(file)
      PROVE  Kept
  BY <1>9 DEF FxUploadFile
<1>10. ASSUME NEW s \in FxIds, FxMapColumns(s)
       PROVE  Kept
  <2>. DEFINE v == [fxWiz EXCEPT !.sheet = s, !.step = "fixZips"]
  <2>1. v.to = fxWiz.to /\ v.from = fxWiz.from /\ v.zips = fxWiz.zips /\ DOMAIN v = DOMAIN fxWiz
        /\ FxRender(TRUE, v, fxPage)
    BY <1>10, <1>f DEF FxMapColumns
  <2>. HIDE DEF v
  <2>. QED
    BY <1>f, <2>1, FxRenderKeeps
<1>11. CASE UNCHANGED fxVars
  BY <1>11 DEF fxVars
<1>. QED
  BY <1>1, <1>2, <1>4, <1>5, <1>7, <1>8, <1>9, <1>10, <1>11 DEF FxNext, FxReplies

\* What a reply writes.
LEMMA FxReplyKeeps ==
  ASSUME FxInv, NEW c \in fxGeo, FxGeocoded(c)
  PROVE  /\ \A dir \in FxDirections, i \in FxIdx : fxWiz[dir][i] \in {FxNoPin, fxWiz'[dir][i]}
         /\ ~FxIsUs(fxWiz) => \A k \in FxKeys : fxWiz.zips[k] \in {FxText, fxWiz'.zips[k]}
<1>1. PICK to, from :
        fxWiz' = [fxWiz EXCEPT !.to = FxPinned(c, "to", to), !.from = FxPinned(c, "from", from),
                               !.zips = FxRenamed(c, to), !.posts = FxPosted(c, to)]
  BY DEF FxGeocoded
<1>2. {"zips", "to", "from", "posts"} \subseteq DOMAIN fxWiz /\ c.was = fxWiz
  BY DEF FxFresh, FxShapes, FxInv, FxCalls
<1>3. fxWiz'.to = FxPinned(c, "to", to) /\ fxWiz'.from = FxPinned(c, "from", from)
      /\ fxWiz'.zips = FxRenamed(c, to)
  BY <1>1, <1>2
<1>4. ASSUME NEW dir \in FxDirections, NEW found, NEW i \in FxIdx
      PROVE  fxWiz[dir][i] \in {FxNoPin, FxPinned(c, dir, found)[i]}
  BY <1>2 DEF FxPinned
<1>5. ASSUME ~FxIsUs(fxWiz), NEW k \in FxKeys
      PROVE  fxWiz.zips[k] \in {FxText, FxRenamed(c, to)[k]}
  <2>1. CASE fxWiz.zips[k] # FxText
    <3>1. ~FxWritten(c, k)
      BY <1>2, <1>5, <2>1 DEF FxWritten
    <3>. QED
      BY <3>1 DEF FxRenamed
  <2>. QED
    BY <2>1
<1>. QED
  BY <1>3, <1>4, <1>5 DEF FxDirections

\* What an operator writes in one of the steps goes where nothing is.
LEMMA FxFixKeeps ==
  ASSUME FxInv, FxFixes
  PROVE  \A dir \in FxDirections, i \in FxIdx :
           fxWiz[dir][i].by = "operator" => fxWiz'[dir][i] = fxWiz[dir][i]
<1>f. /\ {"zips", "to", "from", "posts"} \subseteq DOMAIN fxWiz
      /\ \A dir \in FxDirections : DOMAIN fxWiz[dir] = FxIdx
  BY DEF FxFresh, FxShapes, FxInv
<1>1. ASSUME NEW k, NEW name, FxChoose(k, name)
      PROVE  fxWiz'.to = fxWiz.to /\ fxWiz'.from = fxWiz.from
  BY <1>1, <1>f DEF FxChoose
<1>2. ASSUME NEW dir \in FxDirections, NEW i \in FxIdx, FxSavePin(dir, i)
      PROVE  fxWiz[dir][i].by # "operator" /\ fxWiz' = [fxWiz EXCEPT ![dir][i] = FxHand(dir, i)]
  <2>1. fxWiz[dir][i] = FxNoPin
    BY <1>2 DEF FxSavePin, FxFlagged
  <2>2. FxNoPin.by # "operator"
    BY DEF FxNoPin, FxText
  <2>. QED
    BY <1>2, <2>1, <2>2 DEF FxSavePin
<1>3. ASSUME NEW dir \in FxDirections, NEW i \in FxIdx, FxPickPlace(dir, i)
      PROVE  fxWiz' = fxWiz
  BY <1>3 DEF FxPickPlace
<1>4. ASSUME FxPlaced
      PROVE  \E p \in fxPick : /\ p.dir \in FxDirections /\ fxWiz[p.dir][p.row].by # "operator"
                               /\ fxWiz' \in {fxWiz, [fxWiz EXCEPT ![p.dir][p.row] = p.pin]}
  BY <1>4 DEF FxPlaced, FxInv, FxCalls
<1>5. ASSUME NEW d \in FxDirections, NEW r, NEW pin, fxWiz[d][r].by # "operator",
             fxWiz' = [fxWiz EXCEPT ![d][r] = pin],
             NEW dir \in FxDirections, NEW i \in FxIdx, fxWiz[dir][i].by = "operator"
      PROVE  fxWiz'[dir][i] = fxWiz[dir][i]
  <2>1. CASE dir = d
    <3>1. i # r
      BY <1>5, <2>1
    <3>2. fxWiz'[dir] = [fxWiz[dir] EXCEPT ![r] = pin]
      BY <1>5, <1>f, <2>1 DEF FxDirections
    <3>. QED
      BY <1>f, <3>1, <3>2
  <2>2. CASE dir # d
    BY <1>5, <1>f, <2>2 DEF FxDirections
  <2>. QED
    BY <2>1, <2>2
<1>. QED
  BY <1>1, <1>2, <1>3, <1>4, <1>5 DEF FxFixes, FxDirections

\* FixesStay, for any sheets, with an operator who waits for uploads and place details: a pin set on the map or
\* by a place, and in New Zealand a name that is written for a suburb, stay whatever is answered or shown
\* again (the guards on fixedAddresses and fixedZips of both steps).
THEOREM FixedStays == ASSUME FxPatient PROVE FxSpec => FixesStay
<1>1. ASSUME FxInv, [FxNext]_fxVars, ~FxStarts, NEW dir \in FxDirections, NEW i \in FxIdx,
             fxWiz[dir][i].by = "operator"
      PROVE  fxWiz'[dir][i] = fxWiz[dir][i]
  <2>1. CASE FxFixes
    BY <1>1, <2>1, FxFixKeeps
  <2>2. CASE \E c \in fxGeo : FxGeocoded(c)
    <3>1. fxWiz[dir][i] \in {FxNoPin, fxWiz'[dir][i]}
      BY <1>1, <2>2, FxReplyKeeps
    <3>2. FxNoPin.by # "operator"
      BY DEF FxNoPin, FxText
    <3>. QED
      BY <1>1, <3>1, <3>2
  <2>3. CASE ~FxFixes /\ ~\E c \in fxGeo : FxGeocoded(c)
    BY <1>1, <2>3, FxOthersKeep DEF FxDirections
  <2>. QED
    BY <2>1, <2>2, <2>3
<1>2. ASSUME FxInv, [FxNext]_fxVars, ~FxStarts, ~FxFixes, ~FxIsUs(fxWiz), NEW k \in FxKeys
      PROVE  fxWiz.zips[k] \in {FxText, fxWiz'.zips[k]}
  <2>1. CASE \E c \in fxGeo : FxGeocoded(c)
    BY <1>2, <2>1, FxReplyKeeps
  <2>2. CASE ~\E c \in fxGeo : FxGeocoded(c)
    BY <1>2, <2>2, FxOthersKeep
  <2>. QED
    BY <2>1, <2>2
<1>3. FxInv /\ [FxNext]_fxVars =>
        [FxStarts \/
           /\ \A dir \in FxDirections, i \in FxIdx : fxWiz[dir][i].by = "operator" => fxWiz'[dir][i] = fxWiz[dir][i]
           /\ FxFixes \/ FxIsUs(fxWiz) \/ \A k \in FxKeys : fxWiz.zips[k] \in {FxText, fxWiz'.zips[k]}]_fxVars
  BY <1>1, <1>2
<1>. QED
  BY <1>3, FxHolds, PTL DEF FxSpec, FixesStay

FxZips == FxNames \cup {FxSuggests[a] : a \in FxAddresses} \cup {FxText}

FxPages ==
  [known : {"none", "us", "nz"}, busy : BOOLEAN, sheet : FxIds \cup {0},
   found : [FxDirections -> SUBSET FxIdx], geocoding : BOOLEAN]

FxAsked(geo) == \A c \in geo : c.sheet \in FxIds /\ c.was \in FxWizards

FxSheetOf(w) == w.step \in {"fixZips", "fixAddresses", "selectRegions"} => w.sheet \in FxIds

\* The rows of a sheet and what stands in them.
LEMMA FxRowTypes ==
  ASSUME NEW s \in FxIds, NEW i \in DOMAIN FxSheet[s].rows
  PROVE  /\ i \in FxIdx /\ i \in Nat /\ FxSheet[s].rows[i] \in FxRowSet
         /\ FxSheet[s].rows[i].name \in FxNames
         /\ \A dir \in FxDirections :
              FxSheet[s].rows[i][dir] # FxText => FxSheet[s].rows[i][dir] \in FxAddresses
         /\ FxSheet[s].rows[i].to \in FxAddresses
<1>1. FxSheet[s].rows \in Seq([name : STRING, post : STRING, to : STRING, from : STRING])
  BY FxAssumption DEF FxIds
<1>2. i \in 1 .. Len(FxSheet[s].rows) /\ Len(FxSheet[s].rows) \in Nat
  BY <1>1
<1>3. i \in FxIdx
  BY <1>2 DEF FxIdx, FxWidth
<1>4. FxSheet[s].rows[i] \in FxRowSet
  BY DEF FxRowSet
<1>5. FxSheet[s].rows[i].name \in FxNames
  BY <1>4 DEF FxNames
<1>6. FxSheet[s].rows[i].to # FxText
  BY <1>4, FxAssumption
<1>. QED
  BY <1>2, <1>3, <1>4, <1>5, <1>6 DEF FxAddresses, FxDirections

LEMMA FxNormalisedType ==
  ASSUME NEW w \in FxWizards, NEW known \in {"none", "us", "nz"}
  PROVE  FxNormalised(w, known) \in [FxKeys -> FxZips]
<1>1. FxListOf(known) \subseteq FxNames
  BY DEF FxListOf, FxNames
<1>2. w.zips \in [FxKeys -> FxZips]
  BY DEF FxWizards, FxZips
<1>3. ASSUME NEW k \in FxKeys PROVE FxNormalised(w, known)[k] \in FxZips
  <2> DEFINE rows == {FxRows(w)[i] : i \in {i \in FxFirsts(w) : FxKey(w, FxRows(w)[i]) = k}}
             drifted == {c \in FxListOf(known) : \E r \in rows : FxFold[c] = FxFold[r.name] /\ c # r.name}
             aliased == {r \in rows : FxCanon(FxListOf(known), r.name) = {} /\ FxAliased(w, r)}
  <2>1. FxNormalised(w, known)[k] = IF w.zips[k] # FxText \/ known = "none" THEN w.zips[k]
                                    ELSE IF drifted # {} THEN CHOOSE c \in drifted : TRUE
                                    ELSE IF aliased # {} THEN FxAliases[k[1]].name
                                    ELSE FxText
    BY DEF FxNormalised
  <2>2. drifted # {} => (CHOOSE c \in drifted : TRUE) \in FxNames
    BY <1>1
  <2>3. ASSUME NEW r \in aliased PROVE FxAliases[k[1]].name \in FxNames
    <3>1. r \in rows /\ FxAliased(w, r)
      OBVIOUS
    <3>2. FxKey(w, r) = k
      BY <3>1
    <3>3. k[1] = FxFold[r.name] /\ FxFold[r.name] \in DOMAIN FxAliases
      BY <3>1, <3>2 DEF FxKey, FxAliased
    <3>. QED
      BY <3>3, FxAssumption DEF FxNames
  <2> HIDE DEF drifted, aliased
  <2>. QED
    BY <1>2, <2>1, <2>2, <2>3 DEF FxZips
<1>4. FxNormalised(w, known) = [k \in FxKeys |-> FxNormalised(w, known)[k]]
  BY DEF FxNormalised
<1>. QED
  BY <1>3, <1>4

LEMMA FxRenderTypes ==
  ASSUME NEW open \in BOOLEAN, NEW w \in FxWizards, NEW page \in FxPages, FxSheetOf(w), FxAsked(fxGeo),
         FxRender(open, w, page)
  PROVE  fxOpen' \in BOOLEAN /\ fxWiz' \in FxWizards /\ fxPage' \in FxPages /\ FxAsked(fxGeo')
<1>1. page.known \in {"none", "us", "nz"} /\ w.step \in {"newImport", "mapColumns", "fixZips", "fixAddresses", "selectRegions"}
  BY DEF FxPages, FxWizards
<1>2. FxNormalised(w, page.known) \in [FxKeys -> FxZips]
  BY <1>1, FxNormalisedType
<1>3. [w EXCEPT !.zips = FxNormalised(w, page.known)] \in FxWizards
  BY <1>2 DEF FxWizards, FxZips
<1>4. fxWiz' \in FxWizards
  BY <1>3 DEF FxRender
<1>5. fxPage' \in FxPages
  BY DEF FxRender, FxPages, FxEnters, FxShown
<1>6. FxAsked(fxGeo')
  BY DEF FxRender, FxAsked, FxLive, FxEnters, FxShown, FxSheetOf
<1>. QED
  BY <1>4, <1>5, <1>6 DEF FxRender

LEMMA FxFreshTyped == FxFresh \in FxWizards /\ FxSheetOf(FxFresh)
<1>1. FxFresh.zips \in [FxKeys -> FxZips]
  BY DEF FxFresh, FxZips
<1>2. FxFresh.to \in FxPins /\ FxFresh.from \in FxPins
  BY DEF FxFresh, FxPins
<1>. QED
  BY <1>1, <1>2 DEF FxFresh, FxWizards, FxZips, FxSheetOf

\* The last row that a reply writes a name for.
LEMMA FxRenamedType ==
  ASSUME FxTypeOK, NEW c \in fxGeo, NEW to \in SUBSET FxLocated(c.sheet, "to")
  PROVE  FxRenamed(c, to) \in [FxKeys -> FxZips]
<1>1. c.sheet \in FxIds /\ fxWiz.zips \in [FxKeys -> FxZips]
  BY DEF FxTypeOK, FxWizards, FxZips
<1> DEFINE rows == FxSheet[c.sheet].rows
           at(k) == {i \in FxSuggested(c, to) : FxKey(c.was, rows[i]) = k /\ FxWritten(c, k)}
           last(k) == CHOOSE i \in at(k) : \A j \in at(k) : j <= i
           name(k) == IF at(k) = {} THEN fxWiz.zips[k]
                      ELSE IF FxIsUs(c.was) THEN FxSuggests[rows[last(k)].to] ELSE rows[last(k)].name
<1>2. ASSUME NEW k \in FxKeys PROVE name(k) \in FxZips
  <2>2. ASSUME at(k) # {} PROVE last(k) \in DOMAIN rows
    <3>1. at(k) \subseteq DOMAIN rows
      BY DEF FxSuggested, FxLocated
    <3>2. rows \in Seq([name : STRING, post : STRING, to : STRING, from : STRING])
      BY <1>1, FxAssumption DEF FxIds
    <3>3. DOMAIN rows = 1 .. Len(rows) /\ Len(rows) \in Nat
      BY <3>2
    <3> HIDE DEF rows, at
    <3>4. IsFiniteSet(at(k)) /\ at(k) \in SUBSET Int
      <4>1. IsFiniteSet(1 .. Len(rows))
        BY <3>3, FS_Interval
      <4>. QED
        BY <3>1, <3>3, <4>1, FS_Subset
    <3>5. \E i \in at(k) : \A j \in at(k) : j <= i
      BY <2>2, <3>4, FiniteMax
    <3>. QED
      BY <3>1, <3>5 DEF last
  <2> HIDE DEF last, at
  <2>. QED
    BY <1>1, <2>2, FxRowTypes DEF FxZips
<1>3. FxRenamed(c, to) = [k \in FxKeys |-> name(k)]
  BY DEF FxRenamed
<1> HIDE DEF name
<1>. QED
  BY <1>2, <1>3

LEMMA FxPinnedType ==
  ASSUME FxTypeOK, NEW c \in fxGeo, NEW dir \in FxDirections, NEW found \in SUBSET FxLocated(c.sheet, dir)
  PROVE  FxPinned(c, dir, found) \in FxPins /\ found \subseteq FxIdx
<1>1. c.sheet \in FxIds /\ fxWiz[dir] \in FxPins
  BY DEF FxTypeOK, FxWizards, FxDirections
<1>2. \A i \in found : i \in FxIdx /\ FxSheet[c.sheet].rows[i][dir] \in FxAddresses
  BY <1>1, FxRowTypes DEF FxLocated
<1>3. ASSUME NEW i \in FxIdx
      PROVE  FxPinned(c, dir, found)[i] \in {FxNoPin} \cup [of : FxAddresses, by : {"geocoder", "operator"}]
  BY <1>1, <1>2 DEF FxPinned, FxPins
<1>. QED
  BY <1>2, <1>3 DEF FxPinned, FxPins

LEMMA FxPostedType ==
  ASSUME FxTypeOK, NEW c \in fxGeo, NEW to \in SUBSET FxLocated(c.sheet, "to")
  PROVE  FxPosted(c, to) \in [FxIdx -> {FxSuggests[a] : a \in FxAddresses} \cup {FxText}]
<1>1. c.sheet \in FxIds /\ fxWiz.posts \in [FxIdx -> {FxSuggests[a] : a \in FxAddresses} \cup {FxText}]
  BY DEF FxTypeOK, FxWizards
<1>2. \A i \in FxSuggested(c, to) : FxSheet[c.sheet].rows[i].to \in FxAddresses
  BY <1>1, FxRowTypes DEF FxSuggested, FxLocated
<1>. QED
  BY <1>1, <1>2 DEF FxPosted

LEMMA FxTypeStep ==
  ASSUME FxTypeOK, FxSheeted, [FxNext]_fxVars
  PROVE  FxTypeOK'
<1>0. /\ fxOpen \in BOOLEAN /\ fxWiz \in FxWizards /\ fxPage \in FxPages /\ FxAsked(fxGeo)
      /\ FxSheetOf(fxWiz) /\ fxUpload \in FxFiles \cup {0}
      /\ fxPick \subseteq [dir : FxDirections, row : FxIdx, pin : [of : FxAddresses, by : {"operator"}]]
  BY DEF FxTypeOK, FxPages, FxAsked, FxSheeted, FxSheetOf
<1>1. ASSUME fxOpen' \in BOOLEAN, fxWiz' \in FxWizards, fxPage' \in FxPages, FxAsked(fxGeo'),
             fxUpload' \in FxFiles \cup {0},
             fxPick' \subseteq [dir : FxDirections, row : FxIdx, pin : [of : FxAddresses, by : {"operator"}]]
      PROVE  FxTypeOK'
  BY <1>1 DEF FxTypeOK, FxPages, FxAsked
\* A step that renders.
<1>2. ASSUME NEW open \in BOOLEAN, NEW w \in FxWizards, FxSheetOf(w), FxRender(open, w, fxPage),
             fxUpload' \in {0, fxUpload}, fxPick' = fxPick
      PROVE  FxTypeOK'
  BY <1>0, <1>1, <1>2, FxRenderTypes
<1>3. CASE FxCloseWizard
  BY <1>2, <1>3, FxFreshTyped DEF FxCloseWizard
<1>4. ASSUME NEW c \in FxClients, FxPickClient(c) PROVE FxTypeOK'
  <2> DEFINE w == IF fxWiz.client \in {0, c} THEN fxWiz ELSE FxFresh
             v == [w EXCEPT !.client = c]
  <2>1. FxRender(TRUE, v, fxPage) /\ UNCHANGED <<fxUpload, fxPick>>
    BY <1>4 DEF FxPickClient
  <2>2. w \in FxWizards /\ FxSheetOf(w)
    BY <1>0, FxFreshTyped
  <2> HIDE DEF w
  <2>3. v \in FxWizards /\ FxSheetOf(v)
    BY <2>2 DEF FxWizards, FxSheetOf
  <2> HIDE DEF v
  <2>. QED
    BY <1>2, <2>1, <2>3
<1>5. ASSUME NEW k \in FxKeys, NEW name \in FxLists.us \cup FxLists.nz \cup {FxText}, FxChoose(k, name) PROVE FxTypeOK'
  <2>1. name \in FxZips
    BY DEF FxZips, FxNames
  <2>2. [fxWiz EXCEPT !.zips[k] = name] \in FxWizards
    BY <1>0, <2>1 DEF FxWizards, FxZips
  <2>. QED
    BY <1>0, <1>1, <1>5, <2>2 DEF FxChoose
<1>6. ASSUME NEW dir \in FxDirections, NEW i \in FxIdx, i \in FxFlagged(dir)
      PROVE  FxHand(dir, i) \in [of : FxAddresses, by : {"operator"}]
  <2>1. fxPage.sheet \in FxIds /\ i \in FxLocated(fxPage.sheet, dir)
    BY <1>0, <1>6 DEF FxFlagged, FxPages
  <2>. QED
    BY <2>1, FxRowTypes DEF FxHand, FxLocated
<1>7. ASSUME NEW dir \in FxDirections, NEW i \in FxIdx, NEW pin \in [of : FxAddresses, by : {"operator"}]
      PROVE  [fxWiz EXCEPT ![dir][i] = pin] \in FxWizards
  <2>1. fxWiz[dir] \in FxPins
    BY <1>0 DEF FxWizards, FxDirections
  <2>2. pin \in [of : FxAddresses, by : {"geocoder", "operator"}]
    OBVIOUS
  <2>3. [fxWiz[dir] EXCEPT ![i] = pin] \in FxPins
    BY <2>1, <2>2 DEF FxPins
  <2>4. [fxWiz EXCEPT ![dir] = [fxWiz[dir] EXCEPT ![i] = pin]] \in FxWizards
    <3>1. ASSUME NEW p \in FxPins
          PROVE  [fxWiz EXCEPT !["to"] = p] \in FxWizards /\ [fxWiz EXCEPT !["from"] = p] \in FxWizards
      BY <1>0 DEF FxWizards
    <3>2. ASSUME NEW p \in FxPins
          PROVE  [fxWiz EXCEPT ![dir] = p] \in FxWizards
      BY <3>1 DEF FxDirections
    <3>. QED
      BY <2>3, <3>2
  <2>. QED
    BY <2>4
<1>8. ASSUME NEW dir \in FxDirections, NEW i \in FxIdx, FxSavePin(dir, i) PROVE FxTypeOK'
  <2>1. fxWiz' \in FxWizards
    BY <1>6, <1>7, <1>8 DEF FxSavePin
  <2>. QED
    BY <1>0, <1>1, <1>8, <2>1 DEF FxSavePin
<1>9. ASSUME NEW dir \in FxDirections, NEW i \in FxIdx, FxPickPlace(dir, i) PROVE FxTypeOK'
  <2>1. fxPick' \subseteq [dir : FxDirections, row : FxIdx, pin : [of : FxAddresses, by : {"operator"}]]
    BY <1>6, <1>9 DEF FxPickPlace
  <2>. QED
    BY <1>0, <1>1, <1>9, <2>1 DEF FxPickPlace
<1>10. CASE FxPlaced
  <2>1. PICK p \in fxPick : /\ fxPick' = {} /\ fxWiz' \in {fxWiz, [fxWiz EXCEPT ![p.dir][p.row] = p.pin]}
                            /\ UNCHANGED <<fxOpen, fxPage, fxUpload, fxGeo>>
    BY <1>10 DEF FxPlaced
  <2>2. p.dir \in FxDirections /\ p.row \in FxIdx /\ p.pin \in [of : FxAddresses, by : {"operator"}]
    BY <1>0
  <2>3. fxWiz' \in FxWizards
    BY <1>0, <1>7, <2>1, <2>2
  <2>. QED
    BY <1>0, <1>1, <2>1, <2>3
<1>11. CASE FxListed
  <2>1. PICK known \in {"none", "us", "nz"} :
          /\ fxPage' = [fxPage EXCEPT !.known = known, !.busy = FALSE]
          /\ fxWiz' = [fxWiz EXCEPT !.zips = FxNormalised(fxWiz, known)]
    BY <1>11 DEF FxListed, FxTenant
  <2>2. FxNormalised(fxWiz, known) \in [FxKeys -> FxZips]
    BY <1>0, FxNormalisedType
  <2>3. fxWiz' \in FxWizards
    BY <1>0, <2>1, <2>2 DEF FxWizards, FxZips
  <2>4. fxPage' \in FxPages
    BY <1>0, <2>1 DEF FxPages
  <2>. QED
    BY <1>0, <1>1, <1>11, <2>3, <2>4 DEF FxListed
<1>12. ASSUME NEW c \in fxGeo, FxGeocoded(c) PROVE FxTypeOK'
  <2>1. PICK to \in SUBSET FxLocated(c.sheet, "to"), from \in SUBSET FxLocated(c.sheet, "from") :
          /\ fxWiz' = [fxWiz EXCEPT !.to = FxPinned(c, "to", to), !.from = FxPinned(c, "from", from),
                                    !.zips = FxRenamed(c, to), !.posts = FxPosted(c, to)]
          /\ fxPage' = [fxPage EXCEPT !.sheet = c.sheet, !.found = [to |-> to, from |-> from],
                                      !.geocoding = FALSE]
    BY <1>12 DEF FxGeocoded
  <2>2. /\ FxPinned(c, "to", to) \in FxPins /\ FxPinned(c, "from", from) \in FxPins
        /\ to \subseteq FxIdx /\ from \subseteq FxIdx
    BY FxPinnedType DEF FxDirections
  <2>3. FxRenamed(c, to) \in [FxKeys -> FxZips]
        /\ FxPosted(c, to) \in [FxIdx -> {FxSuggests[a] : a \in FxAddresses} \cup {FxText}]
    BY FxRenamedType, FxPostedType
  <2>4. fxWiz' \in FxWizards
    BY <1>0, <2>1, <2>2, <2>3 DEF FxWizards, FxZips
  <2>5. c.sheet \in FxIds /\ [to |-> to, from |-> from] \in [FxDirections -> SUBSET FxIdx]
    BY <1>0, <2>2 DEF FxAsked, FxDirections
  <2>6. fxPage' \in FxPages
    BY <1>0, <2>1, <2>5 DEF FxPages
  <2>7. FxAsked(fxGeo')
    BY <1>0, <1>12 DEF FxGeocoded, FxAsked
  <2>. QED
    BY <1>0, <1>1, <1>12, <2>4, <2>6, <2>7 DEF FxGeocoded
<1>13. ASSUME NEW c \in fxGeo, FxGeocodeFails(c) PROVE FxTypeOK'
  <2>1. fxPage' \in FxPages /\ FxAsked(fxGeo')
    BY <1>0, <1>13 DEF FxGeocodeFails, FxPages, FxAsked
  <2>. QED
    BY <1>0, <1>1, <1>13, <2>1 DEF FxGeocodeFails
<1>14. CASE FxOpenWizard
  BY <1>0, <1>2, <1>14 DEF FxOpenWizard
<1>15. CASE FxUploaded
  <2> DEFINE v == [fxWiz EXCEPT !.file = fxUpload, !.sheet = 0, !.step = "mapColumns"]
  <2>1. (FxRender(fxOpen, fxWiz, fxPage) \/ FxRender(fxOpen, v, fxPage)) /\ fxUpload' = 0 /\ fxPick' = fxPick
    BY <1>15 DEF FxUploaded
  <2>2. v \in FxWizards /\ FxSheetOf(v)
    BY <1>0 DEF FxWizards, FxSheetOf
  <2> HIDE DEF v
  <2>. QED
    BY <1>0, <1>2, <2>1, <2>2
<1>16. ASSUME NEW step, FxRender(TRUE, [fxWiz EXCEPT !.step = step], fxPage), UNCHANGED <<fxUpload, fxPick>>,
              step \in {"newImport", "mapColumns"}
              \/ (step \in {"fixZips", "fixAddresses", "selectRegions"} /\ fxWiz.sheet \in FxIds)
       PROVE  FxTypeOK'
  <2> DEFINE v == [fxWiz EXCEPT !.step = step]
  <2>1. v \in FxWizards /\ FxSheetOf(v)
    BY <1>0, <1>16 DEF FxWizards, FxSheetOf
  <2>2. FxRender(TRUE, v, fxPage)
    BY <1>16
  <2> HIDE DEF v
  <2>. QED
    BY <1>2, <1>16, <2>1, <2>2
<1>17. CASE FxNextStep
  <2>1. PICK step \in DOMAIN FxFollowing : /\ fxWiz.step = step
          /\ FxRender(TRUE, [fxWiz EXCEPT !.step = FxFollowing[step]], fxPage) /\ UNCHANGED <<fxUpload, fxPick>>
    BY <1>17 DEF FxNextStep, FxReady, FxAt, FxShown
  <2>2. step \in {"fixZips", "fixAddresses"}
        /\ FxFollowing[step] \in {"fixZips", "fixAddresses", "selectRegions"}
    BY DEF FxFollowing
  <2>. QED
    BY <1>0, <1>16, <2>1, <2>2 DEF FxSheetOf
<1>18. CASE FxBack
  <2>1. PICK step \in DOMAIN FxBefore : /\ fxWiz.step = step
          /\ FxRender(TRUE, [fxWiz EXCEPT !.step = FxBefore[step]], fxPage) /\ UNCHANGED <<fxUpload, fxPick>>
    BY <1>18 DEF FxBack, FxReady, FxAt, FxShown
  <2>2. \/ FxBefore[step] \in {"newImport", "mapColumns"}
        \/ step \in {"fixAddresses", "selectRegions"} /\ FxBefore[step] \in {"fixZips", "fixAddresses"}
    BY DEF FxBefore
  <2>. QED
    BY <1>0, <1>16, <2>1, <2>2 DEF FxSheetOf
<1>19. ASSUME NEW file \in FxFiles, FxUploadFile(file) PROVE FxTypeOK'
  BY <1>0, <1>1, <1>19 DEF FxUploadFile
<1>20. ASSUME NEW s \in FxIds, FxMapColumns(s) PROVE FxTypeOK'
  <2> DEFINE v == [fxWiz EXCEPT !.sheet = s, !.step = "fixZips"]
  <2>1. v \in FxWizards /\ FxSheetOf(v)
    BY <1>0 DEF FxWizards, FxSheetOf
  <2>2. FxRender(TRUE, v, fxPage) /\ UNCHANGED <<fxUpload, fxPick>>
    BY <1>20 DEF FxMapColumns
  <2> HIDE DEF v
  <2>. QED
    BY <1>2, <2>1, <2>2
<1>21. CASE UNCHANGED fxVars
  BY <1>0, <1>1, <1>21 DEF fxVars, FxAsked
<1>22. CASE FxStarts
  BY <1>3, <1>4, <1>22 DEF FxStarts
<1>23. CASE FxFixes
  BY <1>5, <1>8, <1>9, <1>10, <1>23 DEF FxFixes
<1>24. CASE FxReplies
  BY <1>11, <1>12, <1>13, <1>24 DEF FxReplies
<1>. QED
  BY <1>14, <1>15, <1>17, <1>18, <1>19, <1>20, <1>21, <1>22, <1>23, <1>24 DEF FxNext

\* FxTypeOK for any sheets, lists and suggestions: a pin is of an address, a written name is one there is.
THEOREM FixTypesHold == FxSpec => []FxTypeOK
<1>1. FxInit => FxTypeOK /\ FxSheeted
  <2> SUFFICES ASSUME FxInit PROVE FxTypeOK /\ FxSheeted
    OBVIOUS
  <2>1. fxPage \in FxPages
    BY DEF FxInit, FxPages, FxDirections
  <2>2. fxWiz \in FxWizards /\ FxSheeted
    BY FxFreshTyped DEF FxInit, FxSheeted, FxSheetOf
  <2>. QED
    BY <2>1, <2>2 DEF FxInit, FxTypeOK, FxPages
<1>2. FxTypeOK => FxShapes /\ \A p \in fxPick : p.dir \in FxDirections
  BY DEF FxTypeOK, FxWizards, FxPins, FxShapes, FxFresh, FxDirections
<1>3. FxTypeOK /\ FxSheeted /\ [FxNext]_fxVars => FxTypeOK' /\ FxSheeted'
  BY <1>2, FxTypeStep, FxSheetedStep
<1>. QED
  BY <1>1, <1>3, PTL DEF FxSpec

\* No zip code of the list reads as an alias of a suburb.
FxZipsApart == \A c \in FxLists.us : FxFold[c] \notin DOMAIN FxAliases

\* The key of a suburb that goes by an alias, and is not in the list itself.
FxAliasKey(k) ==
  /\ k[1] \in DOMAIN FxAliases
  /\ FxText \in {k[2], FxAliases[k[1]].post} \/ FxAliases[k[1]].post = k[2]
  /\ \A c \in FxLists.nz : FxFold[c] # k[1]

\* Under such a key there is the suburb, or nothing yet.
FxTold(zips) == \A k \in FxKeys : FxAliasKey(k) => zips[k] \in {FxText, FxAliases[k[1]].name}

\* For every row with such a key there is the suburb.
FxRewritten(w) ==
  \A i \in DOMAIN FxRows(w) :
    LET k == FxKey(w, FxRows(w)[i]) IN FxAliasKey(k) => w.zips[k] = FxAliases[k[1]].name

\* In NZ the former always, the latter once the list is there.
FxSpelt ==
  ~FxIsUs(fxWiz) =>
    /\ FxTold(fxWiz.zips)
    /\ fxWiz.step \in FxPast \/ (fxWiz.step = "fixZips" /\ ~fxPage.busy) => FxRewritten(fxWiz)

FxAware == FxTypeOK /\ FxInv /\ FxSpelt

LEMMA FxSameRewritten ==
  ASSUME NEW v, NEW w, v.client = w.client, v.sheet = w.sheet, v.zips = w.zips, FxRewritten(w)
  PROVE  FxRewritten(v)
BY DEF FxRewritten, FxRows, FxKey, FxIsUs

\* The rows of a wizard and their keys.
LEMMA FxRowKeys ==
  ASSUME NEW w \in FxWizards, ~FxIsUs(w), NEW i \in DOMAIN FxRows(w)
  PROVE  /\ FxRows(w)[i] \in FxRowSet
         /\ FxKey(w, FxRows(w)[i]) = <<FxFold[FxRows(w)[i].name], FxRows(w)[i].post>>
         /\ FxKey(w, FxRows(w)[i]) \in FxKeys
<1>1. w.sheet \in FxIds \cup {0}
  BY DEF FxWizards
<1>2. w.sheet # 0
  BY DEF FxRows
<1>3. FxRows(w)[i] \in FxRowSet
  BY <1>1, <1>2 DEF FxRows, FxRowSet
<1>. QED
  BY <1>3 DEF FxKey, FxKeys

\* A row that goes by an alias is one with such a key.
LEMMA FxAliasRows ==
  ASSUME NEW w \in FxWizards, ~FxIsUs(w), NEW i \in DOMAIN FxRows(w)
  PROVE  LET r == FxRows(w)[i]
         IN  FxAliased(w, r) /\ FxCanon(FxLists.nz, r.name) = {} <=> FxAliasKey(FxKey(w, r))
<1>1. FxKey(w, FxRows(w)[i]) = <<FxFold[FxRows(w)[i].name], FxRows(w)[i].post>>
  BY FxRowKeys
<1>. QED
  BY <1>1 DEF FxAliased, FxCanon, FxAliasKey

\* A key that some row has, a first row has.
LEMMA FxFirstOfKey ==
  ASSUME NEW w \in FxWizards, NEW i \in DOMAIN FxRows(w)
  PROVE  \E j \in FxFirsts(w) : FxKey(w, FxRows(w)[j]) = FxKey(w, FxRows(w)[i])
<1> DEFINE same == {j \in DOMAIN FxRows(w) : FxKey(w, FxRows(w)[j]) = FxKey(w, FxRows(w)[i])}
<1>1. DOMAIN FxRows(w) = 1 .. Len(FxRows(w)) /\ Len(FxRows(w)) \in Nat
  <2>1. w.sheet \in FxIds \cup {0}
    BY DEF FxWizards
  <2>2. w.sheet # 0
    BY DEF FxRows
  <2>3. FxRows(w) \in Seq([name : STRING, post : STRING, to : STRING, from : STRING])
    BY <2>1, <2>2, FxAssumption DEF FxRows, FxIds
  <2>. QED
    BY <2>3
<1>2. same \subseteq Nat /\ i \in same
  BY <1>1
<1> HIDE DEF same
<1>3. PICK j \in same : \A l \in same : ~(<<l, j>> \in OpToRel(<, Nat))
  BY <1>2, WFMin, NatLessThanWellFounded
<1>4. \A l \in same : ~(l < j)
  BY <1>2, <1>3 DEF OpToRel
<1>5. j \in DOMAIN FxRows(w) /\ FxKey(w, FxRows(w)[j]) = FxKey(w, FxRows(w)[i])
  BY DEF same
<1>6. ASSUME NEW l \in 1 .. j - 1 PROVE FxKey(w, FxRows(w)[l]) # FxKey(w, FxRows(w)[j])
  <2>1. l < j /\ l \in DOMAIN FxRows(w)
    BY <1>1, <1>2, <1>5
  <2>. QED
    BY <1>4, <1>5, <2>1 DEF same
<1>. QED
  BY <1>5, <1>6 DEF FxFirsts

\* Normalising tells no other name, by whatever list.
LEMMA FxNormalisedTold ==
  ASSUME FxZipsApart, NEW w \in FxWizards, ~FxIsUs(w), NEW known \in {"none", "us", "nz"}, FxTold(w.zips)
  PROVE  FxTold(FxNormalised(w, known))
<1> SUFFICES ASSUME NEW k \in FxKeys, FxAliasKey(k)
             PROVE  FxNormalised(w, known)[k] \in {FxText, FxAliases[k[1]].name}
  BY DEF FxTold
<1> DEFINE rows == {FxRows(w)[i] : i \in {i \in FxFirsts(w) : FxKey(w, FxRows(w)[i]) = k}}
           drifted == {c \in FxListOf(known) : \E r \in rows : FxFold[c] = FxFold[r.name] /\ c # r.name}
           aliased == {r \in rows : FxCanon(FxListOf(known), r.name) = {} /\ FxAliased(w, r)}
<1>1. FxNormalised(w, known)[k] = IF w.zips[k] # FxText \/ known = "none" THEN w.zips[k]
                                  ELSE IF drifted # {} THEN CHOOSE c \in drifted : TRUE
                                  ELSE IF aliased # {} THEN FxAliases[k[1]].name ELSE FxText
  BY DEF FxNormalised
<1>2. \A r \in rows : FxFold[r.name] = k[1]
  <2>1. ASSUME NEW i \in FxFirsts(w), FxKey(w, FxRows(w)[i]) = k PROVE FxFold[FxRows(w)[i].name] = k[1]
    BY <2>1, FxRowKeys DEF FxFirsts
  <2>. QED
    BY <2>1
<1>3. drifted = {}
  <2>1. \A c \in FxListOf(known) : FxFold[c] # k[1]
    BY DEF FxListOf, FxZipsApart, FxAliasKey
  <2>. QED
    BY <1>2, <2>1
<1>4. w.zips[k] \in {FxText, FxAliases[k[1]].name}
  BY DEF FxTold
<1> HIDE DEF drifted, aliased
<1>. QED
  BY <1>1, <1>3, <1>4

\* By the list of the tenant it tells every one.
LEMMA FxNormalisedRewrites ==
  ASSUME FxZipsApart, NEW w \in FxWizards, ~FxIsUs(w), FxTold(w.zips)
  PROVE  FxRewritten([w EXCEPT !.zips = FxNormalised(w, "nz")])
<1> DEFINE v == [w EXCEPT !.zips = FxNormalised(w, "nz")]
<1>1. FxRows(v) = FxRows(w) /\ v.client = w.client /\ v.zips = FxNormalised(w, "nz")
  BY DEF FxWizards, FxRows
<1> HIDE DEF v
<1>2. \A r : FxKey(v, r) = FxKey(w, r)
  BY <1>1 DEF FxKey, FxIsUs
<1>3. ASSUME NEW i \in DOMAIN FxRows(w), FxAliasKey(FxKey(w, FxRows(w)[i]))
      PROVE  FxNormalised(w, "nz")[FxKey(w, FxRows(w)[i])] = FxAliases[FxKey(w, FxRows(w)[i])[1]].name
  <2> DEFINE k == FxKey(w, FxRows(w)[i])
             rows == {FxRows(w)[j] : j \in {j \in FxFirsts(w) : FxKey(w, FxRows(w)[j]) = k}}
             drifted == {c \in FxListOf("nz") : \E r \in rows : FxFold[c] = FxFold[r.name] /\ c # r.name}
             aliased == {r \in rows : FxCanon(FxListOf("nz"), r.name) = {} /\ FxAliased(w, r)}
  <2>0. k \in FxKeys /\ FxListOf("nz") = FxLists.nz
    BY FxRowKeys DEF FxListOf
  <2>1. FxNormalised(w, "nz")[k] = IF w.zips[k] # FxText \/ "nz" = "none" THEN w.zips[k]
                                   ELSE IF drifted # {} THEN CHOOSE c \in drifted : TRUE
                                   ELSE IF aliased # {} THEN FxAliases[k[1]].name ELSE FxText
    BY <2>0 DEF FxNormalised
  <2>2. PICK j \in FxFirsts(w) : FxKey(w, FxRows(w)[j]) = k
    BY FxFirstOfKey
  <2>3. FxRows(w)[j] \in aliased
    BY <1>3, <2>0, <2>2, FxAliasRows DEF FxFirsts
  <2>4. drifted = {}
    <3>1. \A r \in rows : FxFold[r.name] = k[1]
      <4>1. ASSUME NEW l \in FxFirsts(w), FxKey(w, FxRows(w)[l]) = k PROVE FxFold[FxRows(w)[l].name] = k[1]
        BY <4>1, FxRowKeys DEF FxFirsts
      <4>. QED
        BY <4>1
    <3>. QED
      BY <1>3, <2>0, <3>1 DEF FxAliasKey
  <2>5. w.zips[k] \in {FxText, FxAliases[k[1]].name}
    BY <1>3, <2>0 DEF FxTold
  <2> HIDE DEF drifted, aliased, k
  <2>6. FxNormalised(w, "nz")[k] = FxAliases[k[1]].name
    BY <2>1, <2>3, <2>4, <2>5
  <2>. QED
    BY <2>6 DEF k
<1>. QED
  BY <1>1, <1>2, <1>3 DEF FxRewritten, v

\* A render tells no other name, and shows step 3 with the list under way.
LEMMA FxRenderSpelt ==
  ASSUME FxZipsApart, fxPage \in FxPages, NEW open \in BOOLEAN, NEW w \in FxWizards, FxRender(open, w, fxPage),
         ~FxIsUs(w) => FxTold(w.zips),
         ~FxIsUs(w) /\ w.step \in FxPast => FxRewritten(w),
         ~FxIsUs(w) /\ w.step = "fixZips" /\ ~FxEnters(open, w, "fixZips") /\ ~fxPage.busy => FxRewritten(w)
  PROVE  FxSpelt'
<1>1. fxPage.known \in {"none", "us", "nz"} /\ fxPage.busy \in BOOLEAN
  BY DEF FxPages
<1>2. CASE FxEnters(open, w, "fixZips")
  <2>1. fxPage'.busy
    BY <1>2 DEF FxRender, FxPages
  <2>2. w.step = "fixZips"
    BY <1>2 DEF FxEnters, FxShown
  <2>3. fxWiz' \in {w, [w EXCEPT !.zips = FxNormalised(w, fxPage.known)]}
    BY DEF FxRender
  <2>4. fxWiz'.step = "fixZips" /\ fxWiz'.client = w.client /\ fxWiz'.zips \in {w.zips, FxNormalised(w, fxPage.known)}
    BY <2>2, <2>3 DEF FxWizards
  <2>5. ~FxIsUs(w) => FxTold(fxWiz'.zips)
    BY <1>1, <2>4, FxNormalisedTold
  <2>. QED
    BY <2>1, <2>4, <2>5 DEF FxSpelt, FxPast, FxIsUs
<1>3. CASE ~FxEnters(open, w, "fixZips")
  <2>1. fxWiz' = w /\ fxPage'.busy = fxPage.busy
    BY <1>1, <1>3 DEF FxRender, FxPages
  <2>. QED
    BY <1>3, <2>1 DEF FxSpelt
<1>. QED
  BY <1>2, <1>3

LEMMA FxSpeltStep ==
  ASSUME FxZipsApart, FxReliable, FxPatient, FxAware, FxTypeOK', [FxNext]_fxVars
  PROVE  FxSpelt'
<1>0. /\ fxOpen \in BOOLEAN /\ fxWiz \in FxWizards /\ fxPage \in FxPages
      /\ FxInv /\ FxSpelt /\ FxCalls /\ FxSheeted
  BY DEF FxAware, FxTypeOK, FxPages, FxInv
<1>u. ASSUME ~FxIsUs(fxWiz)
      PROVE  /\ FxTold(fxWiz.zips)
             /\ fxWiz.step \in FxPast \/ (fxWiz.step = "fixZips" /\ ~fxPage.busy) => FxRewritten(fxWiz)
  BY <1>0, <1>u DEF FxSpelt
\* What is not about names.
<1>s. ASSUME fxWiz'.zips = fxWiz.zips, fxWiz'.client = fxWiz.client, fxWiz'.sheet = fxWiz.sheet,
             fxWiz'.step = fxWiz.step, fxPage'.busy = fxPage.busy
      PROVE  FxSpelt'
  <2>1. FxRewritten(fxWiz) => FxRewritten(fxWiz')
    BY <1>s, FxSameRewritten
  <2>. QED
    BY <1>0, <1>s, <2>1 DEF FxSpelt, FxIsUs
<1>w. fxWiz' \in FxWizards
  BY DEF FxTypeOK
<1>1. CASE FxCloseWizard
  <2>1. FxRender(FALSE, FxFresh, fxPage)
    BY <1>1 DEF FxCloseWizard
  <2>2. FxFresh \in FxWizards /\ FxFresh.step = "newImport" /\ FxTold(FxFresh.zips)
    BY FxFreshTyped DEF FxFresh, FxTold
  <2>3. FxFresh.step \notin FxPast /\ FxFresh.step # "fixZips"
    BY <2>2 DEF FxPast
  <2>. QED
    BY <1>0, <2>1, <2>2, <2>3, FxRenderSpelt
<1>2. ASSUME NEW c \in FxClients, FxPickClient(c) PROVE FxSpelt'
  <2> DEFINE w == IF fxWiz.client \in {0, c} THEN fxWiz ELSE FxFresh
             v == [w EXCEPT !.client = c]
  <2>1. FxRender(TRUE, v, fxPage) /\ fxWiz.step = "newImport"
    BY <1>2 DEF FxPickClient, FxAt, FxShown
  <2>2. w \in FxWizards /\ w.step = "newImport"
    BY <1>0, <2>1, FxFreshTyped DEF FxFresh
  <2>3. ~FxIsUs(v) => FxTold(w.zips)
    <3>1. FxTold(FxFresh.zips)
      BY DEF FxFresh, FxTold
    <3>2. ASSUME fxWiz.client \in {0, c}, c \notin FxUs PROVE FxTold(fxWiz.zips)
      BY <1>u, <3>2, FxAssumption DEF FxIsUs
    <3>3. v.client = c
      BY <2>2 DEF FxWizards
    <3>. QED
      BY <3>1, <3>2, <3>3 DEF FxIsUs
  <2> HIDE DEF w
  <2>4. v \in FxWizards /\ v.step = "newImport" /\ v.zips = w.zips
    BY <2>2 DEF FxWizards
  <2> HIDE DEF v
  <2>5. v.step \notin FxPast /\ v.step # "fixZips"
    BY <2>4 DEF FxPast
  <2>. QED
    BY <1>0, <2>1, <2>3, <2>4, <2>5, FxRenderSpelt
<1>3. ASSUME NEW k \in FxKeys, NEW name, FxChoose(k, name) PROVE FxSpelt'
  <2>1. /\ fxWiz' = [fxWiz EXCEPT !.zips[k] = name] /\ fxPage' = fxPage
        /\ k \in FxBad(fxWiz, fxPage.known) /\ fxWiz.step = "fixZips"
    BY <1>3 DEF FxChoose, FxReady, FxAt, FxShown
  <2>2. /\ fxWiz'.client = fxWiz.client /\ fxWiz'.sheet = fxWiz.sheet /\ fxWiz'.step = fxWiz.step
        /\ fxWiz'.zips = [fxWiz.zips EXCEPT ![k] = name] /\ DOMAIN fxWiz.zips = FxKeys
    BY <1>0, <2>1 DEF FxWizards
  <2>3. ASSUME ~FxIsUs(fxWiz) PROVE ~FxAliasKey(k)
    <3>1. PICK i \in FxFirsts(fxWiz) : k = FxKey(fxWiz, FxRows(fxWiz)[i]) /\ ~FxAliased(fxWiz, FxRows(fxWiz)[i])
      BY <2>1 DEF FxBad
    <3>. QED
      BY <1>0, <2>3, <3>1, FxAliasRows DEF FxFirsts
  <2>4. ASSUME ~FxIsUs(fxWiz) PROVE FxTold(fxWiz'.zips)
    BY <1>u, <2>2, <2>3, <2>4 DEF FxTold
  <2>5. ASSUME ~FxIsUs(fxWiz), FxRewritten(fxWiz) PROVE FxRewritten(fxWiz')
    <3>1. FxRows(fxWiz') = FxRows(fxWiz) /\ \A r : FxKey(fxWiz', r) = FxKey(fxWiz, r)
      BY <2>2 DEF FxRows, FxKey, FxIsUs
    <3>2. \A i \in DOMAIN FxRows(fxWiz) : FxKey(fxWiz, FxRows(fxWiz)[i]) \in FxKeys
      BY <1>0, <2>5, FxRowKeys
    <3>3. \A j \in FxKeys : FxAliasKey(j) => fxWiz'.zips[j] = fxWiz.zips[j]
      BY <2>2, <2>3, <2>5
    <3>. QED
      BY <2>5, <3>1, <3>2, <3>3 DEF FxRewritten
  <2>. QED
    BY <1>u, <2>1, <2>2, <2>4, <2>5 DEF FxSpelt, FxIsUs
<1>4. ASSUME NEW dir \in FxDirections, NEW i, NEW pin, fxWiz' = [fxWiz EXCEPT ![dir][i] = pin],
             UNCHANGED fxPage
      PROVE  FxSpelt'
  <2>1. fxWiz'.zips = fxWiz.zips /\ fxWiz'.client = fxWiz.client /\ fxWiz'.sheet = fxWiz.sheet
        /\ fxWiz'.step = fxWiz.step
    BY <1>0, <1>4 DEF FxWizards, FxDirections
  <2>. QED
    BY <1>4, <1>s, <2>1
<1>5. CASE FxPlaced
  <2>1. PICK p \in fxPick : fxWiz' \in {fxWiz, [fxWiz EXCEPT ![p.dir][p.row] = p.pin]} /\ UNCHANGED fxPage
    BY <1>5 DEF FxPlaced
  <2>2. p.dir \in FxDirections
    BY <1>0, <2>1 DEF FxCalls
  <2>. QED
    BY <1>4, <1>s, <2>1, <2>2
<1>6. CASE FxListed
  <2>1. /\ fxPage' = [fxPage EXCEPT !.known = FxTenant(fxWiz), !.busy = FALSE]
        /\ fxWiz' = [fxWiz EXCEPT !.zips = FxNormalised(fxWiz, FxTenant(fxWiz))]
    BY <1>6 DEF FxListed
  <2>2. fxWiz'.client = fxWiz.client /\ fxWiz'.zips = FxNormalised(fxWiz, FxTenant(fxWiz))
    BY <1>0, <2>1 DEF FxWizards
  <2>3. ASSUME ~FxIsUs(fxWiz) PROVE FxTold(fxWiz'.zips) /\ FxRewritten(fxWiz')
    <3>1. FxTenant(fxWiz) = "nz"
      BY <2>3 DEF FxTenant
    <3>. QED
      BY <1>0, <1>u, <2>1, <2>2, <2>3, <3>1, FxNormalisedTold, FxNormalisedRewrites
  <2>. QED
    BY <2>2, <2>3 DEF FxSpelt, FxIsUs
<1>7. ASSUME NEW c \in fxGeo, FxGeocoded(c) PROVE FxSpelt'
  <2>1. c = [sheet |-> fxWiz.sheet, was |-> fxWiz] /\ fxWiz.step = "fixAddresses"
    BY <1>0 DEF FxCalls, FxShown
  <2>2. PICK to \in SUBSET FxLocated(c.sheet, "to"), from \in SUBSET FxLocated(c.sheet, "from") :
          /\ fxWiz' = [fxWiz EXCEPT !.to = FxPinned(c, "to", to), !.from = FxPinned(c, "from", from),
                                    !.zips = FxRenamed(c, to), !.posts = FxPosted(c, to)]
          /\ fxPage' = [fxPage EXCEPT !.sheet = c.sheet, !.found = [to |-> to, from |-> from],
                                      !.geocoding = FALSE]
    BY <1>7 DEF FxGeocoded
  <2>3. /\ fxWiz'.client = fxWiz.client /\ fxWiz'.sheet = fxWiz.sheet /\ fxWiz'.step = fxWiz.step
        /\ fxWiz'.zips = FxRenamed(c, to)
    BY <1>0, <2>2 DEF FxWizards
  <2>4. c.sheet = fxWiz.sheet /\ c.was = fxWiz /\ fxWiz.sheet \in FxIds /\ fxWiz.sheet # 0
    BY <1>0, <2>1, FxAssumption DEF FxSheeted
  <2>5. FxRows(fxWiz) = FxSheet[c.sheet].rows
    BY <2>4 DEF FxRows
  <2>6. ASSUME ~FxIsUs(fxWiz) PROVE FxRewritten(fxWiz)
    BY <1>u, <2>1, <2>6 DEF FxPast
  <2>7. ASSUME ~FxIsUs(fxWiz), NEW k \in FxKeys, FxAliasKey(k) PROVE FxRenamed(c, to)[k] = fxWiz.zips[k]
    <3> DEFINE rows == FxSheet[c.sheet].rows
               at == {i \in FxSuggested(c, to) : FxKey(c.was, rows[i]) = k /\ FxWritten(c, k)}
               last == CHOOSE i \in at : \A j \in at : j <= i
    <3>1. FxRenamed(c, to)[k] = IF at = {} THEN fxWiz.zips[k]
                                ELSE IF FxIsUs(c.was) THEN FxSuggests[rows[last].to] ELSE rows[last].name
      BY DEF FxRenamed
    <3>2. ASSUME NEW i \in FxSuggested(c, to), FxKey(c.was, rows[i]) = k PROVE ~FxWritten(c, k)
      <4>1. i \in DOMAIN FxRows(fxWiz)
        BY <2>5 DEF FxSuggested, FxLocated
      <4>2. fxWiz.zips[k] = FxAliases[k[1]].name
        BY <2>4, <2>5, <2>6, <2>7, <3>2, <4>1 DEF FxRewritten
      <4>3. FxAliases[k[1]].name # FxText
        BY <2>7, FxAssumption DEF FxAliasKey
      <4>. QED
        BY <2>4, <2>7, <4>2, <4>3 DEF FxWritten
    <3>3. at = {}
      BY <3>2
    <3> HIDE DEF at, last
    <3>. QED
      BY <3>1, <3>3
  <2>8. ASSUME ~FxIsUs(fxWiz) PROVE FxTold(fxWiz'.zips) /\ FxRewritten(fxWiz')
    <3>1. FxTold(fxWiz'.zips)
      BY <1>u, <2>3, <2>7, <2>8 DEF FxTold
    <3>2. FxRows(fxWiz') = FxRows(fxWiz) /\ \A r : FxKey(fxWiz', r) = FxKey(fxWiz, r)
      BY <2>3 DEF FxRows, FxKey, FxIsUs
    <3>3. \A i \in DOMAIN FxRows(fxWiz) : FxKey(fxWiz, FxRows(fxWiz)[i]) \in FxKeys
      BY <1>0, <2>8, FxRowKeys
    <3>4. FxRewritten(fxWiz')
      BY <2>3, <2>6, <2>7, <2>8, <3>2, <3>3 DEF FxRewritten
    <3>. QED
      BY <3>1, <3>4
  <2>. QED
    BY <2>3, <2>8 DEF FxSpelt, FxIsUs
<1>8. ASSUME NEW c \in fxGeo, FxGeocodeFails(c) PROVE FxSpelt'
  <2>1. fxWiz' = fxWiz /\ fxPage'.busy = fxPage.busy
    BY <1>0, <1>8 DEF FxGeocodeFails, FxPages
  <2>. QED
    BY <1>s, <2>1
\* The wizard as it is, shown.
<1>9. ASSUME NEW open \in BOOLEAN, FxRender(open, fxWiz, fxPage) PROVE FxSpelt'
  BY <1>0, <1>9, <1>u, FxRenderSpelt
<1>10. CASE FxOpenWizard
  BY <1>9, <1>10 DEF FxOpenWizard
<1>11. CASE FxUploaded
  <2> DEFINE v == [fxWiz EXCEPT !.file = fxUpload, !.sheet = 0, !.step = "mapColumns"]
  <2>1. FxRender(fxOpen, fxWiz, fxPage) \/ FxRender(fxOpen, v, fxPage)
    BY <1>11 DEF FxUploaded
  <2>2. v \in FxWizards /\ v.step = "mapColumns" /\ v.zips = fxWiz.zips /\ v.client = fxWiz.client
    BY <1>0 DEF FxWizards, FxAware, FxTypeOK
  <2>3. ~FxIsUs(v) => FxTold(v.zips)
    BY <1>u, <2>2 DEF FxIsUs
  <2>4. v.step \notin FxPast /\ v.step # "fixZips"
    BY <2>2 DEF FxPast
  <2> HIDE DEF v
  <2>5. CASE FxRender(fxOpen, v, fxPage)
    BY <1>0, <2>2, <2>3, <2>4, <2>5, FxRenderSpelt
  <2>. QED
    BY <1>0, <1>9, <2>1, <2>5
<1>12. ASSUME NEW to \in {"newImport", "mapColumns", "fixZips", "fixAddresses", "selectRegions"},
              FxRender(TRUE, [fxWiz EXCEPT !.step = to], fxPage),
              to = "fixZips" => fxWiz.step # "fixZips",
              to \in FxPast => fxWiz.step \in FxPast \/ (fxWiz.step = "fixZips" /\ ~fxPage.busy)
       PROVE  FxSpelt'
  <2> DEFINE v == [fxWiz EXCEPT !.step = to]
  <2>1. /\ v \in FxWizards /\ v.step = to /\ v.zips = fxWiz.zips /\ v.client = fxWiz.client
        /\ v.sheet = fxWiz.sheet /\ FxRender(TRUE, v, fxPage)
    BY <1>0, <1>12 DEF FxWizards
  <2> HIDE DEF v
  <2>2. ~FxIsUs(v) => ~FxIsUs(fxWiz) /\ FxTold(v.zips)
    BY <1>u, <2>1 DEF FxIsUs
  <2>3. ASSUME ~FxIsUs(v), v.step \in FxPast PROVE FxRewritten(v)
    BY <1>12, <1>u, <2>1, <2>2, <2>3, FxSameRewritten
  <2>4. v.step = "fixZips" => FxEnters(TRUE, v, "fixZips")
    BY <1>12, <2>1 DEF FxEnters, FxShown
  <2>. QED
    BY <1>0, <2>1, <2>2, <2>3, <2>4, FxRenderSpelt
<1>13. CASE FxNextStep
  <2>1. PICK step \in DOMAIN FxFollowing : FxReady(step) /\ FxRender(TRUE, [fxWiz EXCEPT !.step = FxFollowing[step]], fxPage)
    BY <1>13 DEF FxNextStep
  <2>2. /\ FxFollowing[step] \in {"fixAddresses", "selectRegions"}
        /\ fxWiz.step = step /\ step \in {"fixZips", "fixAddresses"} /\ (step = "fixZips" => ~fxPage.busy)
    BY <2>1 DEF FxFollowing, FxReady, FxAt, FxShown
  <2>. QED
    BY <1>12, <2>1, <2>2 DEF FxPast
<1>14. CASE FxBack
  <2>1. PICK step \in DOMAIN FxBefore : FxReady(step) /\ FxRender(TRUE, [fxWiz EXCEPT !.step = FxBefore[step]], fxPage)
    BY <1>14 DEF FxBack
  <2>2. /\ FxBefore[step] \in {"newImport", "mapColumns", "fixZips", "fixAddresses"}
        /\ fxWiz.step = step /\ (FxBefore[step] = "fixZips" => step = "fixAddresses")
        /\ (FxBefore[step] = "fixAddresses" => step = "selectRegions")
    BY <2>1 DEF FxBefore, FxReady, FxAt, FxShown
  <2>. QED
    BY <1>12, <2>1, <2>2 DEF FxPast
<1>15. ASSUME NEW file, FxUploadFile(file) PROVE FxSpelt'
  BY <1>15, <1>s DEF FxUploadFile
<1>16. ASSUME NEW s \in FxIds, FxMapColumns(s) PROVE FxSpelt'
  <2> DEFINE v == [fxWiz EXCEPT !.sheet = s, !.step = "fixZips"]
  <2>1. FxRender(TRUE, v, fxPage) /\ fxWiz.step = "mapColumns"
    BY <1>16 DEF FxMapColumns, FxAt, FxShown
  <2>2. v \in FxWizards /\ v.step = "fixZips" /\ v.zips = fxWiz.zips /\ v.client = fxWiz.client
    BY <1>0 DEF FxWizards
  <2>3. ~FxIsUs(v) => FxTold(v.zips)
    BY <1>u, <2>2 DEF FxIsUs
  <2>4. v.step \notin FxPast /\ FxEnters(TRUE, v, "fixZips")
    BY <2>1, <2>2 DEF FxPast, FxEnters, FxShown
  <2> HIDE DEF v
  <2>. QED
    BY <1>0, <2>1, <2>2, <2>3, <2>4, FxRenderSpelt
<1>17. ASSUME NEW dir \in FxDirections, NEW i \in FxIdx, FxSavePin(dir, i) \/ FxPickPlace(dir, i) PROVE FxSpelt'
  <2>1. CASE FxSavePin(dir, i)
    BY <1>4, <2>1 DEF FxSavePin
  <2>2. CASE FxPickPlace(dir, i)
    BY <1>s, <2>2 DEF FxPickPlace
  <2>. QED
    BY <1>17, <2>1, <2>2
<1>18. CASE UNCHANGED fxVars
  BY <1>18, <1>s DEF fxVars
<1>. QED
  BY <1>1, <1>2, <1>3, <1>5, <1>6, <1>7, <1>8, <1>10, <1>11, <1>13, <1>14, <1>15, <1>16, <1>17, <1>18
  DEF FxNext, FxStarts, FxFixes, FxReplies

\* AliasesAreRewritten, for any sheets, lists and answers: with a list that arrives and an operator who
\* waits for replies, what step 3 left to the effect is written before the rows are built.
THEOREM AliasesTold == ASSUME FxZipsApart, FxReliable, FxPatient PROVE FxSpec => []AliasesAreRewritten
<1>1. FxInit => FxSpelt
  BY DEF FxInit, FxSpelt, FxFresh, FxTold, FxPast
<1>2. FxTypeOK /\ FxInv /\ FxSpelt /\ [FxNext]_fxVars /\ FxTypeOK' => FxSpelt'
  BY FxSpeltStep DEF FxAware
<1>3. FxTypeOK /\ FxSpelt => AliasesAreRewritten
  <2> SUFFICES ASSUME FxTypeOK, FxSpelt, fxWiz.step \in FxPast, NEW i \in DOMAIN FxRows(fxWiz),
                      FxCanon(FxLists[FxTenant(fxWiz)], FxRows(fxWiz)[i].name) = {},
                      FxAliased(fxWiz, FxRows(fxWiz)[i])
               PROVE  FxSent(FxRows(fxWiz)[i]) = FxAliases[FxFold[FxRows(fxWiz)[i].name]].name
    BY DEF AliasesAreRewritten, FxShownRows
  <2> DEFINE r == FxRows(fxWiz)[i]
             k == FxKey(fxWiz, r)
  <2>1. fxWiz \in FxWizards /\ ~FxIsUs(fxWiz) /\ FxTenant(fxWiz) = "nz"
    BY DEF FxTypeOK, FxAliased, FxTenant
  <2>2. FxAliasKey(k)
    BY <2>1, FxAliasRows
  <2>3. fxWiz.zips[k] = FxAliases[k[1]].name
    BY <2>1, <2>2 DEF FxSpelt, FxRewritten
  <2>4. k[1] = FxFold[r.name]
    BY <2>1, FxRowKeys
  <2>5. FxAliases[k[1]].name # FxText
    BY <2>2, FxAssumption DEF FxAliasKey
  <2>. QED
    BY <2>3, <2>4, <2>5 DEF FxSent
<1>. QED
  BY <1>1, <1>2, <1>3, FxHolds, FixTypesHold, PTL DEF FxSpec

-------------------------------------------------------------------------------
(* The step that maps columns                                               *)

CmShaped(s) == DOMAIN s = DOMAIN CmFresh /\ DOMAIN s.map = CmKeys

CmScreen(open, s) == [open |-> open, wiz |-> s]

\* The wizard after the first pass of the effects.
CmOnce(open, s) == [s EXCEPT !.map = CmEffects(CmNow, CmScreen(open, s))]

CmTwice(open, s) == open /\ s.step = "mapColumns" /\ CmInPlay(CmOnce(open, s)) /\ ~CmInPlay(s)

LEMMA CmKeysKnown == {"weight", "totalWeight", "speed"} \subseteq CmKeys
  BY DEF CmKeys, CmKeyWords

LEMMA CmTruckShape ==
  ASSUME NEW s
  PROVE  DOMAIN CmTruckMapped(s) = CmKeys
  BY DEF CmTruckMapped

LEMMA CmEffectsShape ==
  ASSUME NEW b, NEW r, DOMAIN r.wiz.map = CmKeys
  PROVE  DOMAIN CmEffects(b, r) = CmKeys
<1>1. DOMAIN CmAutoMapped(r.wiz) = CmKeys
  BY DEF CmAutoMapped
<1>. QED
  BY <1>1, CmTruckShape DEF CmEffects

\* A render leaves the mapping of the first pass, or what truck jobs that it brought make of it.
LEMMA CmRendered ==
  ASSUME NEW open \in BOOLEAN, NEW s, NEW page, CmShaped(s), CmRender(open, s, page)
  PROVE  /\ cmOpen' = open
         /\ cmWiz' = [s EXCEPT !.map = IF CmTwice(open, s) THEN CmTruckMapped(CmOnce(open, s))
                                        ELSE CmEffects(CmNow, CmScreen(open, s))]
         /\ CmShaped(CmOnce(open, s))
         /\ CmShaped(cmWiz')
<1> DEFINE r == CmScreen(open, s)
           m == CmEffects(CmNow, r)
           a == CmScreen(open, CmOnce(open, s))
<1>1. "map" \in DOMAIN s
  BY DEF CmShaped, CmFresh
<1>2. r.wiz = s /\ r.open = open /\ a.open = open /\ a.wiz = [s EXCEPT !.map = m]
  BY DEF CmScreen, CmOnce
<1>3. CmNow = [open |-> cmOpen, wiz |-> cmWiz]
  BY DEF CmNow
<1>4. DOMAIN m = CmKeys
  BY <1>2, CmEffectsShape DEF CmShaped
<1>5. CmAfter(CmNow, r) = a
  <2> HIDE DEF m
  <2>1. CmAfter(CmNow, r) = [r EXCEPT !.wiz = [r.wiz EXCEPT !.map = m]]
    BY DEF CmAfter, m
  <2>. QED
    BY <2>1, <1>2 DEF CmScreen, CmOnce
<1>6. CmRender(open, s, page) => cmWiz' = CmAfter(r, a).wiz /\ cmOpen' = open
  BY <1>3, <1>5 DEF CmRender, CmSettled, CmScreen
<1>7. CmAfter(r, a).wiz = [a.wiz EXCEPT !.map = CmEffects(r, a)]
  BY DEF CmAfter, CmScreen
<1>8. a.wiz.map = m /\ a.wiz.client = s.client /\ a.wiz.job = s.job /\ a.wiz.auto = s.auto
      /\ a.wiz.step = s.step /\ a.wiz.held = s.held
  <2> HIDE DEF m, a
  <2>. QED
    BY <1>1, <1>2 DEF CmShaped, CmFresh
<1>9. CmEffects(r, a) = IF CmTwice(open, s) THEN CmTruckMapped(CmOnce(open, s)) ELSE m
  <2>1. ~CmLoads(r, a) /\ ~CmSpots(r, a)
    <3> HIDE DEF m, a, r
    <3>. QED
      BY <1>2, <1>8 DEF CmLoads, CmSpots, CmLoadDeps, CmShown, CmIsUs, CmEligible
  <2>2. CmTrucks(r, a) <=> CmTwice(open, s)
    <3>1. a.wiz = CmOnce(open, s)
      BY <1>2 DEF CmOnce
    <3> HIDE DEF m, a, r
    <3>. QED
      BY <1>2, <1>8, <3>1 DEF CmTrucks, CmShown, CmTwice
  <2>3. a.wiz = CmOnce(open, s)
    BY <1>2 DEF CmOnce
  <2> HIDE DEF m, a, r
  <2>. QED
    BY <2>1, <2>2, <2>3, <1>8 DEF CmEffects
<1>10. CmShaped(CmOnce(open, s))
  BY <1>1, <1>4 DEF CmShaped, CmOnce
<1>. QED
  <2>1. cmWiz' = [[s EXCEPT !.map = m] EXCEPT !.map = CmEffects(r, a)]
    BY <1>2, <1>6, <1>7
  <2>2. [[s EXCEPT !.map = m] EXCEPT !.map = CmEffects(r, a)] = [s EXCEPT !.map = CmEffects(r, a)]
    <3> HIDE DEF m, a, r
    <3>. QED
      OBVIOUS
  <2>3. DOMAIN CmEffects(r, a) = CmKeys
    BY <1>4, <1>9, CmTruckShape
  <2>4. CmShaped(cmWiz')
    <3> HIDE DEF m, a, r
    <3>. QED
      BY <2>1, <2>2, <2>3, <1>1 DEF CmShaped
  <2>. QED
    BY <2>1, <2>2, <2>4, <1>6, <1>9, <1>10

\* The records that are written into have their fields.
CmShapes ==
  /\ cmOpen \in BOOLEAN /\ CmShaped(cmWiz)
  /\ cmWiz.client \in CmClients \cup {0} /\ cmWiz.file \in CmFiles \cup {0}
  /\ DOMAIN cmPage = {"settings", "templates", "load"} /\ cmPage.settings \in CmClients \cup {0}
  /\ DOMAIN cmCalls = {"upload", "checking", "deletions"} /\ cmCalls.upload \in CmFiles \cup {0}
  /\ \A d \in cmCalls.deletions : DOMAIN d.map = CmKeys

\* A wizard that is rendered anew has the mapping of before, or shows no columns, or is at its place
\* in the same tenant.
CmFrom(open, s) ==
  \/ s.map = cmWiz.map
  \/ ~open \/ s.step # "mapColumns"
  \/ open = cmOpen /\ s.step = cmWiz.step /\ s.client = cmWiz.client /\ s.job = cmWiz.job
     /\ s.held = cmWiz.held

CmKnown(s) == s.client \in CmClients \cup {0} /\ s.file \in CmFiles \cup {0}

\* What a step makes of the wizard, but for the effects.
CmDraws ==
  \/ UNCHANGED <<cmOpen, cmWiz>>
  \/ \E open \in BOOLEAN : \E s, page :
       /\ CmShaped(s) /\ CmRender(open, s, page) /\ CmKnown(s)
       /\ CmWrites \/ s.map = cmWiz.map
       /\ CmFrom(open, s)

LEMMA CmFreshShaped == CmShaped(CmFresh) /\ CmKnown(CmFresh) /\ CmFresh.step = "newImport"
  BY DEF CmShaped, CmFresh, CmUnmapped, CmKnown

LEMMA CmStepsDraw ==
  ASSUME CmShapes, CmNext
  PROVE  CmDraws
<1> USE DEF CmShapes
<1>0. CmShaped(cmWiz) /\ cmOpen \in BOOLEAN /\ CmKnown(cmWiz)
  BY DEF CmKnown
<1>1. CASE CmCloseWizard
  BY <1>1, CmFreshShaped DEF CmCloseWizard, CmDraws, CmFrom, CmWrites, CmEdits
<1>2. CASE CmClearTemplate
  <2> DEFINE m == [k \in CmKeys |-> IF k \in CmFields(cmWiz) THEN CmMatch(cmWiz, k) ELSE CmNone]
             s == [cmWiz EXCEPT !.template = 0, !.map = m]
  <2>1. CmRender(cmOpen, s, cmPage)
    BY <1>2 DEF CmClearTemplate, CmShow
  <2>2. DOMAIN m = CmKeys
    OBVIOUS
  <2> HIDE DEF m
  <2>3. CmShaped(s) /\ CmFrom(cmOpen, s) /\ CmKnown(s)
    BY <1>0, <2>2 DEF CmShaped, CmFresh, CmFrom, CmKnown
  <2> HIDE DEF s
  <2>. QED
    BY <1>0, <1>2, <2>1, <2>3 DEF CmDraws, CmWrites, CmEdits
<1>3. CASE CmDeleted
  <2>1. PICK d \in cmCalls.deletions :
          \/ CmShow(cmWiz)
          \/ CmRender(cmOpen, [cmWiz EXCEPT !.template = 0, !.map = d.map], [cmPage EXCEPT !.templates = @ \ {d.template}])
    BY <1>3 DEF CmDeleted
  <2> DEFINE s == [cmWiz EXCEPT !.template = 0, !.map = d.map]
  <2>2. CmShaped(s) /\ CmFrom(cmOpen, s) /\ CmKnown(s)
    <3>1. DOMAIN d.map = CmKeys
      OBVIOUS
    <3>. QED
      BY <1>0, <3>1 DEF CmShaped, CmFresh, CmFrom, CmKnown
  <2>3. CmFrom(cmOpen, cmWiz)
    BY DEF CmFrom
  <2> HIDE DEF s
  <2>. QED
    BY <1>0, <1>3, <2>1, <2>2, <2>3 DEF CmDraws, CmWrites, CmEdits, CmShow, s
<1>4. ASSUME NEW c \in CmClients \cup {0}, CmPickClient(c) PROVE CmDraws
  <2> DEFINE s == [(IF cmWiz.client \in {0, c} THEN cmWiz ELSE CmFresh) EXCEPT !.client = c]
  <2>1. CmRender(cmOpen, s, cmPage) /\ cmWiz.step = "newImport"
    BY <1>4 DEF CmPickClient, CmShow, CmStart, CmAt
  <2>2. CmShaped(s) /\ s.step = "newImport" /\ CmKnown(s)
    BY <1>0, <2>1, CmFreshShaped DEF CmShaped, CmFresh, CmKnown
  <2> HIDE DEF s
  <2>3. CmWrites
    BY <1>4 DEF CmWrites, CmEdits
  <2>. QED
    BY <1>0, <2>1, <2>2, <2>3 DEF CmDraws, CmFrom
<1>5. ASSUME NEW p \in CmByHand, CmMapField(p[1], p[2]) PROVE CmDraws
  <2> DEFINE s == [cmWiz EXCEPT !.map[p[1]] = p[2]]
  <2>1. CmRender(cmOpen, s, cmPage)
    BY <1>5 DEF CmMapField, CmShow
  <2>2. CmShaped(s) /\ CmFrom(cmOpen, s) /\ CmKnown(s)
    BY <1>0 DEF CmShaped, CmFresh, CmFrom, CmKnown
  <2> HIDE DEF s
  <2>3. CmWrites
    BY <1>5 DEF CmWrites, CmEdits
  <2>. QED
    BY <1>0, <2>1, <2>2, <2>3 DEF CmDraws
<1>6. ASSUME NEW t \in CmTemplates, CmApplyTemplate(t) PROVE CmDraws
  <2> DEFINE m == [k \in CmKeys |-> IF CmTemplateMap[t][k] \in ToSet(CmHeaders(cmWiz.file))
                                      THEN CmTemplateMap[t][k] ELSE CmNone]
             s == [cmWiz EXCEPT !.template = t, !.map = m]
  <2>1. CmRender(cmOpen, s, cmPage)
    BY <1>6 DEF CmApplyTemplate, CmShow
  <2>2. DOMAIN m = CmKeys
    OBVIOUS
  <2> HIDE DEF m
  <2>3. CmShaped(s) /\ CmFrom(cmOpen, s) /\ CmKnown(s)
    BY <1>0, <2>2 DEF CmShaped, CmFresh, CmFrom, CmKnown
  <2> HIDE DEF s
  <2>4. CmWrites
    BY <1>6 DEF CmWrites, CmEdits
  <2>. QED
    BY <1>0, <2>1, <2>3, <2>4 DEF CmDraws
<1>7. ASSUME NEW open \in BOOLEAN, NEW s, NEW page, CmRender(open, s, page), DOMAIN s = DOMAIN CmFresh,
             s.map = cmWiz.map, CmKnown(s)
      PROVE  CmDraws
  BY <1>0, <1>7 DEF CmDraws, CmFrom, CmShaped
<1>8. CASE CmOpenWizard
  BY <1>0, <1>7, <1>8 DEF CmOpenWizard, CmShaped
<1>9. CASE CmUploaded
  <2> DEFINE s == [cmWiz EXCEPT !.file = cmCalls.upload, !.step = "mapColumns"]
  <2>1. \/ CmRender(cmOpen, cmWiz, cmPage)
        \/ CmRender(cmOpen, s, cmPage)
    BY <1>9 DEF CmUploaded, CmShow
  <2>3. s.map = cmWiz.map /\ DOMAIN s = DOMAIN CmFresh /\ CmKnown(s)
    BY <1>0 DEF CmShaped, CmFresh, CmKnown
  <2> HIDE DEF s
  <2>. QED
    BY <1>0, <1>7, <2>1, <2>3 DEF CmShaped
<1>10. CASE CmLoaded
  <2> DEFINE s == [cmWiz EXCEPT !.held = cmWiz.client]
  <2>1. PICK page : CmRender(cmOpen, s, page)
    BY <1>10 DEF CmLoaded
  <2>3. s.map = cmWiz.map /\ DOMAIN s = DOMAIN CmFresh /\ CmKnown(s)
    BY <1>0 DEF CmShaped, CmFresh, CmKnown
  <2> HIDE DEF s
  <2>. QED
    BY <1>0, <1>7, <2>1, <2>3 DEF CmShaped
<1>11. ASSUME NEW job, CmPickType(job) PROVE CmDraws
  <2> DEFINE s == [cmWiz EXCEPT !.job = job]
  <2>1. CmRender(cmOpen, s, cmPage)
    BY <1>11 DEF CmPickType, CmShow
  <2>3. s.map = cmWiz.map /\ DOMAIN s = DOMAIN CmFresh /\ CmKnown(s)
    BY <1>0 DEF CmShaped, CmFresh, CmKnown
  <2> HIDE DEF s
  <2>. QED
    BY <1>0, <1>7, <2>1, <2>3 DEF CmShaped
<1>12. ASSUME NEW o \in CmTried, CmSetOption(o) PROVE CmDraws
  <2> DEFINE s == [cmWiz EXCEPT ![o] = ~@]
  <2>1. CmRender(cmOpen, s, cmPage)
    BY <1>12 DEF CmSetOption, CmShow
  <2>2. o \notin {"map", "client", "file"}
    BY CmAssumption
  <2>3. s.map = cmWiz.map /\ DOMAIN s = DOMAIN CmFresh /\ CmKnown(s)
    BY <1>0, <2>2 DEF CmShaped, CmFresh, CmKnown
  <2> HIDE DEF s
  <2>. QED
    BY <1>0, <1>7, <2>1, <2>3 DEF CmShaped
<1>13. ASSUME NEW step, CmGoto(step) PROVE CmDraws
  <2> DEFINE s == [cmWiz EXCEPT !.step = step]
  <2>1. CmRender(cmOpen, s, cmPage)
    BY <1>13 DEF CmGoto, CmShow
  <2>3. s.map = cmWiz.map /\ DOMAIN s = DOMAIN CmFresh /\ CmKnown(s)
    BY <1>0 DEF CmShaped, CmFresh, CmKnown
  <2> HIDE DEF s
  <2>. QED
    BY <1>0, <1>7, <2>1, <2>3 DEF CmShaped
<1>14. CASE CmNextColumns
  <2> DEFINE s == [cmWiz EXCEPT !.step = "fixZips"]
  <2>1. UNCHANGED <<cmOpen, cmWiz>> \/ CmRender(cmOpen, s, cmPage)
    BY <1>14 DEF CmNextColumns, CmShow
  <2>3. s.map = cmWiz.map /\ DOMAIN s = DOMAIN CmFresh /\ CmKnown(s)
    BY <1>0 DEF CmShaped, CmFresh, CmKnown
  <2> HIDE DEF s
  <2>. QED
    BY <1>0, <1>7, <2>1, <2>3 DEF CmShaped, CmDraws
<1>15. CASE CmChecked
  <2> DEFINE s == [cmWiz EXCEPT !.step = "fixZips"]
  <2>1. CmRender(cmOpen, cmWiz, cmPage) \/ CmRender(cmOpen, s, cmPage)
    BY <1>15 DEF CmChecked, CmShow
  <2>3. s.map = cmWiz.map /\ DOMAIN s = DOMAIN CmFresh /\ CmKnown(s)
    BY <1>0 DEF CmShaped, CmFresh, CmKnown
  <2> HIDE DEF s
  <2>. QED
    BY <1>0, <1>7, <2>1, <2>3 DEF CmShaped
<1>16. CASE CmToPicker
  <2> DEFINE s == [cmWiz EXCEPT !.step = "schedulePicker", !.batch = FALSE]
  <2>1. CmRender(cmOpen, s, cmPage)
    BY <1>16 DEF CmToPicker, CmShow
  <2>3. s.map = cmWiz.map /\ DOMAIN s = DOMAIN CmFresh /\ CmKnown(s)
    BY <1>0 DEF CmShaped, CmFresh, CmKnown
  <2> HIDE DEF s
  <2>. QED
    BY <1>0, <1>7, <2>1, <2>3 DEF CmShaped
<1>17. CASE CmPickSpeed
  <2> DEFINE s == [cmWiz EXCEPT !.batch = ~@]
  <2>1. CmRender(cmOpen, s, cmPage)
    BY <1>17 DEF CmPickSpeed, CmShow
  <2>3. s.map = cmWiz.map /\ DOMAIN s = DOMAIN CmFresh /\ CmKnown(s)
    BY <1>0 DEF CmShaped, CmFresh, CmKnown
  <2> HIDE DEF s
  <2>. QED
    BY <1>0, <1>7, <2>1, <2>3 DEF CmShaped
<1>18. ASSUME NEW file, CmUpload(file) PROVE CmDraws
  BY <1>18 DEF CmUpload, CmDraws
<1>19. CASE CmLoadFails
  BY <1>19 DEF CmLoadFails, CmDraws
<1>20. CASE CmDeleteTemplate
  BY <1>20 DEF CmDeleteTemplate, CmDraws
<1>21. CASE CmBack
  BY <1>13, <1>21 DEF CmBack
<1>22. CASE CmWrites
  BY <1>1, <1>2, <1>3, <1>4, <1>5, <1>6, <1>22 DEF CmWrites, CmEdits
<1>. QED
  BY <1>8, <1>9, <1>10, <1>11, <1>12, <1>14, <1>15, <1>16, <1>17, <1>18, <1>19, <1>20, <1>21, <1>22 DEF CmNext

LEMMA CmShapesStep ==
  ASSUME CmShapes, [CmNext]_cmVars
  PROVE  CmShapes'
<1>1. CASE UNCHANGED cmVars
  BY <1>1 DEF cmVars, CmShapes, CmShaped
<1>2. CASE CmNext
  <2>1. cmOpen' \in BOOLEAN /\ CmShaped(cmWiz') /\ CmKnown(cmWiz')
    <3>1. CmDraws
      BY <1>2, CmStepsDraw
    <3>2. CASE UNCHANGED <<cmOpen, cmWiz>>
      BY <3>2 DEF CmShapes, CmShaped, CmKnown
    <3>3. ASSUME NEW open \in BOOLEAN, NEW s, NEW page, CmShaped(s), CmRender(open, s, page), CmKnown(s)
          PROVE  cmOpen' \in BOOLEAN /\ CmShaped(cmWiz') /\ CmKnown(cmWiz')
      <4>1. {"client", "file"} \subseteq DOMAIN s
        BY <3>3 DEF CmShaped, CmFresh
      <4>2. \A m : [s EXCEPT !.map = m].client = s.client /\ [s EXCEPT !.map = m].file = s.file
        BY <4>1
      <4>. QED
        BY <3>3, <4>2, CmRendered DEF CmKnown
    <3>. QED
      BY <3>1, <3>2, <3>3 DEF CmDraws
  <2>2. DOMAIN cmPage' = DOMAIN cmPage /\ cmPage'.settings \in {cmPage.settings, cmWiz.client}
    <3> DEFINE settled == DOMAIN cmPage' = DOMAIN cmPage /\ cmPage'.settings \in {cmPage.settings, cmWiz.client}
    <3>0. DOMAIN cmPage = {"settings", "templates", "load"}
      BY DEF CmShapes
    <3>1. ASSUME NEW open, NEW s, NEW page, DOMAIN page = DOMAIN cmPage,
                 page.settings \in {cmPage.settings, cmWiz.client}, CmRender(open, s, page)
          PROVE  settled
      BY <3>0, <3>1 DEF CmRender
    <3>2. \A s : CmShow(s) => settled
      BY <3>1 DEF CmShow
    <3>10. UNCHANGED cmPage => settled
      OBVIOUS
    <3>8. CASE CmDeleted
      <4>1. PICK d \in cmCalls.deletions :
              \/ CmShow(cmWiz)
              \/ CmRender(cmOpen, [cmWiz EXCEPT !.template = 0, !.map = d.map], [cmPage EXCEPT !.templates = @ \ {d.template}])
        BY <3>8 DEF CmDeleted
      <4>2. DOMAIN [cmPage EXCEPT !.templates = @ \ {d.template}] = DOMAIN cmPage
            /\ [cmPage EXCEPT !.templates = @ \ {d.template}].settings = cmPage.settings
        BY <3>0
      <4>. QED
        BY <3>1, <3>2, <4>1, <4>2
    <3>9. CASE CmCloseWizard
      BY <3>1, <3>9 DEF CmCloseWizard
    <3>3. CASE CmWrites
      BY <3>2, <3>3, <3>8, <3>9 DEF CmWrites, CmEdits, CmClearTemplate, CmPickClient, CmMapField, CmApplyTemplate
    <3>4. CASE CmOpenWizard \/ CmUploaded \/ CmDeleteTemplate \/ CmChecked \/ CmNextColumns
      BY <3>1, <3>2, <3>4, <3>10 DEF CmOpenWizard, CmUploaded, CmDeleteTemplate, CmNextColumns, CmChecked
    <3>11. CASE CmLoadFails
      BY <3>0, <3>11 DEF CmLoadFails
    <3>5. CASE CmLoaded
      <4>1. PICK templates :
              CmRender(cmOpen, [cmWiz EXCEPT !.held = cmWiz.client],
                       [settings |-> cmWiz.client, templates |-> templates, load |-> "none"])
        BY <3>5 DEF CmLoaded
      <4> DEFINE page == [settings |-> cmWiz.client, templates |-> templates, load |-> "none"]
      <4>2. DOMAIN page = DOMAIN cmPage /\ page.settings = cmWiz.client
        BY DEF CmShapes
      <4> HIDE DEF page
      <4>. QED
        BY <3>1, <4>1, <4>2 DEF page
    <3>6. CASE CmBack \/ CmToPicker \/ CmPickSpeed
      BY <3>2, <3>6 DEF CmBack, CmToPicker, CmPickSpeed, CmGoto
    <3>7. CASE \/ \E job \in CmJobTypes : CmPickType(job)
               \/ \E file \in CmFiles : CmUpload(file)
               \/ \E o \in CmTried : CmSetOption(o)
      BY <3>2, <3>7, <3>10 DEF CmPickType, CmUpload, CmSetOption
    <3>. QED
      BY <1>2, <3>3, <3>4, <3>5, <3>6, <3>7, <3>11 DEF CmNext
  <2>3. DOMAIN cmCalls' = DOMAIN cmCalls
        /\ cmCalls'.deletions \subseteq cmCalls.deletions \cup {[template |-> cmWiz.template, map |-> cmWiz.map]}
        /\ cmCalls'.upload \in CmFiles \cup {0}
    <3>0. UNCHANGED cmCalls => DOMAIN cmCalls' = DOMAIN cmCalls /\ cmCalls'.deletions = cmCalls.deletions
                              /\ cmCalls'.upload = cmCalls.upload
      OBVIOUS
    <3>1. {"deletions", "upload"} \subseteq DOMAIN cmCalls /\ cmCalls.upload \in CmFiles \cup {0}
      BY DEF CmShapes
    <3>2. CASE \/ CmCloseWizard \/ CmClearTemplate \/ CmOpenWizard \/ CmLoaded \/ CmLoadFails \/ CmBack \/ CmToPicker
               \/ CmPickSpeed
      BY <3>0, <3>1, <3>2 DEF CmCloseWizard, CmClearTemplate, CmOpenWizard, CmLoaded, CmLoadFails, CmBack, CmToPicker,
         CmPickSpeed, CmGoto
    <3>3. CASE \/ \E c \in CmClients \cup {0} : CmPickClient(c)
               \/ \E q \in CmByHand : CmMapField(q[1], q[2])
               \/ \E t \in CmTemplates : CmApplyTemplate(t)
               \/ \E job \in CmJobTypes : CmPickType(job)
               \/ \E o \in CmTried : CmSetOption(o)
      BY <3>0, <3>1, <3>3 DEF CmPickClient, CmMapField, CmApplyTemplate, CmPickType, CmSetOption
    <3>4. CASE \/ CmUploaded \/ CmDeleteTemplate \/ CmNextColumns \/ CmChecked \/ CmDeleted
               \/ \E file \in CmFiles : CmUpload(file)
      BY <3>0, <3>1, <3>4 DEF CmUploaded, CmDeleteTemplate, CmNextColumns, CmChecked, CmDeleted, CmUpload
    <3>. QED
      BY <1>2, <3>2, <3>3, <3>4 DEF CmNext, CmWrites, CmEdits
  <2>4. DOMAIN cmWiz.map = CmKeys /\ \A d \in cmCalls.deletions : DOMAIN d.map = CmKeys
    BY DEF CmShapes, CmShaped
  <2>5. \A d \in cmCalls'.deletions : DOMAIN d.map = CmKeys
    BY <2>3, <2>4
  <2>. QED
    BY <2>1, <2>2, <2>3, <2>5 DEF CmShapes, CmKnown
<1>. QED
  BY <1>1, <1>2

LEMMA CmShapesHold == CmSpec => []CmShapes
<1>1. ASSUME CmInit PROVE CmShapes
  <2>1. DOMAIN cmPage = {"settings", "templates", "load"} /\ cmPage.settings = 0
    BY <1>1 DEF CmInit
  <2>2. DOMAIN cmCalls = {"upload", "checking", "deletions"} /\ cmCalls.deletions = {} /\ cmCalls.upload = 0
    BY <1>1 DEF CmInit
  <2>. QED
    BY <1>1, <2>1, <2>2, CmFreshShaped DEF CmInit, CmShapes, CmKnown
<1>. QED
  BY <1>1, CmShapesStep, PTL DEF CmSpec

\* The effects of a render fill what is empty, and may let Weight go.
CmKeeps(m, next) ==
  \A k \in CmKeys :
    \/ m[k] \in {CmNone, next[k]}
    \/ k = "weight" /\ next[k] = CmNone /\ m[k] = next["totalWeight"]

LEMMA CmTruckKeeps ==
  ASSUME NEW s
  PROVE  CmKeeps(s.map, CmTruckMapped(s))
         /\ \/ CmTruckMapped(s)["weight"] = CmNone
            \/ CmTruckMapped(s)["weight"] # CmTruckMapped(s)["totalWeight"]
<1> DEFINE truck == CmFields(s) \cap (CmTruckKeys \cup {"quantity"})
           matched == CmMatched(s)
           next == [k \in CmKeys |-> IF k \in truck /\ s.map[k] = CmNone THEN matched[k] ELSE s.map[k]]
<1>1. CmTruckMapped(s) = IF next["totalWeight"] # CmNone /\ next["weight"] = next["totalWeight"]
                         THEN [next EXCEPT !["weight"] = CmNone] ELSE next
  BY DEF CmTruckMapped
<1>2. DOMAIN next = CmKeys /\ \A k \in CmKeys : s.map[k] \in {CmNone, next[k]}
  OBVIOUS
<1> HIDE DEF next
<1>. QED
  BY <1>1, <1>2, CmKeysKnown DEF CmKeeps

LEMMA CmEffectsKeep ==
  ASSUME NEW b, NEW r
  PROVE  /\ CmKeeps(r.wiz.map, CmEffects(b, r))
         /\ ~CmTrucks(b, r) => \A k \in CmKeys : r.wiz.map[k] \in {CmNone, CmEffects(b, r)[k]}
<1>1. /\ \A k \in CmKeys : r.wiz.map[k] \in {CmNone, CmAutoMapped(r.wiz)[k]}
      /\ DOMAIN CmAutoMapped(r.wiz) = CmKeys
  BY DEF CmAutoMapped
<1>. QED
  BY <1>1, CmTruckKeeps DEF CmEffects, CmSpots, CmKeeps

\* Both passes of the effects.
LEMMA CmRenderKeeps ==
  ASSUME NEW open \in BOOLEAN, NEW s, NEW page, CmShaped(s), CmRender(open, s, page)
  PROVE  CmKeeps(s.map, cmWiz'.map)
<1> DEFINE m == CmEffects(CmNow, CmScreen(open, s))
           a == CmOnce(open, s)
<1>1. "map" \in DOMAIN s
  BY DEF CmShaped, CmFresh
<1>2. a.map = m /\ CmKeeps(s.map, m)
  BY <1>1, CmEffectsKeep DEF CmScreen, CmOnce
<1>3. cmWiz'.map = IF CmTwice(open, s) THEN CmTruckMapped(a) ELSE m
  BY <1>1, CmRendered
<1>4. CASE cmWiz'.map = m
  BY <1>2, <1>4
<1>5. CASE CmTwice(open, s) /\ cmWiz'.map = CmTruckMapped(a)
  <2>1. CmKeeps(m, cmWiz'.map)
    BY <1>2, <1>5, CmTruckKeeps
  <2>2. ~CmTrucks(CmNow, CmScreen(open, s))
    BY <1>5 DEF CmTwice, CmTrucks, CmScreen
  <2>3. \A k \in CmKeys : s.map[k] \in {CmNone, m[k]}
    BY <2>2, CmEffectsKeep DEF CmScreen
  <2> HIDE DEF m
  <2>. QED
    BY <2>1, <2>3 DEF CmKeeps
<1>. QED
  BY <1>3, <1>4, <1>5

\* TruckWeightApart, for any columns and whatever is mapped already.
THEOREM WeightApart == CmSpec => TruckWeightApart
<1>1. ASSUME CmShapes, [CmNext]_cmVars
      PROVE  [~CmTruckShown(CmNow) /\ CmTruckShown(CmNow') =>
                cmWiz'.map["weight"] = CmNone \/ cmWiz'.map["weight"] # cmWiz'.map["totalWeight"]]_cmVars
  <2>1. CASE UNCHANGED <<cmOpen, cmWiz>>
    BY <2>1 DEF CmNow
  <2>2. ASSUME NEW open \in BOOLEAN, NEW s, NEW page, CmShaped(s), CmRender(open, s, page),
               ~CmTruckShown(CmNow), CmTruckShown(CmNow')
        PROVE  \E t : cmWiz'.map = CmTruckMapped(t)
    <3> DEFINE m == CmEffects(CmNow, CmScreen(open, s))
               a == CmOnce(open, s)
    <3>1. "map" \in DOMAIN s
      BY <2>2 DEF CmShaped, CmFresh
    <3>2. cmOpen' = open /\ cmWiz' = [s EXCEPT !.map = IF CmTwice(open, s) THEN CmTruckMapped(a) ELSE m]
      BY <2>2, CmRendered
    <3>3. open /\ s.step = "mapColumns" /\ CmInPlay(cmWiz')
      <4>1. CmNow' = [open |-> cmOpen', wiz |-> cmWiz']
        BY DEF CmNow
      <4>2. "step" \in DOMAIN s
        BY <2>2 DEF CmShaped, CmFresh
      <4>3. cmWiz'.step = s.step
        BY <3>2, <4>2
      <4>. QED
        BY <2>2, <3>2, <4>1, <4>3 DEF CmTruckShown, CmShown
    <3>4. CASE CmTwice(open, s)
      <4> HIDE DEF m, a
      <4>. QED
        BY <3>1, <3>2, <3>4
    <3>5. CASE ~CmTwice(open, s)
      <4>1. cmWiz' = a
        BY <3>2, <3>5 DEF CmOnce
      <4>2. CmInPlay(s)
        BY <3>3, <3>5, <4>1 DEF CmTwice
      <4>3. CmTrucks(CmNow, CmScreen(open, s))
        BY <2>2, <3>3, <4>2 DEF CmTrucks, CmScreen, CmShown, CmTruckShown
      <4>4. m = CmTruckMapped(s)
        BY <4>3 DEF CmEffects, CmScreen
      <4> HIDE DEF m, a
      <4>. QED
        BY <3>1, <3>2, <3>5, <4>4
    <3>. QED
      BY <3>4, <3>5
  <2>3. CASE CmDraws
    BY <2>1, <2>2, <2>3, CmTruckKeeps DEF CmDraws
  <2>4. CASE UNCHANGED cmVars
    BY <2>4
  <2>. QED
    BY <1>1, <2>3, <2>4, CmStepsDraw
<1>. QED
  BY <1>1, CmShapesHold, PTL DEF CmSpec, TruckWeightApart

LEMMA CmNoneIsNoColumn ==
  ASSUME NEW f \in CmFiles
  PROVE  CmNone \notin CmTruckColumns[f] /\ CmNone \notin CmFull(f)
<1>1. CmColumns[f] \in Seq(Seq(STRING) \ {CmNone})
  BY CmAssumption
<1>2. CmNone \notin ToSet(CmColumns[f])
  BY <1>1 DEF ToSet
<1>3. f # 0 /\ CmTruckColumns[f] \subseteq ToSet(CmColumns[f])
  BY CmAssumption
<1>. QED
  BY <1>2, <1>3 DEF CmFull

\* What a render leaves of the wizard but the mapping.
LEMMA CmRenderLeaves ==
  ASSUME NEW open \in BOOLEAN, NEW s, NEW page, CmShaped(s), CmRender(open, s, page)
  PROVE  /\ CmNow' = [open |-> open, wiz |-> cmWiz']
         /\ \A f \in DOMAIN CmFresh \ {"map"} : cmWiz'[f] = s[f] /\ CmOnce(open, s)[f] = s[f]
         /\ CmOnce(open, s).map = CmEffects(CmNow, CmScreen(open, s))
<1>1. CmNow' = [open |-> open, wiz |-> cmWiz']
  BY CmRendered DEF CmNow
<1>2. \A f \in DOMAIN CmFresh \ {"map"} : \A m : [s EXCEPT !.map = m][f] = s[f]
  BY DEF CmShaped
<1>3. "map" \in DOMAIN s
  BY DEF CmShaped, CmFresh
<1>. QED
  BY <1>1, <1>2, <1>3, CmRendered DEF CmOnce

\* TruckIsSpotted, for any columns, settings and late answers.
THEOREM TruckSpotted == CmSpec => TruckIsSpotted
<1>1. ASSUME NEW open \in BOOLEAN, NEW s, NEW page, CmShaped(s), CmKnown(s), CmRender(open, s, page), CmFrom(open, s),
             ~(CmShown(CmNow) /\ CmEligible(cmWiz)), CmShown(CmNow'), CmEligible(cmWiz'),
             CmNamesTruck(cmWiz', CmMatch(cmWiz', "speed")), cmWiz.map["speed"] = CmNone, ~CmInPlay(cmWiz')
      PROVE  FALSE
  <2> DEFINE r == CmScreen(open, s)
             m == CmEffects(CmNow, r)
             a == CmOnce(open, s)
  <2>1. \A f \in {"step", "client", "job", "held", "file", "trucks", "batch"} : cmWiz'[f] = s[f] /\ a[f] = s[f]
    BY <1>1, CmRenderLeaves DEF CmFresh
  <2>2. open /\ s.step = "mapColumns" /\ CmEligible(s) /\ CmEligible(a) /\ CmIsUs(s) = CmIsUs(cmWiz')
    <3>1. CmNow' = [open |-> open, wiz |-> cmWiz']
      BY <1>1, CmRenderLeaves
    <3> HIDE DEF a
    <3>. QED
      BY <1>1, <2>1, <3>1 DEF CmShown, CmEligible, CmIsUs
  <2>3. s.map = cmWiz.map
    BY <1>1, <2>2 DEF CmFrom, CmShown, CmNow, CmEligible, CmIsUs
  <2>4. s.file \in CmFiles /\ ~CmNamesTruck(s, CmNone)
    <3>1. s.file # 0
      BY <1>1, <2>1 DEF CmNamesTruck
    <3>. QED
      BY <1>1, <3>1, CmNoneIsNoColumn DEF CmKnown, CmNamesTruck
  <2>5. ~CmInPlay(s)
    BY <1>1, <2>1, <2>3, <2>4 DEF CmInPlay
  <2>6. CmMatch(cmWiz', "speed") = CmMatch(s, "speed")
    <3>1. CmInPlay(cmWiz') = CmInPlay(s)
      BY <1>1, <2>5 DEF CmInPlay
    <3>2. cmWiz'.job = s.job /\ cmWiz'.file = s.file /\ CmIsUs(cmWiz') = CmIsUs(s)
      BY <2>1, <2>2
    <3>3. CmMatched(cmWiz') = CmMatched(s)
      BY <3>1, <3>2, Zenon DEF CmMatched
    <3>. QED
      BY <3>3, Zenon DEF CmMatch
  <2>7. CmNamesTruck(s, CmMatch(s, "speed"))
    BY <1>1, <2>1, <2>6 DEF CmNamesTruck
  <2>8. CmSpots(CmNow, r) /\ ~CmTrucks(CmNow, r)
    BY <1>1, <2>2, <2>3, <2>5, <2>7 DEF CmSpots, CmTrucks, CmScreen, CmShown, CmNow
  <2>9. m["speed"] = CmMatch(s, "speed")
    <3>1. DOMAIN CmAutoMapped(s) = CmKeys /\ DOMAIN s.map = CmKeys
      BY <1>1 DEF CmAutoMapped, CmShaped
    <3>2. m = [(IF CmLoads(CmNow, r) THEN CmAutoMapped(s) ELSE s.map) EXCEPT !["speed"] = CmMatch(s, "speed")]
      BY <2>8 DEF CmEffects, CmScreen
    <3>. QED
      BY <3>1, <3>2, CmKeysKnown
  <2>10. a.map = m
    BY <1>1, CmRenderLeaves
  <2>11. CmNamesTruck(a, a.map["speed"]) /\ a.map["speed"] # CmNone
    <3> HIDE DEF a, m
    <3>. QED
      BY <2>1, <2>4, <2>7, <2>9, <2>10 DEF CmNamesTruck
  <2>12. cmWiz'.map = CmTruckMapped(a)
    <3>1. CmTwice(open, s)
      BY <2>2, <2>5, <2>11 DEF CmTwice, CmInPlay
    <3>2. "map" \in DOMAIN s
      BY <1>1 DEF CmShaped, CmFresh
    <3>. QED
      BY <1>1, <3>1, <3>2, CmRendered
  <2>13. cmWiz'.map["speed"] = a.map["speed"]
    <3> HIDE DEF a
    <3>. QED
      BY <2>11, <2>12, CmTruckKeeps, CmKeysKnown DEF CmKeeps
  <2>. QED
    <3> HIDE DEF a
    <3>. QED
      BY <1>1, <2>1, <2>11, <2>13 DEF CmInPlay, CmNamesTruck
<1>2. ASSUME CmShapes, [CmNext]_cmVars
      PROVE  [LET before == CmShown(CmNow) /\ CmEligible(cmWiz)
                  after == CmShown(CmNow') /\ CmEligible(cmWiz')
              IN  ~before /\ after /\ CmNamesTruck(cmWiz', CmMatch(cmWiz', "speed")) =>
                    CmInPlay(cmWiz') \/ cmWiz.map["speed"] # CmNone]_cmVars
  <2>1. CASE UNCHANGED <<cmOpen, cmWiz>>
    BY <2>1 DEF CmNow
  <2>2. CASE CmDraws
    BY <1>1, <2>1, <2>2 DEF CmDraws
  <2>3. CASE UNCHANGED cmVars
    BY <2>3
  <2>. QED
    BY <1>2, <2>2, <2>3, CmStepsDraw
<1>. QED
  BY <1>2, CmShapesHold, PTL DEF CmSpec, TruckIsSpotted

\* An operator who waits: a call under way is about the wizard that is still there.
CmPatience ==
  /\ cmPage.load = "live" => CmShown(CmNow)
  /\ cmCalls.upload # 0 =>
       cmOpen /\ cmWiz.step = "newImport" /\ cmCalls.checking = FALSE /\ cmCalls.deletions = {}
  /\ cmCalls.checking # FALSE =>
       CmShown(CmNow) /\ cmPage.load = "none" /\ cmCalls.deletions = {}
  /\ cmCalls.deletions # {} => CmShown(CmNow) /\ cmPage.load = "none"
  /\ \A d \in cmCalls.deletions : d.map = cmWiz.map

CmInv == CmShapes /\ CmPatience

\* And one in which nothing changed that the effects look at.
LEMMA CmStillKeeps ==
  ASSUME NEW s, NEW page, CmShaped(s), CmRender(cmOpen, s, page), cmOpen \in BOOLEAN,
         \A f \in DOMAIN CmFresh \ {"template"} : s[f] = cmWiz[f]
  PROVE  cmWiz'.map = s.map
<1>1. "map" \in DOMAIN s
  BY DEF CmShaped, CmFresh
<1>2. /\ s.client = cmWiz.client /\ s.job = cmWiz.job /\ s.auto = cmWiz.auto /\ s.step = cmWiz.step
      /\ s.held = cmWiz.held /\ s.file = cmWiz.file /\ s.trucks = cmWiz.trucks /\ s.batch = cmWiz.batch
      /\ s.map = cmWiz.map
  BY DEF CmFresh
<1>3. CmIsUs(s) = CmIsUs(cmWiz) /\ CmEligible(s) = CmEligible(cmWiz) /\ CmInPlay(s) = CmInPlay(cmWiz)
  BY <1>2 DEF CmIsUs, CmEligible, CmInPlay, CmNamesTruck
<1>4. CmNow.open = cmOpen /\ CmNow.wiz = cmWiz /\ CmScreen(cmOpen, s).open = cmOpen /\ CmScreen(cmOpen, s).wiz = s
  BY DEF CmNow, CmScreen
<1>5. CmShown(CmNow) = CmShown(CmScreen(cmOpen, s))
  BY <1>2, <1>4 DEF CmShown
<1>6. ~CmLoads(CmNow, CmScreen(cmOpen, s))
  BY <1>2, <1>3, <1>4, <1>5, Zenon DEF CmLoads, CmLoadDeps
<1>7. ~CmSpots(CmNow, CmScreen(cmOpen, s)) /\ ~CmTrucks(CmNow, CmScreen(cmOpen, s))
  BY <1>3, <1>4, <1>5, Zenon DEF CmSpots, CmTrucks
<1>8. CmEffects(CmNow, CmScreen(cmOpen, s)) = s.map
  BY <1>4, <1>6, <1>7 DEF CmEffects
<1>9. ~CmTwice(cmOpen, s)
  <2>1. \A f \in DOMAIN CmFresh \ {"map"} : CmOnce(cmOpen, s)[f] = s[f]
    BY CmRenderLeaves
  <2>2. CmOnce(cmOpen, s).map = s.map
    BY <1>8, CmRenderLeaves
  <2>3. /\ CmOnce(cmOpen, s).client = s.client /\ CmOnce(cmOpen, s).job = s.job
        /\ CmOnce(cmOpen, s).held = s.held /\ CmOnce(cmOpen, s).file = s.file
        /\ CmOnce(cmOpen, s).trucks = s.trucks /\ CmOnce(cmOpen, s).batch = s.batch
    BY <2>1 DEF CmFresh
  <2>. QED
    BY <2>2, <2>3 DEF CmTwice, CmInPlay, CmEligible, CmIsUs, CmNamesTruck
<1>. QED
  BY <1>1, <1>8, <1>9, CmRendered

\* The load of the settings.
LEMMA CmRenderLoad ==
  ASSUME NEW open \in BOOLEAN, NEW s, NEW page, CmShaped(s), CmRender(open, s, page),
         DOMAIN page = {"settings", "templates", "load"}, page.load = "live" => CmShown(CmNow)
  PROVE  /\ cmPage'.load = "live" => CmShown(CmNow')
         /\ cmPage'.settings = page.settings
         /\ page.load = "none" /\ cmPage'.load # "none" => CmLoads(CmNow, CmScreen(open, s))
<1>1. CmNow = [open |-> cmOpen, wiz |-> cmWiz] /\ CmScreen(open, s) = [open |-> open, wiz |-> s]
  BY DEF CmNow, CmScreen
<1>2. cmPage' = [page EXCEPT !.load = CmLoading(CmNow, CmScreen(open, s), page.load)]
  BY <1>1 DEF CmRender
<1>3. cmPage'.load = CmLoading(CmNow, CmScreen(open, s), page.load) /\ cmPage'.settings = page.settings
  BY <1>2
<1>4. CmShown(CmNow') = CmShown(CmScreen(open, s))
  <2>1. CmNow' = [open |-> open, wiz |-> cmWiz']
    BY CmRenderLeaves
  <2>2. "step" \in DOMAIN CmFresh \ {"map"}
    BY DEF CmFresh
  <2>3. cmWiz'.step = s.step
    BY <2>2, CmRenderLeaves
  <2>. QED
    BY <1>1, <2>1, <2>3 DEF CmShown
<1>5. CmLoadDeps(CmNow) = CmLoadDeps(CmScreen(open, s)) => CmShown(CmNow) = CmShown(CmScreen(open, s))
  BY DEF CmLoadDeps
<1>. QED
  BY <1>3, <1>4, <1>5 DEF CmLoading, CmLoads

CmCalm == cmCalls.upload = 0 /\ cmCalls.checking = FALSE /\ cmCalls.deletions = {}

\* A step after which no call is under way.
LEMMA CmCalmStep ==
  ASSUME NEW open \in BOOLEAN, NEW s, NEW page, CmShaped(s), CmRender(open, s, page), CmCalm',
         DOMAIN page = {"settings", "templates", "load"}, page.load = "live" => CmShown(CmNow),
         page.settings \in CmClients \cup {0}
  PROVE  CmPatience'
BY CmRenderLoad DEF CmCalm, CmPatience

\* The reply to a deletion.
LEMMA CmDeletedKeeps ==
  ASSUME CmShapes, CmPatience, CmDeleted
  PROVE  cmWiz'.map = cmWiz.map /\ CmPatience'
<1>1. PICK d \in cmCalls.deletions :
        /\ cmCalls' = [cmCalls EXCEPT !.deletions = @ \ {d}]
        /\ \/ CmShow(cmWiz)
           \/ CmRender(cmOpen, [cmWiz EXCEPT !.template = 0, !.map = d.map],
                       [cmPage EXCEPT !.templates = @ \ {d.template}])
  BY DEF CmDeleted
<1>2. /\ cmOpen = TRUE /\ cmWiz.step = "mapColumns" /\ cmPage.load = "none" /\ d.map = cmWiz.map
      /\ cmCalls.upload = 0 /\ cmCalls.checking = FALSE
  BY DEF CmPatience, CmShown, CmNow, CmShapes
<1>3. /\ DOMAIN cmWiz = DOMAIN CmFresh /\ DOMAIN cmPage = {"settings", "templates", "load"} /\ CmShaped(cmWiz)
      /\ DOMAIN cmCalls = {"upload", "checking", "deletions"}
  BY DEF CmShapes, CmShaped
<1>4. PICK s, page :
        /\ CmRender(cmOpen, s, page) /\ CmShaped(s)
        /\ \A f \in DOMAIN CmFresh \ {"template"} : s[f] = cmWiz[f]
        /\ DOMAIN page = {"settings", "templates", "load"} /\ page.load = "none"
  <2>1. CASE CmShow(cmWiz)
    BY <1>2, <1>3, <2>1 DEF CmShow
  <2>2. CASE ~CmShow(cmWiz)
    <3> DEFINE s == [cmWiz EXCEPT !.template = 0, !.map = d.map]
               page == [cmPage EXCEPT !.templates = @ \ {d.template}]
    <3>1. CmRender(cmOpen, s, page)
      BY <1>1, <2>2
    <3>2. CmShaped(s) /\ \A f \in DOMAIN CmFresh \ {"template"} : s[f] = cmWiz[f]
      <4>1. {"map", "template"} \subseteq DOMAIN cmWiz
        BY <1>3 DEF CmFresh
      <4>2. DOMAIN s = DOMAIN CmFresh /\ s.map = d.map
        BY <1>3, <4>1
      <4>3. \A f \in DOMAIN cmWiz \ {"template", "map"} : s[f] = cmWiz[f]
        BY <1>3
      <4> HIDE DEF s
      <4>. QED
        BY <1>2, <1>3, <4>2, <4>3 DEF CmShaped
    <3>3. DOMAIN page = {"settings", "templates", "load"} /\ page.load = "none"
      BY <1>2, <1>3
    <3> HIDE DEF s, page
    <3>. QED
      BY <3>1, <3>2, <3>3
  <2>. QED
    BY <2>1, <2>2
<1>5. cmOpen \in BOOLEAN
  BY DEF CmShapes
<1>6. s.map = cmWiz.map /\ s.step = cmWiz.step /\ s.client = cmWiz.client /\ s.job = cmWiz.job /\ s.auto = cmWiz.auto
  BY <1>4 DEF CmFresh
<1>7. cmWiz'.map = cmWiz.map
  BY <1>4, <1>5, <1>6, CmStillKeeps
<1>8. cmWiz'.step = "mapColumns" /\ CmNow' = [open |-> cmOpen, wiz |-> cmWiz']
  <2>1. "step" \in DOMAIN CmFresh \ {"map"}
    BY DEF CmFresh
  <2>2. \A f \in DOMAIN CmFresh \ {"map"} : cmWiz'[f] = s[f]
    BY <1>4, <1>5, CmRenderLeaves
  <2>3. CmNow' = [open |-> cmOpen, wiz |-> cmWiz']
    BY <1>4, <1>5, CmRenderLeaves
  <2>4. cmWiz'["step"] = s["step"]
    BY <2>1, <2>2
  <2>. QED
    BY <1>2, <1>6, <2>3, <2>4
<1>9. ~CmLoads(CmNow, CmScreen(cmOpen, s))
  <2>1. CmShown(CmNow) = CmShown(CmScreen(cmOpen, s))
    BY <1>6 DEF CmShown, CmNow, CmScreen
  <2>2. CmIsUs(CmNow.wiz) = CmIsUs(s)
    BY <1>6 DEF CmIsUs, CmNow
  <2>. QED
    BY <1>6, <2>1, <2>2, Zenon DEF CmLoads, CmLoadDeps, CmNow, CmScreen
<1>10. cmPage'.load = "none"
  BY <1>4, <1>5, <1>9, CmRenderLoad
<1>11. cmCalls'.upload = 0 /\ cmCalls'.checking = FALSE /\ cmCalls'.deletions \subseteq cmCalls.deletions
  BY <1>1, <1>2, <1>3
<1>12. \A e \in cmCalls'.deletions : e.map = cmWiz'.map
  BY <1>7, <1>11 DEF CmPatience
<1>13. CmShown(CmNow')
  BY <1>2, <1>8 DEF CmShown
<1>. QED
  BY <1>7, <1>8, <1>10, <1>11, <1>12, <1>13 DEF CmPatience

LEMMA CmInvStep ==
  ASSUME CmPatient, CmShapes, CmPatience, CmNext
  PROVE  CmPatience'
<1>0. /\ cmOpen \in BOOLEAN /\ CmShaped(cmWiz) /\ DOMAIN cmWiz = DOMAIN CmFresh
      /\ DOMAIN cmPage = {"settings", "templates", "load"} /\ cmPage.settings \in CmClients \cup {0}
      /\ DOMAIN cmCalls = {"upload", "checking", "deletions"}
      /\ cmWiz.client \in CmClients \cup {0}
  BY DEF CmShapes, CmShaped
<1>1. cmPage.load = "live" => CmShown(CmNow)
  BY DEF CmPatience
<1>2. CmNoCalls => CmCalm
  BY DEF CmNoCalls, CmCalm
<1>3. CmCalm /\ UNCHANGED cmCalls => CmCalm'
  BY DEF CmCalm
\* A step after which no call is under way.
<1>4. ASSUME NEW open \in BOOLEAN, NEW s, CmShaped(s), CmRender(open, s, cmPage), CmCalm'
      PROVE  CmPatience'
  BY <1>0, <1>1, <1>4, CmCalmStep
<1>5. ASSUME CmReady PROVE cmOpen /\ cmWiz.step = "mapColumns" /\ CmCalm /\ cmPage.load = "none"
  BY <1>2, <1>5 DEF CmReady, CmAt, CmWaits
<1>6. ASSUME NEW step, CmAt(step) PROVE cmOpen /\ cmWiz.step = step /\ CmCalm
  BY <1>2, <1>6 DEF CmAt, CmWaits
<1>7. CASE CmCloseWizard
  BY <1>2, <1>3, <1>4, <1>7, CmFreshShaped DEF CmCloseWizard, CmWaits
<1>8. CASE CmClearTemplate
  <2> DEFINE m == [k \in CmKeys |-> IF k \in CmFields(cmWiz) THEN CmMatch(cmWiz, k) ELSE CmNone]
             s == [cmWiz EXCEPT !.template = 0, !.map = m]
  <2>1. CmRender(cmOpen, s, cmPage) /\ CmCalm'
    BY <1>3, <1>5, <1>8 DEF CmClearTemplate, CmShow
  <2>2. DOMAIN m = CmKeys
    OBVIOUS
  <2> HIDE DEF m
  <2>3. CmShaped(s) /\ s.step = "mapColumns"
    BY <1>0, <1>5, <1>8, <2>2 DEF CmShaped, CmFresh, CmClearTemplate
  <2> HIDE DEF s
  <2>. QED
    BY <1>0, <1>4, <2>1, <2>3
<1>9. CASE CmDeleted
  BY <1>9, CmDeletedKeeps
<1>10. ASSUME NEW c \in CmClients \cup {0}, CmPickClient(c) PROVE CmPatience'
  <2> DEFINE s == [(IF cmWiz.client \in {0, c} THEN cmWiz ELSE CmFresh) EXCEPT !.client = c]
  <2>1. CmRender(cmOpen, s, cmPage) /\ cmWiz.step = "newImport" /\ CmCalm'
    BY <1>3, <1>6, <1>10 DEF CmPickClient, CmShow, CmStart
  <2>2. CmShaped(s) /\ s.step = "newImport"
    BY <1>0, <2>1, CmFreshShaped DEF CmShaped, CmFresh
  <2> HIDE DEF s
  <2>. QED
    BY <1>0, <1>4, <2>1, <2>2
<1>11. ASSUME NEW q \in CmByHand, CmMapField(q[1], q[2]) PROVE CmPatience'
  <2> DEFINE s == [cmWiz EXCEPT !.map[q[1]] = q[2]]
  <2>1. CmRender(cmOpen, s, cmPage) /\ CmCalm' /\ cmWiz.step = "mapColumns"
    BY <1>3, <1>5, <1>11 DEF CmMapField, CmShow
  <2>2. CmShaped(s) /\ s.step = "mapColumns"
    BY <1>0, <2>1 DEF CmShaped, CmFresh
  <2> HIDE DEF s
  <2>. QED
    BY <1>0, <1>4, <2>1, <2>2
<1>12. ASSUME NEW t \in CmTemplates, CmApplyTemplate(t) PROVE CmPatience'
  <2> DEFINE m == [k \in CmKeys |-> IF CmTemplateMap[t][k] \in ToSet(CmHeaders(cmWiz.file))
                                      THEN CmTemplateMap[t][k] ELSE CmNone]
             s == [cmWiz EXCEPT !.template = t, !.map = m]
  <2>1. CmRender(cmOpen, s, cmPage) /\ CmCalm' /\ cmWiz.step = "mapColumns"
    BY <1>3, <1>5, <1>12 DEF CmApplyTemplate, CmShow
  <2>2. DOMAIN m = CmKeys
    OBVIOUS
  <2> HIDE DEF m
  <2>3. CmShaped(s) /\ s.step = "mapColumns"
    BY <1>0, <2>1, <2>2 DEF CmShaped, CmFresh
  <2> HIDE DEF s
  <2>. QED
    BY <1>0, <1>4, <2>1, <2>3
<1>13. CASE CmOpenWizard
  <2>1. CmCalm
    <3>1. cmOpen = FALSE
      BY <1>0, <1>13 DEF CmOpenWizard
    <3>. QED
      BY <3>1 DEF CmPatience, CmShown, CmNow, CmCalm
  <2>. QED
    BY <1>0, <1>3, <1>4, <1>13, <2>1 DEF CmOpenWizard
<1>14. CASE CmUploaded
  <2> DEFINE s == [cmWiz EXCEPT !.file = cmCalls.upload, !.step = "mapColumns"]
  <2>1. CmRender(cmOpen, cmWiz, cmPage) \/ CmRender(cmOpen, s, cmPage)
    BY <1>14 DEF CmUploaded, CmShow
  <2>2. CmCalm' /\ cmWiz.step = "newImport"
    BY <1>0, <1>14 DEF CmUploaded, CmPatience, CmCalm
  <2>3. CmShaped(s) /\ s.step = "mapColumns"
    BY <1>0 DEF CmShaped, CmFresh
  <2> HIDE DEF s
  <2>. QED
    BY <1>0, <1>4, <2>1, <2>2, <2>3
<1>15. CASE CmLoaded
  <2> DEFINE s == [cmWiz EXCEPT !.held = cmWiz.client]
             page(templates) == [settings |-> cmWiz.client, templates |-> templates, load |-> "none"]
  <2>1. PICK templates : CmRender(cmOpen, s, page(templates))
    BY <1>15 DEF CmLoaded
  <2>2. CmCalm' /\ cmWiz.step = "mapColumns"
    BY <1>15 DEF CmLoaded, CmPatience, CmCalm, CmShown, CmNow
  <2>3. CmShaped(s) /\ s.step = "mapColumns"
    BY <1>0, <2>2 DEF CmShaped, CmFresh
  <2>4. /\ DOMAIN page(templates) = {"settings", "templates", "load"}
        /\ page(templates).load = "none" /\ page(templates).settings = cmWiz.client
    OBVIOUS
  <2> HIDE DEF s, page
  <2>. QED
    BY <1>0, <2>1, <2>2, <2>3, <2>4, CmCalmStep
<1>16. CASE CmLoadFails
  <2>1. cmPage'.load = "none" /\ cmPage'.settings = cmPage.settings /\ UNCHANGED <<cmOpen, cmWiz, cmCalls>>
    BY <1>0, <1>16 DEF CmLoadFails
  <2>2. CmShown(CmNow') = CmShown(CmNow)
    BY <2>1 DEF CmNow
  <2>. QED
    BY <2>1, <2>2 DEF CmPatience
<1>17. ASSUME NEW job, CmPickType(job) PROVE CmPatience'
  <2> DEFINE s == [cmWiz EXCEPT !.job = job]
  <2>1. CmRender(cmOpen, s, cmPage) /\ CmCalm' /\ cmWiz.step = "newImport"
    BY <1>3, <1>6, <1>17 DEF CmPickType, CmShow, CmStart
  <2>2. CmShaped(s) /\ s.step = "newImport"
    BY <1>0, <2>1 DEF CmShaped, CmFresh
  <2> HIDE DEF s
  <2>. QED
    BY <1>0, <1>4, <2>1, <2>2
<1>18. ASSUME NEW o \in CmTried, CmSetOption(o) PROVE CmPatience'
  <2> DEFINE s == [cmWiz EXCEPT ![o] = ~@]
  <2>1. CmRender(cmOpen, s, cmPage) /\ CmCalm' /\ cmWiz.step = "mapColumns"
    BY <1>3, <1>5, <1>18 DEF CmSetOption, CmShow
  <2>2. o \notin {"map", "step"}
    BY CmAssumption
  <2>3. CmShaped(s) /\ s.step = "mapColumns"
    BY <1>0, <2>1, <2>2 DEF CmShaped, CmFresh
  <2> HIDE DEF s
  <2>. QED
    BY <1>0, <1>4, <2>1, <2>3
\* A step of the wizard.
<1>19. ASSUME NEW step, NEW batch, CmCalm',
              \/ CmRender(cmOpen, [cmWiz EXCEPT !.step = step], cmPage)
              \/ CmRender(cmOpen, [cmWiz EXCEPT !.step = step, !.batch = batch], cmPage)
       PROVE  CmPatience'
  <2>1. PICK s \in {[cmWiz EXCEPT !.step = step], [cmWiz EXCEPT !.step = step, !.batch = batch]} :
          CmRender(cmOpen, s, cmPage)
    BY <1>19
  <2>2. DOMAIN s = DOMAIN CmFresh /\ s.map = cmWiz.map
    BY <1>0 DEF CmFresh
  <2>3. CmShaped(s)
    BY <1>0, <2>2 DEF CmShaped
  <2>. QED
    BY <1>0, <1>4, <1>19, <2>1, <2>3
<1>28. ASSUME NEW step, CmRender(cmOpen, [cmWiz EXCEPT !.step = step], cmPage), CmCalm'
       PROVE  CmPatience'
  BY <1>19, <1>28, Zenon
<1>20. CASE CmBack
  <2>1. CASE CmReady /\ CmGoto("newImport")
    <3>1. CmRender(cmOpen, [cmWiz EXCEPT !.step = "newImport"], cmPage) /\ CmCalm'
      BY <1>3, <1>5, <2>1 DEF CmGoto, CmShow
    <3>. QED
      BY <1>28, <3>1
  <2>2. CASE CmAt("fixZips") /\ CmGoto("mapColumns")
    <3>1. CmRender(cmOpen, [cmWiz EXCEPT !.step = "mapColumns"], cmPage) /\ CmCalm'
      BY <1>3, <1>6, <2>2 DEF CmGoto, CmShow
    <3>. QED
      BY <1>28, <3>1
  <2>3. CASE CmAt("schedulePicker") /\ CmGoto("fixZips")
    <3>1. CmRender(cmOpen, [cmWiz EXCEPT !.step = "fixZips"], cmPage) /\ CmCalm'
      BY <1>3, <1>6, <2>3 DEF CmGoto, CmShow
    <3>. QED
      BY <1>28, <3>1
  <2>. QED
    BY <1>20, <2>1, <2>2, <2>3 DEF CmBack
<1>21. CASE CmToPicker
  BY <1>3, <1>6, <1>19, <1>21 DEF CmToPicker, CmShow
<1>22. CASE CmPickSpeed
  <2> DEFINE s == [cmWiz EXCEPT !.batch = ~@]
  <2>1. CmRender(cmOpen, s, cmPage) /\ CmCalm' /\ cmWiz.step = "schedulePicker"
    BY <1>3, <1>6, <1>22 DEF CmPickSpeed, CmShow
  <2>2. s = [cmWiz EXCEPT !.step = "schedulePicker", !.batch = ~cmWiz.batch]
    BY <2>1
  <2>3. CmRender(cmOpen, [cmWiz EXCEPT !.step = "schedulePicker", !.batch = ~cmWiz.batch], cmPage)
    BY <2>1, <2>2
  <2>. QED
    BY <1>19, <2>1, <2>3
<1>23. CASE CmNextColumns
  <2>2. CASE CmShow([cmWiz EXCEPT !.step = "fixZips"]) /\ UNCHANGED cmCalls
    BY <1>3, <1>5, <1>19, <1>23, <2>2 DEF CmNextColumns, CmShow
  <2>3. CASE cmCalls' = [cmCalls EXCEPT !.checking = TRUE] /\ UNCHANGED <<cmOpen, cmWiz, cmPage>>
    <3>1. cmCalls'.upload = cmCalls.upload /\ cmCalls'.deletions = cmCalls.deletions
      BY <1>0, <2>3
    <3>2. CmShown(CmNow) /\ CmShown(CmNow') = CmShown(CmNow)
      BY <1>5, <1>23, <2>3 DEF CmNow, CmShown, CmNextColumns
    <3>. QED
      BY <1>5, <1>23, <2>3, <3>1, <3>2 DEF CmNextColumns, CmPatience, CmCalm
  <2>. QED
    BY <1>23, <2>2, <2>3 DEF CmNextColumns
<1>24. CASE CmChecked
  <2>1. CmCalm'
    BY <1>0, <1>24 DEF CmChecked, CmPatience, CmCalm
  <2>2. CASE CmShow(cmWiz)
    BY <1>0, <1>4, <2>1, <2>2 DEF CmShow
  <2>3. CASE CmShow([cmWiz EXCEPT !.step = "fixZips"])
    BY <1>19, <2>1, <2>3 DEF CmShow
  <2>. QED
    BY <1>24, <2>2, <2>3 DEF CmChecked
<1>25. ASSUME NEW file, CmUpload(file) PROVE CmPatience'
  <2>1. cmOpen /\ cmWiz.step = "newImport" /\ CmCalm
    BY <1>6, <1>25 DEF CmUpload, CmStart
  <2>2. cmCalls'.checking = cmCalls.checking /\ cmCalls'.deletions = cmCalls.deletions
        /\ UNCHANGED <<cmOpen, cmWiz, cmPage>>
    BY <1>0, <1>25 DEF CmUpload
  <2>3. CmShown(CmNow') = CmShown(CmNow)
    BY <2>2 DEF CmNow
  <2>. QED
    BY <2>1, <2>2, <2>3 DEF CmPatience, CmCalm
<1>26. CASE CmDeleteTemplate
  <2>1. /\ cmCalls'.checking = cmCalls.checking /\ cmCalls'.upload = cmCalls.upload
        /\ cmCalls'.deletions = {[template |-> cmWiz.template, map |-> cmWiz.map]}
        /\ UNCHANGED <<cmOpen, cmWiz, cmPage>>
    BY <1>0, <1>26 DEF CmDeleteTemplate
  <2>2. CmShown(CmNow') = CmShown(CmNow) /\ CmShown(CmNow) /\ CmCalm /\ cmPage.load = "none"
    BY <1>5, <1>26, <2>1 DEF CmNow, CmShown, CmDeleteTemplate
  <2>3. \A d \in cmCalls'.deletions : d.map = cmWiz'.map
    BY <2>1
  <2>. QED
    BY <2>1, <2>2, <2>3 DEF CmPatience, CmCalm
<1>27. CASE CmWrites
  BY <1>7, <1>8, <1>9, <1>10, <1>11, <1>12, <1>27 DEF CmWrites, CmEdits
<1>. QED
  BY <1>13, <1>14, <1>15, <1>16, <1>17, <1>18, <1>20, <1>21, <1>22, <1>23, <1>24, <1>25, <1>26, <1>27 DEF CmNext

LEMMA CmInvHolds == ASSUME CmPatient PROVE CmSpec => []CmInv
<1>1. CmInit => CmPatience
  BY CmFreshShaped DEF CmInit, CmPatience
<1>2. ASSUME CmShapes, CmPatience, [CmNext]_cmVars PROVE CmPatience'
  <2>1. CASE UNCHANGED cmVars
    BY <1>2, <2>1 DEF cmVars, CmPatience, CmNow
  <2>2. CASE CmNext
    BY <1>2, <2>2, CmInvStep
  <2>. QED
    BY <1>2, <2>1, <2>2
<1>. QED
  BY <1>1, <1>2, CmShapesHold, PTL DEF CmSpec, CmInv

\* MappedStays, for any tenants, files and templates: with such an operator the closure of a deletion holds
\* the mapping there is, and without one only a deletion puts back another.
THEOREM ColumnsKept == CmSpec => MappedStays
<1> DEFINE kept == \A k \in CmKeys :
                     \/ cmWiz.map[k] \in {CmNone, cmWiz'.map[k]}
                     \/ k = "weight" /\ cmWiz'.map[k] = CmNone /\ cmWiz.map[k] = cmWiz'.map["totalWeight"]
<1>1. ASSUME CmShapes, [CmNext]_cmVars, ~CmWrites PROVE kept
  <2>1. CASE UNCHANGED cmVars
    BY <2>1 DEF cmVars
  <2>2. CASE CmNext
    <3>1. CmDraws
      BY <1>1, <2>2, CmStepsDraw
    <3>2. CASE UNCHANGED <<cmOpen, cmWiz>>
      BY <3>2
    <3>3. ASSUME NEW open \in BOOLEAN, NEW s, NEW page, CmShaped(s), CmRender(open, s, page),
                 s.map = cmWiz.map
          PROVE  CmKeeps(cmWiz.map, cmWiz'.map)
      BY <3>3, CmRenderKeeps
    <3>. QED
      BY <1>1, <3>1, <3>2, <3>3 DEF CmDraws, CmKeeps
  <2>. QED
    BY <1>1, <2>1, <2>2
<1>2. CASE CmPatient
  <2>1. CmSpec => []CmInv
    BY <1>2, CmInvHolds
  <2>2. ASSUME CmInv, [CmNext]_cmVars
        PROVE  [CmEdits \/ (~CmPatient /\ CmDeleted) \/ kept]_cmVars
    <3>1. CmDeleted => cmWiz'.map = cmWiz.map
      BY <2>2, CmDeletedKeeps DEF CmInv
    <3>2. CmWrites => CmEdits \/ kept
      BY <3>1 DEF CmWrites
    <3>. QED
      BY <1>1, <2>2, <3>2 DEF CmInv
  <2>. QED
    BY <2>1, <2>2, PTL DEF CmSpec, MappedStays
<1>3. CASE ~CmPatient
  <2>1. ASSUME CmShapes, [CmNext]_cmVars
        PROVE  [CmEdits \/ (~CmPatient /\ CmDeleted) \/ kept]_cmVars
    BY <1>1, <1>3, <2>1 DEF CmWrites
  <2>. QED
    BY <2>1, CmShapesHold, PTL DEF CmSpec, MappedStays
<1>. QED
  BY <1>2, <1>3

-------------------------------------------------------------------------------
(* The types of the mapping, and both steps together                       *)

\* The mappings of every field to a column or to none.
CmMaps == [CmKeys -> CmAnyColumn]

LEMMA CmClaimed ==
  ASSUME NEW k, NEW alias, NEW columns, NEW free
  PROVE  \A p \in CmClaims(k, alias, columns, free) : p[4] \in free
<1> DEFINE pairs == {p \in (DOMAIN alias) \X free : CmLetters(alias[p[1]]) >= 3 /\ CmAligned(k, columns[p[2]])}
           claim(level, p) == <<level, -CmLetters(alias[p[1]]), p[1], p[2]>>
           by(level, near) == {claim(level, p) : p \in near}
           named == {p \in (DOMAIN alias) \X free : alias[p[1]] = columns[p[2]]}
           starts == {p \in pairs : CmStarts(alias[p[1]], columns[p[2]])}
           holds == {p \in pairs : CmHolds(alias[p[1]], columns[p[2]])}
           own == {<<1, 0, 0, c>> : c \in {c \in free : columns[c] \in {CmKeyWords[k], CmStrip(CmKeyWords[k])}}}
<1>1. CmClaims(k, alias, columns, free) = own \cup by(2, named) \cup by(3, starts) \cup by(4, holds)
  BY DEF CmClaims
<1>2. \A level, p : claim(level, p)[4] = p[2]
  OBVIOUS
<1>3. \A p \in own : p[4] \in free
  OBVIOUS
<1>4. named \subseteq (DOMAIN alias) \X free /\ starts \subseteq pairs /\ holds \subseteq pairs
      /\ pairs \subseteq (DOMAIN alias) \X free
  OBVIOUS
<1> HIDE DEF claim, pairs, named, starts, holds, own
<1>5. ASSUME NEW level, NEW near, near \subseteq (DOMAIN alias) \X free
      PROVE  \A p \in by(level, near) : p[4] \in free
  BY <1>2, <1>5
<1>6. /\ \A p \in by(2, named) : p[4] \in free
      /\ \A p \in by(3, starts) : p[4] \in free
      /\ \A p \in by(4, holds) : p[4] \in free
  <2> HIDE DEF by
  <2>. QED
    BY <1>4, <1>5
<1> HIDE DEF by
<1>. QED
  BY <1>1, <1>3, <1>6

\* A field is matched with a column of the file, or with none.
LEMMA CmMatchType ==
  ASSUME NEW k, NEW us, NEW job, NEW truck, NEW file \in CmFiles \cup {0}
  PROVE  CmAutoMatch(k, us, job, truck, CmHeaders(file)) \in CmAnyColumn
<1> DEFINE columns == CmHeaders(file)
           free == {c \in DOMAIN columns : CmAccepts(k, job, columns[c])}
           claims == CmClaims(k, CmStripped(CmNames(us, truck)[k]), columns, free)
           best == {a \in claims : \A b \in claims : a = b \/ CmBefore(a, b)}
<1>1. CmAutoMatch(k, us, job, truck, CmHeaders(file)) =
        IF best = {} THEN CmNone ELSE columns[(CHOOSE a \in best : TRUE)[4]]
  BY DEF CmAutoMatch, CmBest
<1>2. \A p \in claims : p[4] \in free
  BY CmClaimed
<1>3. \A c \in DOMAIN columns : columns[c] \in CmAnyColumn
  BY DEF CmHeaders, CmAnyColumn, ToSet
<1>4. CmNone \in CmAnyColumn
  BY DEF CmAnyColumn
<1>5. best \subseteq claims /\ free \subseteq DOMAIN columns
  OBVIOUS
<1> HIDE DEF best, claims, free, columns
<1>. QED
  BY <1>1, <1>2, <1>3, <1>4, <1>5

LEMMA CmMatchedType ==
  ASSUME NEW s, s.file \in CmFiles \cup {0}, s.job \in CmJobTypes
  PROVE  CmMatched(s) \in CmMaps
<1> DEFINE match(us, job, truck, file) ==
             [k \in CmKeys |-> IF k \in CmNamed(us, truck) THEN CmAutoMatch(k, us, job, truck, CmHeaders(file))
                               ELSE CmNone]
<1>1. \A us, job, truck : \A file \in CmFiles \cup {0} : match(us, job, truck, file) \in CmMaps
  <2>1. CmNone \in CmAnyColumn
    BY DEF CmAnyColumn
  <2>. QED
    BY <2>1, CmMatchType DEF CmMaps
<1>2. CmMatches = [us \in BOOLEAN |-> [truck \in BOOLEAN |-> [job \in CmJobTypes |->
                     [file \in CmFiles \cup {0} |-> match(us, job, truck, file)]]]]
  BY DEF CmMatches
<1> HIDE DEF match
<1>3. \A us \in BOOLEAN, job \in CmJobTypes, truck \in BOOLEAN, file \in CmFiles \cup {0} :
        CmMatches[us][truck][job][file] = match(us, job, truck, file)
  BY <1>2
<1>4. CmIsUs(s) \in BOOLEAN /\ CmInPlay(s) \in BOOLEAN
  BY DEF CmIsUs, CmInPlay
<1>5. \A us \in BOOLEAN, truck \in BOOLEAN : CmMatches[us][truck][s.job][s.file] \in CmMaps
  <2> SUFFICES ASSUME NEW us \in BOOLEAN, NEW truck \in BOOLEAN
               PROVE  CmMatches[us][truck][s.job][s.file] \in CmMaps
    OBVIOUS
  <2>1. CmMatches[us][truck][s.job][s.file] = match(us, s.job, truck, s.file)
    BY <1>3, Zenon
  <2>2. match(us, s.job, truck, s.file) \in CmMaps
    BY <1>1, Zenon
  <2>. QED
    BY <2>1, <2>2, Zenon
<1> DEFINE us == CmIsUs(s)
           truck == CmInPlay(s)
<1>6. us \in BOOLEAN /\ truck \in BOOLEAN
  BY <1>4
<1>7. CmMatched(s) = CmMatches[us][truck][s.job][s.file]
  BY DEF CmMatched
<1> HIDE DEF us, truck
<1>8. CmMatches[us][truck][s.job][s.file] \in CmMaps
  BY <1>5, <1>6, Zenon
<1>. QED
  BY <1>7, <1>8

LEMMA CmTruckTyped ==
  ASSUME NEW s \in CmWizards
  PROVE  CmTruckMapped(s) \in CmMaps
<1> DEFINE truck == CmFields(s) \cap (CmTruckKeys \cup {"quantity"})
           matched == CmMatched(s)
           next == [k \in CmKeys |-> IF k \in truck /\ s.map[k] = CmNone THEN matched[k] ELSE s.map[k]]
<1>1. CmTruckMapped(s) = IF next["totalWeight"] # CmNone /\ next["weight"] = next["totalWeight"]
                         THEN [next EXCEPT !["weight"] = CmNone] ELSE next
  BY DEF CmTruckMapped
<1>2. matched \in CmMaps /\ s.map \in CmMaps /\ CmNone \in CmAnyColumn
  BY CmMatchedType DEF CmWizards, CmMaps, CmAnyColumn
<1>3. next \in CmMaps
  <2> HIDE DEF matched, truck
  <2>. QED
    BY <1>2 DEF CmMaps
<1> HIDE DEF next
<1>. QED
  BY <1>1, <1>2, <1>3 DEF CmMaps

LEMMA CmEffectsTyped ==
  ASSUME NEW b, NEW r, r.wiz \in CmWizards
  PROVE  CmEffects(b, r) \in CmMaps
<1> DEFINE s == r.wiz
           matched == CmMatched(s)
<1>1. matched \in CmMaps /\ s.map \in CmMaps /\ CmTruckMapped(s) \in CmMaps
  BY CmMatchedType, CmTruckTyped DEF CmWizards, CmMaps
<1>2. CmAutoMapped(s) \in CmMaps
  <2>1. CmAutoMapped(s) = [k \in CmKeys |-> IF k \in CmFields(s) /\ s.map[k] = CmNone THEN matched[k] ELSE s.map[k]]
    BY DEF CmAutoMapped
  <2> HIDE DEF matched, s
  <2>. QED
    BY <1>1, <2>1 DEF CmMaps
<1>3. CmMatch(s, "speed") \in CmAnyColumn
  BY <1>1, CmKeysKnown DEF CmMatch, CmMaps
<1>4. \A m \in CmMaps, c \in CmAnyColumn : [m EXCEPT !["speed"] = c] \in CmMaps
  BY DEF CmMaps
<1>. QED
  BY <1>1, <1>2, <1>3, <1>4 DEF CmEffects

LEMMA CmWizardsShaped ==
  ASSUME NEW s \in CmWizards
  PROVE  /\ CmShaped(s)
         /\ \A m \in CmMaps : [s EXCEPT !.map = m] \in CmWizards
         /\ \A m : [s EXCEPT !.map = m].held = s.held /\ [s EXCEPT !.map = m].client = s.client
  BY DEF CmWizards, CmShaped, CmFresh, CmMaps

\* A render keeps the shape of the wizard, and the client and the settings that are held.
LEMMA CmRenderTyped ==
  ASSUME NEW open \in BOOLEAN, NEW s \in CmWizards, NEW page, CmRender(open, s, page)
  PROVE  cmOpen' \in BOOLEAN /\ cmWiz' \in CmWizards /\ cmWiz'.held = s.held /\ cmWiz'.client = s.client
<1> DEFINE m == CmEffects(CmNow, CmScreen(open, s))
<1>1. m \in CmMaps
  BY CmEffectsTyped DEF CmScreen
<1>2. CmOnce(open, s) = [s EXCEPT !.map = m]
  BY DEF CmOnce
<1>3. CmOnce(open, s) \in CmWizards
  BY <1>1, <1>2, CmWizardsShaped
<1>4. CmTruckMapped(CmOnce(open, s)) \in CmMaps
  BY <1>3, CmTruckTyped
<1>5. /\ cmOpen' = open
      /\ cmWiz' = [s EXCEPT !.map = IF CmTwice(open, s) THEN CmTruckMapped(CmOnce(open, s)) ELSE m]
  BY CmRendered, CmWizardsShaped
<1> HIDE DEF m
<1>6. (IF CmTwice(open, s) THEN CmTruckMapped(CmOnce(open, s)) ELSE m) \in CmMaps
  BY <1>1, <1>4
<1>. QED
  BY <1>5, <1>6, CmWizardsShaped

CmPages ==
  [settings : CmClients \cup {0}, templates : SUBSET CmTemplates, load : {"none", "live", "dropped"}]

LEMMA CmRenderPage ==
  ASSUME NEW open, NEW s, NEW page \in CmPages, CmRender(open, s, page)
  PROVE  cmPage' \in CmPages
<1> DEFINE load == CmLoading([open |-> cmOpen, wiz |-> cmWiz], [open |-> open, wiz |-> s], page.load)
<1>1. cmPage' = [page EXCEPT !.load = load]
  BY DEF CmRender, CmPages
<1>2. load \in {"none", "live", "dropped"}
  BY DEF CmLoading, CmPages
<1> HIDE DEF load
<1>. QED
  BY <1>1, <1>2 DEF CmPages

\* The arguments of a render in a step that keeps the calls.
LEMMA CmShowTyped ==
  ASSUME CmTypeOK, NEW s \in CmWizards, s.held \in {0, s.client}, NEW open \in BOOLEAN,
         CmRender(open, s, cmPage), UNCHANGED <<cmCalls, cmStored>>
  PROVE  CmTypeOK'
<1>1. cmPage \in CmPages
  BY DEF CmTypeOK, CmPages
<1>2. cmOpen' \in BOOLEAN /\ cmWiz' \in CmWizards /\ cmWiz'.held = s.held /\ cmWiz'.client = s.client
  BY CmRenderTyped
<1>3. cmPage' \in CmPages
  BY <1>1, CmRenderPage
<1>. QED
  BY <1>2, <1>3 DEF CmTypeOK, CmPages

LEMMA CmFreshTyped == CmFresh \in CmWizards /\ CmFresh.held = 0 /\ CmFresh.client = 0
<1>1. CmUnmapped \in CmMaps
  BY DEF CmUnmapped, CmMaps, CmAnyColumn
<1>2. CmFresh.map = CmUnmapped
  BY DEF CmFresh
<1> HIDE DEF CmUnmapped
<1>. QED
  BY <1>1, <1>2 DEF CmFresh, CmWizards, CmMaps, CmJobTypes

\* Every step keeps the types.
LEMMA CmTypeStep ==
  ASSUME CmTypeOK, CmAssumption, CmNext
  PROVE  CmTypeOK'
<1>0. /\ cmOpen \in BOOLEAN /\ cmWiz \in CmWizards /\ cmWiz.held \in {0, cmWiz.client}
      /\ cmPage \in CmPages
  BY DEF CmTypeOK, CmPages
<1>a. /\ cmWiz.map \in CmMaps /\ CmNone \in CmAnyColumn
      /\ \A column \in ToSet(CmHeaders(cmWiz.file)) : column \in CmAnyColumn
  <2>1. cmWiz.file \in CmFiles \cup {0} /\ cmWiz.map \in CmMaps
    BY <1>0 DEF CmWizards, CmMaps
  <2>. QED
    BY <2>1 DEF CmHeaders, CmAnyColumn, ToSet
<1>b. ASSUME NEW s \in CmWizards, s.held \in {0, s.client}, CmShow(s), UNCHANGED <<cmCalls, cmStored>>
      PROVE  CmTypeOK'
  BY <1>b, <1>0, CmShowTyped DEF CmShow
<1>c. \A m \in CmMaps : [cmWiz EXCEPT !.map = m] \in CmWizards
  BY <1>0, CmWizardsShaped
<1>1. CASE CmCloseWizard
  BY <1>0, <1>1, CmShowTyped, CmFreshTyped DEF CmCloseWizard
<1>2. CASE CmClearTemplate
  <2> DEFINE matched == CmMatched(cmWiz)
             m == [k \in CmKeys |-> IF k \in CmFields(cmWiz) THEN matched[k] ELSE CmNone]
             s == [cmWiz EXCEPT !.template = 0, !.map = m]
  <2>1. CmShow(s) /\ UNCHANGED <<cmCalls, cmStored>>
    BY <1>2 DEF CmClearTemplate, CmMatch
  <2>2. matched \in CmMaps
    BY <1>0, CmMatchedType DEF CmWizards
  <2> HIDE DEF matched
  <2>3. m \in CmMaps
    BY <2>2, <1>a DEF CmMaps
  <2> HIDE DEF m
  <2>4. s \in CmWizards /\ s.held = cmWiz.held /\ s.client = cmWiz.client
    BY <1>0, <2>3 DEF CmWizards, CmMaps
  <2> HIDE DEF s
  <2>. QED
    BY <1>0, <1>b, <2>1, <2>4
<1>3. ASSUME NEW c \in CmClients \cup {0}, CmPickClient(c) PROVE CmTypeOK'
  <2> DEFINE w == IF cmWiz.client \in {0, c} THEN cmWiz ELSE CmFresh
             s == [w EXCEPT !.client = c]
  <2>1. CmShow(s) /\ UNCHANGED <<cmCalls, cmStored>>
    BY <1>3 DEF CmPickClient
  <2>2. w \in CmWizards /\ w.held \in {0, c}
    BY <1>0, CmFreshTyped
  <2> HIDE DEF w
  <2>3. s \in CmWizards /\ s.held = w.held /\ s.client = c
    BY <2>2 DEF CmWizards
  <2> HIDE DEF s
  <2>. QED
    BY <1>b, <2>1, <2>2, <2>3
<1>4. ASSUME NEW k, NEW column, CmMapField(k, column) PROVE CmTypeOK'
  <2> DEFINE m == [cmWiz.map EXCEPT ![k] = column]
             s == [cmWiz EXCEPT !.map = m]
  <2>1. CmShow([cmWiz EXCEPT !.map[k] = column]) /\ UNCHANGED <<cmCalls, cmStored>>
    BY <1>4 DEF CmMapField
  <2>2. [cmWiz EXCEPT !.map[k] = column] = s
    OBVIOUS
  <2>3. column \in CmAnyColumn
    BY <1>4, <1>a DEF CmMapField
  <2>4. m \in CmMaps
    BY <1>a, <2>3 DEF CmMaps
  <2> HIDE DEF m
  <2>5. s \in CmWizards /\ s.held = cmWiz.held /\ s.client = cmWiz.client
    BY <1>0, <2>4 DEF CmWizards, CmMaps
  <2>6. CmShow(s)
    BY <2>1, <2>2
  <2> HIDE DEF s
  <2>. QED
    BY <1>0, <1>b, <2>1, <2>5, <2>6
<1>5. ASSUME NEW t \in CmTemplates, CmApplyTemplate(t) PROVE CmTypeOK'
  <2> DEFINE m == [k \in CmKeys |-> IF CmTemplateMap[t][k] \in ToSet(CmHeaders(cmWiz.file))
                                    THEN CmTemplateMap[t][k] ELSE CmNone]
             s == [cmWiz EXCEPT !.template = t, !.map = m]
  <2>1. CmShow(s) /\ UNCHANGED <<cmCalls, cmStored>>
    BY <1>5 DEF CmApplyTemplate
  <2>2. m \in CmMaps
    BY <1>a DEF CmMaps
  <2> HIDE DEF m
  <2>3. s \in CmWizards /\ s.held = cmWiz.held /\ s.client = cmWiz.client
    BY <1>0, <2>2 DEF CmWizards, CmMaps
  <2> HIDE DEF s
  <2>. QED
    BY <1>0, <1>b, <2>1, <2>3
<1>6. CASE CmDeleted
  <2>1. PICK d \in cmCalls.deletions :
          /\ cmCalls' = [cmCalls EXCEPT !.deletions = @ \ {d}]
          /\ \/ CmShow(cmWiz) /\ UNCHANGED cmStored
             \/ /\ cmStored' = cmStored \ {d.template}
                /\ CmRender(cmOpen, [cmWiz EXCEPT !.template = 0, !.map = d.map],
                            [cmPage EXCEPT !.templates = @ \ {d.template}])
    BY <1>6 DEF CmDeleted
  <2>2. /\ cmCalls'.upload \in CmFiles \cup {0} /\ cmCalls'.checking \in BOOLEAN
        /\ \A e \in cmCalls'.deletions : e.template \in CmTemplates /\ e.map \in CmMaps
    BY <2>1 DEF CmTypeOK, CmMaps
  <2>3. cmStored' \subseteq CmTemplates
    BY <2>1 DEF CmTypeOK
  <2>4. d.map \in CmMaps
    BY DEF CmTypeOK, CmMaps
  <2> DEFINE s == [cmWiz EXCEPT !.template = 0, !.map = d.map]
             page == [cmPage EXCEPT !.templates = @ \ {d.template}]
  <2>5. s \in CmWizards /\ s.held = cmWiz.held /\ s.client = cmWiz.client
    BY <1>0, <2>4 DEF CmWizards, CmMaps
  <2>6. page \in CmPages
    BY <1>0 DEF CmPages
  <2> HIDE DEF s, page
  <2>7. ASSUME NEW w \in CmWizards, w.held \in {0, w.client}, NEW p \in CmPages, CmRender(cmOpen, w, p)
        PROVE  CmTypeOK'
    <3>1. cmOpen' \in BOOLEAN /\ cmWiz' \in CmWizards /\ cmWiz'.held = w.held /\ cmWiz'.client = w.client
      BY <1>0, <2>7, CmRenderTyped
    <3>2. cmPage' \in CmPages
      BY <2>7, CmRenderPage
    <3>. QED
      BY <2>2, <2>3, <2>7, <3>1, <3>2 DEF CmTypeOK, CmPages, CmMaps
  <2>8. CmShow(cmWiz) \/ CmRender(cmOpen, s, page)
    BY <2>1 DEF s, page
  <2>. QED
    BY <1>0, <2>5, <2>6, <2>7, <2>8 DEF CmShow
<1>7. CASE CmOpenWizard
  BY <1>0, <1>7, CmShowTyped DEF CmOpenWizard
<1>8. ASSUME NEW s \in CmWizards, s.held \in {0, s.client}, CmShow(s), UNCHANGED cmStored,
             cmCalls'.upload \in CmFiles \cup {0}, cmCalls'.checking \in BOOLEAN,
             cmCalls'.deletions = cmCalls.deletions
      PROVE  CmTypeOK'
  <2>1. cmOpen' \in BOOLEAN /\ cmWiz' \in CmWizards /\ cmWiz'.held = s.held /\ cmWiz'.client = s.client
    BY <1>0, <1>8, CmRenderTyped DEF CmShow
  <2>2. cmPage' \in CmPages
    BY <1>0, <1>8, CmRenderPage DEF CmShow
  <2>. QED
    BY <1>8, <2>1, <2>2 DEF CmTypeOK, CmPages
<1>9. CASE CmUploaded
  <2> DEFINE s == [cmWiz EXCEPT !.file = cmCalls.upload, !.step = "mapColumns"]
  <2>1. s \in CmWizards /\ s.held = cmWiz.held /\ s.client = cmWiz.client
    BY <1>0 DEF CmTypeOK, CmWizards
  <2>2. (CmShow(cmWiz) \/ CmShow(s)) /\ UNCHANGED cmStored
    BY <1>9 DEF CmUploaded
  <2> HIDE DEF s
  <2>3. /\ cmCalls'.upload \in CmFiles \cup {0} /\ cmCalls'.checking \in BOOLEAN
        /\ cmCalls'.deletions = cmCalls.deletions
    BY <1>9 DEF CmUploaded, CmTypeOK
  <2>. QED
    BY <1>0, <1>8, <2>1, <2>2, <2>3
<1>10. CASE CmLoaded
  <2>1. PICK templates \in {cmStored, cmPage.templates} :
          CmRender(cmOpen, [cmWiz EXCEPT !.held = cmWiz.client],
                   [settings |-> cmWiz.client, templates |-> templates, load |-> "none"])
    BY <1>10 DEF CmLoaded
  <2> DEFINE s == [cmWiz EXCEPT !.held = cmWiz.client]
             page == [settings |-> cmWiz.client, templates |-> templates, load |-> "none"]
  <2>2. s \in CmWizards /\ s.held = s.client
    BY <1>0 DEF CmWizards
  <2>3. page \in CmPages
    BY <1>0 DEF CmPages, CmWizards, CmTypeOK
  <2>4. CmRender(cmOpen, s, page)
    BY <2>1
  <2> HIDE DEF s, page
  <2>5. cmOpen' \in BOOLEAN /\ cmWiz' \in CmWizards /\ cmWiz'.held = s.held /\ cmWiz'.client = s.client
    BY <1>0, <2>2, <2>4, CmRenderTyped
  <2>6. cmPage' \in CmPages
    BY <2>3, <2>4, CmRenderPage
  <2>. QED
    BY <1>10, <2>2, <2>5, <2>6 DEF CmLoaded, CmTypeOK, CmPages
<1>11. CASE CmLoadFails
  BY <1>0, <1>11 DEF CmLoadFails, CmTypeOK, CmPages
<1>12. ASSUME NEW job \in CmJobTypes, CmPickType(job) PROVE CmTypeOK'
  <2> DEFINE s == [cmWiz EXCEPT !.job = job]
  <2>1. s \in CmWizards /\ s.held = cmWiz.held /\ s.client = cmWiz.client
    BY <1>0 DEF CmWizards
  <2>2. CmShow(s) /\ UNCHANGED <<cmCalls, cmStored>>
    BY <1>12 DEF CmPickType
  <2> HIDE DEF s
  <2>. QED
    BY <1>0, <1>b, <2>1, <2>2
<1>13. ASSUME NEW file \in CmFiles, CmUpload(file) PROVE CmTypeOK'
  BY <1>13 DEF CmUpload, CmTypeOK
<1>14. ASSUME NEW o \in CmTried, CmSetOption(o) PROVE CmTypeOK'
  <2> DEFINE s == [cmWiz EXCEPT ![o] = ~@]
  <2>1. s \in CmWizards /\ s.held = cmWiz.held /\ s.client = cmWiz.client
    <3>1. o \in {"auto", "site", "contact", "stock", "trucks"}
      BY DEF CmAssumption
    <3>2. cmWiz[o] \in BOOLEAN
      BY <1>0, <3>1 DEF CmWizards
    <3> DEFINE v == ~cmWiz[o]
    <3>3. v \in BOOLEAN /\ s = [cmWiz EXCEPT ![o] = v]
      OBVIOUS
    <3> HIDE DEF v, s
    <3>4. [cmWiz EXCEPT !.auto = v] \in CmWizards /\ [cmWiz EXCEPT !.site = v] \in CmWizards
          /\ [cmWiz EXCEPT !.contact = v] \in CmWizards /\ [cmWiz EXCEPT !.stock = v] \in CmWizards
          /\ [cmWiz EXCEPT !.trucks = v] \in CmWizards
      BY <1>0, <3>3 DEF CmWizards
    <3>5. s.held = cmWiz.held /\ s.client = cmWiz.client
      BY <1>0, <3>1, <3>3 DEF CmWizards
    <3>. QED
      BY <3>1, <3>3, <3>4, <3>5
  <2>2. CmShow(s) /\ UNCHANGED <<cmCalls, cmStored>>
    BY <1>14 DEF CmSetOption
  <2> HIDE DEF s
  <2>. QED
    BY <1>0, <1>b, <2>1, <2>2
<1>15. CASE CmDeleteTemplate
  <2>1. cmWiz.template \in CmTemplates
    BY <1>0, <1>15 DEF CmDeleteTemplate, CmWizards
  <2>. QED
    BY <1>a, <1>15, <2>1 DEF CmDeleteTemplate, CmTypeOK, CmMaps
<1>16. ASSUME NEW step \in {"newImport", "mapColumns", "fixZips", "schedulePicker"}
       PROVE  /\ [cmWiz EXCEPT !.step = step] \in CmWizards
              /\ [cmWiz EXCEPT !.step = step].held = cmWiz.held
              /\ [cmWiz EXCEPT !.step = step].client = cmWiz.client
  BY <1>0 DEF CmWizards
<1>17. CASE CmNextColumns
  <2> DEFINE s == [cmWiz EXCEPT !.step = "fixZips"]
  <2>1. s \in CmWizards /\ s.held = cmWiz.held /\ s.client = cmWiz.client
    BY <1>16
  <2>2. CASE CmShow(s) /\ UNCHANGED <<cmCalls, cmStored>>
    <3> HIDE DEF s
    <3>. QED
      BY <1>0, <1>b, <2>1, <2>2
  <2>3. CASE cmCalls' = [cmCalls EXCEPT !.checking = TRUE] /\ UNCHANGED <<cmOpen, cmWiz, cmPage, cmStored>>
    BY <2>3 DEF CmTypeOK
  <2>. QED
    BY <1>17, <2>2, <2>3 DEF CmNextColumns
<1>18. CASE CmChecked
  <2> DEFINE s == [cmWiz EXCEPT !.step = "fixZips"]
  <2>1. s \in CmWizards /\ s.held = cmWiz.held /\ s.client = cmWiz.client
    BY <1>16
  <2>2. (CmShow(cmWiz) \/ CmShow(s)) /\ UNCHANGED cmStored
    BY <1>18 DEF CmChecked
  <2> HIDE DEF s
  <2>3. /\ cmCalls'.upload \in CmFiles \cup {0} /\ cmCalls'.checking \in BOOLEAN
        /\ cmCalls'.deletions = cmCalls.deletions
    BY <1>18 DEF CmChecked, CmTypeOK
  <2>. QED
    BY <1>0, <1>8, <2>1, <2>2, <2>3
<1>19. CASE CmBack
  <2>1. PICK step \in {"newImport", "mapColumns", "fixZips"} : CmGoto(step)
    BY <1>19 DEF CmBack
  <2>. QED
    BY <1>0, <1>b, <1>16, <2>1 DEF CmGoto
<1>20. CASE CmToPicker
  <2> DEFINE s == [cmWiz EXCEPT !.step = "schedulePicker", !.batch = FALSE]
  <2>1. s \in CmWizards /\ s.held = cmWiz.held /\ s.client = cmWiz.client
    BY <1>0 DEF CmWizards
  <2>2. CmShow(s) /\ UNCHANGED <<cmCalls, cmStored>>
    BY <1>20 DEF CmToPicker
  <2> HIDE DEF s
  <2>. QED
    BY <1>0, <1>b, <2>1, <2>2
<1>21. CASE CmPickSpeed
  <2> DEFINE s == [cmWiz EXCEPT !.batch = ~@]
  <2>1. s \in CmWizards /\ s.held = cmWiz.held /\ s.client = cmWiz.client
    BY <1>0 DEF CmWizards
  <2>2. CmShow(s) /\ UNCHANGED <<cmCalls, cmStored>>
    BY <1>21 DEF CmPickSpeed
  <2> HIDE DEF s
  <2>. QED
    BY <1>0, <1>b, <2>1, <2>2
<1>. QED
  BY <1>1, <1>2, <1>3, <1>4, <1>5, <1>6, <1>7, <1>9, <1>10, <1>11, <1>12, <1>13, <1>14, <1>15, <1>17, <1>18,
     <1>19, <1>20, <1>21 DEF CmNext, CmWrites, CmEdits

\* Every field of the mapping is on a column of some file or on none, the settings that are held are
\* those of the client, and a call under way holds such a mapping, whatever the effects and the
\* replies write, for every list of clients, files and templates (MapColumnsModal.tsx, wizardState.ts).
THEOREM ColumnTypesHold == CmSpec => []CmTypeOK
<1>1. CmInit => CmTypeOK
  <2> SUFFICES ASSUME CmInit PROVE CmTypeOK
    OBVIOUS
  <2>1. cmOpen \in BOOLEAN /\ cmWiz \in CmWizards /\ cmWiz.held \in {0, cmWiz.client} /\ cmStored \subseteq CmTemplates
    BY CmFreshTyped DEF CmInit
  <2>2. cmPage \in CmPages
    BY DEF CmInit, CmPages
  <2>3. cmCalls.upload = 0 /\ cmCalls.checking = FALSE /\ cmCalls.deletions = {}
    BY DEF CmInit
  <2>. QED
    BY <2>1, <2>2, <2>3 DEF CmTypeOK, CmPages
<1>2. CmTypeOK /\ [CmNext]_cmVars => CmTypeOK'
  <2>1. CmTypeOK /\ UNCHANGED cmVars => CmTypeOK'
    BY DEF CmTypeOK, cmVars
  <2>. QED
    BY <2>1, CmAssumption, CmTypeStep
<1>. QED
  BY <1>1, <1>2, PTL DEF CmSpec

\* The mapping and the corrections move apart: a behaviour of both steps is one of each, so what is
\* proved of either holds of the wizard (NewImportWizard.tsx shows one modal at a time).
THEOREM StepsKeepApart == StepsSpec => CmSpec /\ FxSpec
<1>1. StepsInit => CmInit /\ FxInit
  BY DEF StepsInit
<1>2. [StepsNext]_stepsVars => [CmNext]_cmVars /\ [FxNext]_fxVars
  BY DEF StepsNext, ColumnsMove, FixesMove, stepsVars
<1>. QED
  BY <1>1, <1>2, PTL DEF StepsSpec, CmSpec, FxSpec

\* Both steps of the wizard keep their types together (MapColumnsModal.tsx, FixAddressesModal.tsx,
\* FixZipCodesModal.tsx, FixNamesModal.tsx).
THEOREM StepsTypesHold == StepsSpec => []StepsTypeOK
<1>1. StepsInit => moving \in {"columns", "fixes"}
  BY DEF StepsInit
<1>2. moving \in {"columns", "fixes"} /\ [StepsNext]_stepsVars => (moving \in {"columns", "fixes"})'
  BY DEF StepsNext, ColumnsMove, FixesMove, stepsVars
<1>3. StepsSpec => [](moving \in {"columns", "fixes"})
  BY <1>1, <1>2, PTL DEF StepsSpec
<1>. QED
  BY <1>3, StepsKeepApart, ColumnTypesHold, FixTypesHold, PTL DEF StepsTypeOK
===============================================================================
