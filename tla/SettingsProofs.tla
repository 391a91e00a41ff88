---------------------------- MODULE SettingsProofs ----------------------------
(***************************************************************************)
(* Theorems about Settings, for every set of administrators and every      *)
(* number of edits.                                                        *)
(***************************************************************************)
EXTENDS Settings, TLAPS

PageType == [open : BOOLEAN, settings : Columns(Modes), links : Links,
             edited : SUBSET Fields, stale : BOOLEAN]
RequestType == [at : {"idle", "saving", "social", "branding"},
                body : Columns(Modes), links : Links, means : SUBSET Fields,
                origin : Origins, raced : BOOLEAN]

\* Setting one path keeps a row a row; so does saving any form or document.
LEMMA PathSet ==
    ASSUME NEW r \in Columns(Modes), NEW k \in Kinds, NEW b \in BOOLEAN
    PROVE  [r EXCEPT ![k] = b] \in Columns(Modes)
<1>1. CASE k = "logo"
  BY <1>1 DEF Columns
<1>2. CASE k = "favicon"
  BY <1>2 DEF Columns
<1> QED
  BY <1>1, <1>2 DEF Kinds

LEMMA SavedType ==
    ASSUME NEW d \in Columns(Modes \cup {"odd"}), row \in Columns(Modes)
    PROVE  Saved(d) \in Columns(Modes)
<1>1. NormalMode(d.verify) \in Modes
  BY DEF NormalMode, Modes
<1>2. KeptSecret(d.smtp, row.smtp) \in Secrets
  BY DEF KeptSecret, Columns
<1> QED
  BY <1>1, <1>2 DEF Saved, Columns

LEMMA FormIsDocument == Columns(Modes) \subseteq Columns(Modes \cup {"odd"})
  BY DEF Columns

LEMMA Overtaking ==
    ASSUME SettingsTypeOK, NEW a \in Admins
    PROVE  /\ OvertakePages(a) \in [Admins -> PageType]
           /\ \A next \in RequestType : OvertakeRequests(a, next) \in [Admins -> RequestType]
<1>1. page \in [Admins -> PageType] /\ request \in [Admins -> RequestType]
  BY DEF SettingsTypeOK, PageType, RequestType
<1>2. \A b \in Admins : [page[b] EXCEPT !.stale = TRUE] \in PageType
  BY <1>1 DEF PageType
<1>3. \A b \in Admins :
        [request[b] EXCEPT !.raced = TRUE] \in RequestType
  BY <1>1 DEF RequestType
<1> QED
  BY <1>1, <1>2, <1>3 DEF OvertakePages, OvertakeRequests

\* An image's request names its path.
BrandingNamesKind ==
    \A a \in Admins : request[a].at = "branding" => request[a].origin \in Kinds

\* The row, every form and every request keep their types; a mode that is not
\* known never reaches the row.
THEOREM SettingsTypeCorrect == SettingsSpec => []SettingsTypeOK
<1> USE SettingsAssumption
<1>1. SettingsInit => SettingsTypeOK /\ BrandingNamesKind
  <2>1. NoPage \in PageType
    BY DEF NoPage, PageType, Columns, Modes, Secrets, Blank, Links, Fields
  <2>2. NoRequest \in RequestType /\ NoRequest.at = "idle"
    BY <2>1 DEF NoRequest, NoPage, PageType, RequestType, Links, Origins
  <2> QED
    BY <2>1, <2>2 DEF SettingsInit, SettingsTypeOK, BrandingNamesKind, PageType, RequestType, Links
<1>2. SettingsTypeOK /\ BrandingNamesKind /\ [SettingsNext]_settingsVars => SettingsTypeOK'
  <2> SUFFICES ASSUME SettingsTypeOK, BrandingNamesKind, [SettingsNext]_settingsVars
               PROVE  SettingsTypeOK'
    OBVIOUS
  <2>0. /\ row \in Columns(Modes) /\ links \in Links /\ images \subseteq Kinds
        /\ page \in [Admins -> PageType] /\ request \in [Admins -> RequestType]
        /\ edits \in 0 .. MaxEdits
    BY DEF SettingsTypeOK, PageType, RequestType
  <2> SUFFICES /\ row' \in Columns(Modes) /\ links' \in Links /\ images' \subseteq Kinds
               /\ page' \in [Admins -> PageType] /\ request' \in [Admins -> RequestType]
               /\ edits' \in 0 .. MaxEdits
    BY DEF SettingsTypeOK, PageType, RequestType
  <2>1. ASSUME NEW a \in Admins, LoadSettings(a) \/ LoadSocial(a)
        PROVE  page' \in [Admins -> PageType] /\ UNCHANGED <<row, links, images, request, edits>>
    <3>1. CASE LoadSettings(a)
      <4>1. [open |-> TRUE, settings |-> row, links |-> page[a].links,
             edited |-> {}, stale |-> FALSE] \in PageType
        BY <2>0 DEF PageType
      <4> QED
        BY <2>0, <3>1, <4>1 DEF LoadSettings
    <3>2. CASE LoadSocial(a)
      BY <2>0, <3>2 DEF LoadSocial, PageType
    <3> QED
      BY <2>1, <3>1, <3>2
  <2>2. ASSUME NEW a \in Admins, Edit(a)
        PROVE  /\ page' \in [Admins -> PageType] /\ edits' \in 0 .. MaxEdits
               /\ UNCHANGED <<row, links, images, request>>
    <3>1. edits' \in 0 .. MaxEdits /\ UNCHANGED <<row, links, images, request>>
      BY <2>0, <2>2 DEF Edit, Spend
    <3>2. ASSUME NEW m \in Modes, EditMode(a, m) PROVE page' \in [Admins -> PageType]
      <4>1. [page[a].settings EXCEPT !.verify = m] \in Columns(Modes)
        BY <2>0 DEF PageType, Columns
      <4> QED
        BY <2>0, <3>2, <4>1 DEF EditMode, PageType, Fields
    <3>3. ASSUME NEW s \in Secrets, EditSecret(a, s) PROVE page' \in [Admins -> PageType]
      <4>1. [page[a].settings EXCEPT !.smtp = s] \in Columns(Modes)
        BY <2>0 DEF PageType, Columns
      <4> QED
        BY <2>0, <3>3, <4>1 DEF EditSecret, PageType, Fields
    <3>4. ASSUME NEW k \in Kinds, RemoveImage(a, k) PROVE page' \in [Admins -> PageType]
      <4>1. [page[a].settings EXCEPT ![k] = FALSE] \in Columns(Modes)
        BY <2>0, PathSet DEF PageType
      <4> QED
        BY <2>0, <3>4, <4>1 DEF RemoveImage, PageType, Fields
    <3>5. ASSUME EditLinks(a) PROVE page' \in [Admins -> PageType]
      BY <2>0, <3>5 DEF EditLinks, PageType, Links
    <3> QED
      BY <2>2, <3>1, <3>2, <3>3, <3>4, <3>5 DEF Edit
  <2>3. ASSUME NEW a \in Admins, SaveForm(a)
        PROVE  request' \in [Admins -> RequestType] /\ UNCHANGED <<row, links, images, page, edits>>
    <3>1. Saved(page[a].settings) \in Columns(Modes)
      BY <2>0, SavedType, FormIsDocument DEF PageType
    <3> QED
      BY <2>0, <2>3, <3>1 DEF SaveForm, SaveRead, PageType, RequestType, Origins
  <2>4. ASSUME NEW a \in Admins, ImportDocument(a)
        PROVE  /\ request' \in [Admins -> RequestType] /\ edits' \in 0 .. MaxEdits
               /\ UNCHANGED <<row, links, images, page>>
    <3>1. PICK d \in Columns(Modes \cup {"odd"}), l \in Links :
            SaveRead(a, d, l, Fields, "document")
      BY <2>4 DEF ImportDocument
    <3>2. Saved(d) \in Columns(Modes)
      BY <2>0, SavedType
    <3> QED
      BY <2>0, <2>4, <3>1, <3>2 DEF ImportDocument, SaveRead, Spend, RequestType, Origins
  <2>5. ASSUME NEW a \in Admins, SaveWrite(a)
        PROVE  /\ row' \in Columns(Modes) /\ page' \in [Admins -> PageType]
               /\ request' \in [Admins -> RequestType] /\ UNCHANGED <<links, images, edits>>
    <3>1. [request[a] EXCEPT !.at = "social"] \in RequestType
      BY <2>0 DEF RequestType
    <3>2. Settled(a) \in PageType
      BY <2>0 DEF Settled, PageType
    <3> QED
      BY <2>0, <2>5, <3>1, <3>2, Overtaking DEF SaveWrite, RequestType
  <2>6. NoRequest \in RequestType
    BY DEF NoRequest, NoPage, RequestType, Columns, Modes, Secrets, Blank, Links, Fields, Origins
  <2>7. ASSUME NEW a \in Admins, SocialWrite(a) \/ RequestFails(a)
        PROVE  /\ request' \in [Admins -> RequestType] /\ links' \in Links
               /\ UNCHANGED <<row, images, page, edits>>
    BY <2>0, <2>6, <2>7 DEF SocialWrite, RequestFails, RequestType
  <2>8. ASSUME NEW a \in Admins, NEW k \in Kinds, BrandRead(a, k)
        PROVE  /\ request' \in [Admins -> RequestType] /\ edits' \in 0 .. MaxEdits
               /\ images' \subseteq Kinds /\ UNCHANGED <<row, links, page>>
    <3>1. [row EXCEPT ![k] = TRUE] \in Columns(Modes)
      BY <2>0, PathSet
    <3> QED
      BY <2>0, <2>8, <3>1 DEF BrandRead, Spend, RequestType, Origins, Fields, Links
  <2>9. ASSUME NEW a \in Admins, BrandWrite(a)
        PROVE  /\ row' \in Columns(Modes) /\ page' \in [Admins -> PageType]
               /\ request' \in [Admins -> RequestType] /\ UNCHANGED <<links, images, edits>>
    <3>1. OvertakePages(a)[a] \in PageType
      BY <2>0, Overtaking
    <3>2. request[a].origin \in Kinds
      BY <2>9 DEF BrandWrite, BrandingNamesKind
    <3>3. [page[a].settings EXCEPT ![request[a].origin] = TRUE] \in Columns(Modes)
      BY <2>0, <3>2, PathSet DEF PageType
    <3>4. page' \in [Admins -> PageType]
      BY <2>0, <2>9, <3>1, <3>3, Overtaking DEF BrandWrite, Shown, OvertakePages, PageType
    <3> QED
      BY <2>0, <2>6, <2>9, <3>4, Overtaking DEF BrandWrite, RequestType
  <2>10. CASE UNCHANGED settingsVars
    BY <2>0, <2>10 DEF settingsVars
  <2> QED
    BY <2>0, <2>1, <2>2, <2>3, <2>4, <2>5, <2>7, <2>8, <2>9, <2>10 DEF SettingsNext
<1>3. SettingsTypeOK /\ BrandingNamesKind /\ [SettingsNext]_settingsVars => BrandingNamesKind'
  <2> SUFFICES ASSUME SettingsTypeOK, BrandingNamesKind, [SettingsNext]_settingsVars,
                      NEW b \in Admins, request'[b].at = "branding"
               PROVE  request'[b].origin \in Kinds
    BY DEF BrandingNamesKind
  <2>0. request \in [Admins -> RequestType]
    BY DEF SettingsTypeOK, RequestType
  <2>1. ASSUME NEW a \in Admins, NEW next, request' = OvertakeRequests(a, next),
               next.at # "branding"
        PROVE  request'[b].origin \in Kinds
    BY <2>0, <2>1 DEF OvertakeRequests, BrandingNamesKind, RequestType
  <2>2. ASSUME NEW a \in Admins,
               LoadSettings(a) \/ LoadSocial(a) \/ Edit(a) \/ UNCHANGED settingsVars
        PROVE  request'[b].origin \in Kinds
    BY <2>2 DEF LoadSettings, LoadSocial, Edit, BrandingNamesKind, settingsVars
  <2>3. ASSUME NEW a \in Admins, SaveForm(a) \/ ImportDocument(a)
        PROVE  request'[b].origin \in Kinds
    BY <2>0, <2>3 DEF SaveForm, ImportDocument, SaveRead, BrandingNamesKind
  <2>4. ASSUME NEW a \in Admins, SaveWrite(a) PROVE request'[b].origin \in Kinds
    <3>1. [request[a] EXCEPT !.at = "social"].at # "branding"
      BY <2>0 DEF RequestType
    <3> QED
      BY <2>1, <2>4, <3>1 DEF SaveWrite
  <2>5. ASSUME NEW a \in Admins, SocialWrite(a) \/ RequestFails(a)
        PROVE  request'[b].origin \in Kinds
    BY <2>0, <2>5 DEF SocialWrite, RequestFails, NoRequest, BrandingNamesKind
  <2>6. ASSUME NEW a \in Admins, NEW k \in Kinds, BrandRead(a, k)
        PROVE  request'[b].origin \in Kinds
    BY <2>0, <2>6 DEF BrandRead, BrandingNamesKind
  <2>7. ASSUME NEW a \in Admins, BrandWrite(a) PROVE request'[b].origin \in Kinds
    BY <2>1, <2>7 DEF BrandWrite, NoRequest
  <2> QED
    BY <2>2, <2>3, <2>4, <2>5, <2>6, <2>7 DEF SettingsNext, BrandingNamesKind, settingsVars
<1> QED
  BY <1>1, <1>2, <1>3, PTL DEF SettingsSpec

-----------------------------------------------------------------------------
\* Why only what was edited is written.  A form that is not stale agrees with
\* the row but for what was edited and for a blank password; the body of a save
\* under way is that form; who has been raced has a stale form too; and a
\* request that is not overtaken differs from the row in what it means to
\* change, an image's request in the path that it sets.
FormCurrent(a) ==
    page[a].open /\ ~page[a].stale =>
        \A f \in Fields \ page[a].edited :
            page[a].settings[f] = row[f] \/ (f = "smtp" /\ page[a].settings[f] = Blank)
FormSent(a) ==
    request[a].at = "saving" /\ request[a].origin = "form" =>
        \A f \in Fields :
            \/ page[a].settings[f] = request[a].body[f]
            \/ f = "smtp" /\ page[a].settings[f] = Blank
RacedIsStale(a) ==
    request[a].at \in {"saving", "branding"} /\ request[a].raced => page[a].stale
RequestCurrent(a) ==
    request[a].at \in {"saving", "branding"} /\ ~Overtaken(a) =>
        Differs(row, request[a].body) \subseteq request[a].means
ImageSet(a) ==
    request[a].at = "branding" =>
        /\ request[a].origin \in Kinds /\ request[a].means = {request[a].origin}
        /\ request[a].body[request[a].origin] = TRUE
Sound(a) == FormCurrent(a) /\ FormSent(a) /\ RacedIsStale(a) /\ RequestCurrent(a) /\ ImageSet(a)
SettingsInv == SettingsTypeOK /\ \A a \in Admins : Sound(a)

\* What anybody's step does to the others: nothing, or it overtakes them.
LEMMA OthersStep ==
    ASSUME SettingsTypeOK, NEW a \in Admins, NEW b \in Admins, a # b,
           \/ LoadSettings(a) \/ LoadSocial(a) \/ Edit(a) \/ SaveForm(a) \/ ImportDocument(a)
           \/ SaveWrite(a) \/ SocialWrite(a) \/ BrandWrite(a) \/ RequestFails(a)
           \/ \E k \in Kinds : BrandRead(a, k)
    PROVE  \/ page'[b] = page[b] /\ request'[b] = request[b] /\ row' = row
           \/ /\ page'[b] = [page[b] EXCEPT !.stale = TRUE]
              /\ request'[b] = IF request[b].at \in {"saving", "branding"}
                               THEN [request[b] EXCEPT !.raced = TRUE] ELSE request[b]
<1>0. page \in [Admins -> PageType] /\ request \in [Admins -> RequestType]
  BY DEF SettingsTypeOK, PageType, RequestType
<1>1. CASE LoadSettings(a) \/ LoadSocial(a)
  BY <1>0, <1>1 DEF LoadSettings, LoadSocial
<1>2. CASE Edit(a)
  BY <1>0, <1>2 DEF Edit, EditMode, EditSecret, RemoveImage, EditLinks
<1>3. CASE SaveForm(a) \/ ImportDocument(a) \/ \E k \in Kinds : BrandRead(a, k)
  BY <1>0, <1>3 DEF SaveForm, ImportDocument, SaveRead, BrandRead
<1>4. CASE SaveWrite(a)
  BY <1>0, <1>4 DEF SaveWrite, OvertakePages, OvertakeRequests
<1>5. CASE SocialWrite(a) \/ RequestFails(a)
  BY <1>0, <1>5 DEF SocialWrite, RequestFails
<1>6. CASE BrandWrite(a)
  BY <1>0, <1>6 DEF BrandWrite, Shown, OvertakePages, OvertakeRequests
<1> QED
  BY <1>1, <1>2, <1>3, <1>4, <1>5, <1>6

\* Nobody's step harms another administrator.
LEMMA OthersStaySound ==
    ASSUME SettingsTypeOK, NEW b \in Admins, Sound(b),
           \/ page'[b] = page[b] /\ request'[b] = request[b] /\ row' = row
           \/ /\ page'[b] = [page[b] EXCEPT !.stale = TRUE]
              /\ request'[b] = IF request[b].at \in {"saving", "branding"}
                               THEN [request[b] EXCEPT !.raced = TRUE] ELSE request[b]
    PROVE  Sound(b)'
<1>0. page[b] \in PageType /\ request[b] \in RequestType
  BY DEF SettingsTypeOK, PageType, RequestType
<1>1. CASE page'[b] = page[b] /\ request'[b] = request[b] /\ row' = row
  BY <1>1 DEF Sound, FormCurrent, FormSent, RacedIsStale, RequestCurrent, ImageSet,
              Overtaken, Differs
<1>2. CASE /\ page'[b] = [page[b] EXCEPT !.stale = TRUE]
           /\ request'[b] = IF request[b].at \in {"saving", "branding"}
                            THEN [request[b] EXCEPT !.raced = TRUE] ELSE request[b]
  <2>1. /\ page'[b].stale /\ page'[b].settings = page[b].settings
        /\ request'[b].at = request[b].at /\ request'[b].body = request[b].body
        /\ request'[b].origin = request[b].origin /\ request'[b].means = request[b].means
        /\ request[b].at \in {"saving", "branding"} => request'[b].raced
    BY <1>0, <1>2 DEF PageType, RequestType
  <2> QED
    BY <2>1 DEF Sound, FormCurrent, FormSent, RacedIsStale, RequestCurrent, ImageSet, Overtaken
<1> QED
  BY <1>1, <1>2

\* Nor does one's own.
LEMMA OwnStep ==
    ASSUME SettingsTypeOK, NEW a \in Admins, Sound(a),
           \/ LoadSettings(a) \/ LoadSocial(a) \/ Edit(a) \/ SaveForm(a) \/ ImportDocument(a)
           \/ SaveWrite(a) \/ SocialWrite(a) \/ BrandWrite(a) \/ RequestFails(a)
           \/ \E k \in Kinds : BrandRead(a, k)
    PROVE  Sound(a)'
<1>0. /\ row \in Columns(Modes) /\ page \in [Admins -> PageType]
      /\ request \in [Admins -> RequestType] /\ page[a] \in PageType /\ request[a] \in RequestType
  BY DEF SettingsTypeOK, PageType, RequestType
<1>1. ASSUME Idle(a)', FormCurrent(a)' PROVE Sound(a)'
  BY <1>1 DEF Idle, Sound, FormSent, RacedIsStale, RequestCurrent, ImageSet
<1>2. CASE LoadSettings(a)
  <2>1. page'[a].settings = row /\ row' = row /\ request' = request
    BY <1>0, <1>2 DEF LoadSettings
  <2> QED
    BY <1>1, <1>2, <2>1 DEF LoadSettings, Idle, FormCurrent
<1>3. CASE LoadSocial(a)
  <2>1. /\ page'[a].settings = page[a].settings /\ page'[a].open = page[a].open
        /\ page'[a].stale = page[a].stale /\ page'[a].edited = page[a].edited
        /\ row' = row /\ request' = request
    BY <1>0, <1>3 DEF LoadSocial, PageType
  <2> QED
    BY <1>1, <1>3, <2>1 DEF LoadSocial, Idle, Sound, FormCurrent
<1>4. CASE Edit(a)
  <2>0. row' = row /\ request' = request /\ Idle(a)
    BY <1>4 DEF Edit
  <2>1. ASSUME NEW m \in Modes, EditMode(a, m) PROVE FormCurrent(a)'
    BY <1>0, <2>0, <2>1 DEF EditMode, PageType, Columns, Fields, Kinds, Sound, FormCurrent
  <2>2. ASSUME NEW s \in Secrets, EditSecret(a, s) PROVE FormCurrent(a)'
    BY <1>0, <2>0, <2>2 DEF EditSecret, PageType, Columns, Fields, Kinds, Sound, FormCurrent
  <2>3. ASSUME NEW k \in Kinds, RemoveImage(a, k) PROVE FormCurrent(a)'
    BY <1>0, <2>0, <2>3 DEF RemoveImage, PageType, Columns, Fields, Kinds, Sound, FormCurrent
  <2>4. ASSUME EditLinks(a) PROVE FormCurrent(a)'
    BY <1>0, <2>0, <2>4 DEF EditLinks, PageType, Sound, FormCurrent
  <2> QED
    BY <1>1, <1>4, <2>0, <2>1, <2>2, <2>3, <2>4 DEF Edit, Idle
<1>5. CASE SaveForm(a)
  <2>1. /\ request'[a].at = "saving" /\ request'[a].origin = "form"
        /\ request'[a].body = Saved(page[a].settings) /\ request'[a].means = page[a].edited
        /\ ~request'[a].raced /\ row' = row /\ page' = page /\ page[a].open
    BY <1>0, <1>5 DEF SaveForm, SaveRead
  <2>2. \A f \in Fields : \/ page[a].settings[f] = Saved(page[a].settings)[f]
                          \/ f = "smtp" /\ page[a].settings[f] = Blank
    BY <1>0 DEF Saved, NormalMode, KeptSecret, PageType, Columns, Fields, Kinds
  <2>3. ASSUME ~page[a].stale, NEW f \in Fields \ page[a].edited
        PROVE  Saved(page[a].settings)[f] = row[f]
    <3>1. page[a].settings[f] = row[f] \/ (f = "smtp" /\ page[a].settings[f] = Blank)
      BY <2>1, <2>3 DEF Sound, FormCurrent
    <3> QED
      BY <1>0, <3>1 DEF Saved, NormalMode, KeptSecret, PageType, Columns, Fields, Kinds
  <2> QED
    BY <2>1, <2>2, <2>3 DEF Sound, FormCurrent, FormSent, RacedIsStale, RequestCurrent,
                            ImageSet, Overtaken, Differs
<1>6. CASE ImportDocument(a)
  <2>1. /\ request'[a].at = "saving" /\ request'[a].origin = "document"
        /\ request'[a].means = Fields /\ ~request'[a].raced /\ row' = row /\ page' = page
    BY <1>0, <1>6 DEF ImportDocument, SaveRead
  <2> QED
    BY <2>1 DEF Sound, FormCurrent, FormSent, RacedIsStale, RequestCurrent, ImageSet, Differs
<1>7. CASE SaveWrite(a)
  <2>1. /\ request'[a] = [request[a] EXCEPT !.at = "social"] /\ row' = request[a].body
        /\ page'[a] = Settled(a) /\ request[a].at = "saving"
    BY <1>0, <1>7, Overtaking DEF SaveWrite, OvertakeRequests
  <2>2. request'[a].at = "social"
    BY <1>0, <2>1 DEF RequestType
  <2>3. CASE request[a].origin = "form"
    <3>1. page'[a].settings = page[a].settings
      BY <1>0, <2>1, <2>3 DEF Settled, PageType
    <3> QED
      BY <2>1, <2>2, <2>3, <3>1 DEF Sound, FormCurrent, FormSent, RacedIsStale,
                                    RequestCurrent, ImageSet
  <2>4. CASE request[a].origin # "form"
    <3>1. page'[a].stale
      BY <1>0, <2>1, <2>4 DEF Settled, PageType
    <3> QED
      BY <2>2, <3>1 DEF Sound, FormCurrent, FormSent, RacedIsStale, RequestCurrent, ImageSet
  <2> QED
    BY <2>3, <2>4
<1>8. CASE SocialWrite(a) \/ RequestFails(a)
  <2>1. request'[a].at = "idle" /\ row' = row /\ page' = page
    BY <1>0, <1>8 DEF SocialWrite, RequestFails, NoRequest
  <2> QED
    BY <1>1, <2>1 DEF Idle, Sound, FormCurrent
<1>9. ASSUME NEW k \in Kinds, BrandRead(a, k) PROVE Sound(a)'
  <2>1. /\ request'[a].at = "branding" /\ request'[a].origin = k /\ request'[a].means = {k}
        /\ request'[a].body = [row EXCEPT ![k] = TRUE] /\ ~request'[a].raced
        /\ row' = row /\ page' = page
    BY <1>0, <1>9 DEF BrandRead
  <2>2. request'[a].body[k] = TRUE /\ \A f \in Fields \ {k} : request'[a].body[f] = row[f]
    BY <1>0, <2>1 DEF Columns, Fields, Kinds
  <2> QED
    BY <2>1, <2>2 DEF Sound, FormCurrent, FormSent, RacedIsStale, RequestCurrent, ImageSet, Differs
<1>10. CASE BrandWrite(a)
  <2>1. /\ request'[a] = NoRequest /\ row' = request[a].body /\ request[a].at = "branding"
        /\ page' = Shown(a, request[a].origin)
    BY <1>0, <1>10 DEF BrandWrite, OvertakeRequests
  <2>2. request[a].origin \in Kinds /\ request[a].body[request[a].origin] = TRUE
    BY <2>1 DEF Sound, ImageSet
  <2>3. /\ page'[a].open = page[a].open /\ page'[a].stale = page[a].stale
        /\ page'[a].edited = page[a].edited
        /\ page'[a].settings = [page[a].settings EXCEPT ![request[a].origin] = TRUE]
    BY <1>0, <2>1, <2>2 DEF Shown, OvertakePages, PageType
  <2>4. \A f \in Fields \ {request[a].origin} : page'[a].settings[f] = page[a].settings[f]
    BY <1>0, <2>2, <2>3 DEF PageType, Columns, Fields, Kinds
  <2>5. page'[a].settings[request[a].origin] = TRUE
    BY <1>0, <2>2, <2>3 DEF PageType, Columns, Fields, Kinds
  <2>6. ASSUME ~page[a].stale, NEW f \in Fields \ {request[a].origin}
        PROVE  request[a].body[f] = row[f]
    BY <2>1, <2>6 DEF Sound, RacedIsStale, RequestCurrent, Overtaken, Differs, ImageSet
  <2>7. FormCurrent(a)'
    <3>1. ASSUME page[a].open, ~page[a].stale, NEW f \in Fields \ page[a].edited
          PROVE  \/ page'[a].settings[f] = request[a].body[f]
                 \/ f = "smtp" /\ page'[a].settings[f] = Blank
      <4>1. CASE f = request[a].origin
        BY <2>2, <2>5, <4>1
      <4>2. CASE f # request[a].origin
        <5>1. page[a].settings[f] = row[f] \/ (f = "smtp" /\ page[a].settings[f] = Blank)
          BY <3>1 DEF Sound, FormCurrent
        <5>2. page'[a].settings[f] = page[a].settings[f] /\ request[a].body[f] = row[f]
          BY <2>4, <2>6, <3>1, <4>2
        <5> QED
          BY <5>1, <5>2
      <4> QED
        BY <4>1, <4>2
    <3> QED
      BY <2>1, <2>3, <3>1 DEF FormCurrent
  <2> QED
    BY <1>1, <2>1, <2>7 DEF NoRequest, Idle
<1> QED
  BY <1>2, <1>3, <1>4, <1>5, <1>6, <1>7, <1>8, <1>9, <1>10

\* For any number of administrators: a save that nobody overtakes changes the
\* columns its administrator edited and no other, an image's its own path.
THEOREM WritesOnlyWhatWasEdited == SettingsSpec => OnlyWhatWasEdited
<1>1. SettingsInit => \A a \in Admins : Sound(a)
  <2> SUFFICES ASSUME SettingsInit, NEW a \in Admins PROVE Sound(a)
    OBVIOUS
  <2>1. ~page[a].open /\ request[a].at = "idle"
    BY DEF SettingsInit, NoPage, NoRequest
  <2> QED
    BY <2>1 DEF Sound, FormCurrent, FormSent, RacedIsStale, RequestCurrent, ImageSet
<1>2. SettingsTypeOK /\ (\A a \in Admins : Sound(a)) /\ [SettingsNext]_settingsVars
      => (\A a \in Admins : Sound(a))'
  <2> SUFFICES ASSUME SettingsTypeOK, \A a \in Admins : Sound(a), [SettingsNext]_settingsVars,
                      NEW b \in Admins
               PROVE  Sound(b)'
    OBVIOUS
  <2>1. CASE UNCHANGED settingsVars
    BY <2>1, OthersStaySound DEF settingsVars
  <2>2. ASSUME NEW a \in Admins,
               \/ LoadSettings(a) \/ LoadSocial(a) \/ Edit(a) \/ SaveForm(a) \/ ImportDocument(a)
               \/ SaveWrite(a) \/ SocialWrite(a) \/ BrandWrite(a) \/ RequestFails(a)
               \/ \E k \in Kinds : BrandRead(a, k)
        PROVE  Sound(b)'
    <3>1. CASE a = b
      BY <2>2, <3>1, OwnStep
    <3>2. CASE a # b
      BY <2>2, <3>2, OthersStep, OthersStaySound
    <3> QED
      BY <3>1, <3>2
  <2> QED
    BY <2>1, <2>2 DEF SettingsNext
<1>3. SettingsTypeOK /\ (\A a \in Admins : Sound(a))
      => \A a \in Admins :
           Writes(a) /\ ~Overtaken(a) => Differs(row, row') \subseteq request[a].means
  BY DEF Writes, Sound, RequestCurrent
<1> QED
  BY <1>1, <1>2, <1>3, SettingsTypeCorrect, PTL DEF SettingsSpec, OnlyWhatWasEdited
=============================================================================
