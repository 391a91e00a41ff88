------------------------------- MODULE Settings -------------------------------
(***************************************************************************)
(* The one row of settings and the administrators who write it: the page   *)
(* that loads the whole form and puts the whole form back, the import of a *)
(* document, and the upload of a logo or favicon, which reads the row,     *)
(* changes one path and writes the whole row.  No write compares.          *)
(*                                                                         *)
(* Of some thirty columns four stand for all: email_verify for the columns *)
(* that are taken from the form (it is also the one that is normalised),   *)
(* smtp_password for the one a blank does not overwrite, and the two       *)
(* paths.  The social links are a row of their own.                        *)
(***************************************************************************)
EXTENDS Naturals

CONSTANTS Admins,   \* administrators, each with the page open
          MaxEdits  \* bound: fields edited, documents imported, images uploaded

ASSUME SettingsAssumption == MaxEdits \in Nat

VARIABLES
    row,       \* the settings row
    links,     \* the social links row
    images,    \* the branding images on disk
    page,      \* each administrator's form
    request,   \* each administrator's request in the server
    edits      \* at most MaxEdits

settingsVars == <<row, links, images, page, request, edits>>

Modes  == {"false", "once", "always"}
Kinds  == {"logo", "favicon"}
Fields == {"verify", "smtp"} \cup Kinds
Blank  == ""
Secrets == {Blank, "secret"}
Links  == {"old", "new"}

\* A form's settings; a path is set or not.  A document may hold any mode.
Origins == {"form", "document"} \cup Kinds
Columns(modes) == [verify : modes, smtp : Secrets, logo : BOOLEAN, favicon : BOOLEAN]
Differs(r, s) == {f \in Fields : r[f] # s[f]}

\* edited: what the administrator has changed since the page was loaded.
\* stale: the row has been written since, not from this form.  raced: since the
\* request read it.
NoPage == [open |-> FALSE, settings |-> [verify |-> "false", smtp |-> Blank,
                                         logo |-> FALSE, favicon |-> FALSE],
           links |-> "old", edited |-> {}, stale |-> FALSE]
NoRequest == [at |-> "idle", body |-> NoPage.settings, links |-> "old", means |-> {},
              origin |-> "form", raced |-> FALSE]

SettingsInit ==
    /\ row = NoPage.settings /\ links = "old" /\ images = {}
    /\ page = [a \in Admins |-> NoPage]
    /\ request = [a \in Admins |-> NoRequest]
    /\ edits = 0

Idle(a) == request[a].at = "idle"

(* The page ****************************************************************)

\* GET settings and GET social.
LoadSettings(a) ==
    /\ Idle(a)
    /\ page' = [page EXCEPT ![a] = [open |-> TRUE, settings |-> row, links |-> @.links,
                                    edited |-> {}, stale |-> FALSE]]
    /\ UNCHANGED <<row, links, images, request, edits>>
LoadSocial(a) ==
    /\ Idle(a)
    /\ page' = [page EXCEPT ![a].links = links]
    /\ UNCHANGED <<row, links, images, request, edits>>

Spend == edits < MaxEdits /\ edits' = edits + 1

\* Another mode, another or a cleared SMTP password, a removed image.  A blank
\* password field asks for no change.
EditMode(a, m) ==
    page' = [page EXCEPT ![a].settings.verify = m, ![a].edited = @ \cup {"verify"}]
EditSecret(a, s) ==
    page' = [page EXCEPT ![a].settings.smtp = s,
                         ![a].edited = IF s = Blank THEN @ ELSE @ \cup {"smtp"}]
RemoveImage(a, k) ==
    page' = [page EXCEPT ![a].settings[k] = FALSE, ![a].edited = @ \cup {k}]
EditLinks(a) == page' = [page EXCEPT ![a].links = "new"]
Edit(a) ==
    /\ page[a].open /\ Idle(a) /\ Spend
    /\ \/ \E m \in Modes : EditMode(a, m)
       \/ \E s \in Secrets : EditSecret(a, s)
       \/ \E k \in Kinds : RemoveImage(a, k)
       \/ EditLinks(a)
    /\ UNCHANGED <<row, links, images, request>>

(* saveSettings ************************************************************)

\* An unknown mode is saved as "false".
AnyMode(m) == m
NormalMode(m) == IF m \in Modes THEN m ELSE "false"

\* A blank password keeps the one just read.
KeptSecret(typed, current) == IF typed = Blank THEN current ELSE typed

\* The row a form becomes.
Saved(form) == [form EXCEPT !.verify = NormalMode(@), !.smtp = KeptSecret(@, row.smtp)]

SaveRead(a, form, newLinks, means, origin) ==
    /\ Idle(a)
    /\ request' = [request EXCEPT ![a] =
         [at |-> "saving", body |-> Saved(form), links |-> newLinks, means |-> means,
          origin |-> origin, raced |-> FALSE]]
    /\ UNCHANGED <<row, links, images, page>>

\* PUT settings, with the form as it is on the page.
SaveForm(a) ==
    /\ page[a].open
    /\ SaveRead(a, page[a].settings, page[a].links, page[a].edited, "form")
    /\ UNCHANGED edits

\* POST settings/import: a document from anywhere replaces everything.
ImportDocument(a) ==
    /\ Spend
    /\ \E d \in Columns(Modes \cup {"odd"}), l \in Links : SaveRead(a, d, l, Fields, "document")

\* Whoever else has the form open, or has read the row to write it, is overtaken.
OvertakePages(a) == [b \in Admins |-> IF b = a THEN page[b] ELSE [page[b] EXCEPT !.stale = TRUE]]
OvertakeRequests(a, next) ==
    [b \in Admins |-> IF b = a THEN next
                      ELSE IF request[b].at \in {"saving", "branding"}
                           THEN [request[b] EXCEPT !.raced = TRUE] ELSE request[b]]

\* UPDATE settings: every column.  A saved form and the row agree again; an
\* import leaves the open form behind until the page has loaded it anew.
Settled(a) == IF request[a].origin = "form" THEN [page[a] EXCEPT !.edited = {}, !.stale = FALSE]
              ELSE [page[a] EXCEPT !.stale = TRUE]
SaveWrite(a) ==
    /\ request[a].at = "saving"
    /\ row' = request[a].body
    /\ page' = [OvertakePages(a) EXCEPT ![a] = Settled(a)]
    /\ request' = OvertakeRequests(a, [request[a] EXCEPT !.at = "social"])
    /\ UNCHANGED <<links, images, edits>>

\* social.Update: the page's next request, the import's next statement.
SocialWrite(a) ==
    /\ request[a].at = "social"
    /\ links' = request[a].links
    /\ request' = [request EXCEPT ![a] = NoRequest]
    /\ UNCHANGED <<row, images, page, edits>>

(* Branding ****************************************************************)

\* The file is saved, other files of its kind are removed, the row is read.
BrandRead(a, k) ==
    /\ page[a].open /\ Idle(a) /\ Spend
    /\ images' = images \cup {k}
    /\ request' = [request EXCEPT ![a] =
         [at |-> "branding", body |-> [row EXCEPT ![k] = TRUE], links |-> "old",
          means |-> {k}, origin |-> k, raced |-> FALSE]]
    /\ UNCHANGED <<row, links, page>>

\* The answer's path goes into the open form, which a later save puts back.
NotShown(a, k) == OvertakePages(a)
Shown(a, k) == [OvertakePages(a) EXCEPT ![a].settings[k] = TRUE]

\* Update of the whole row as it was read.
BrandWrite(a) ==
    /\ request[a].at = "branding"
    /\ row' = request[a].body
    /\ page' = Shown(a, request[a].origin)
    /\ request' = OvertakeRequests(a, NoRequest)
    /\ UNCHANGED <<links, images, edits>>

\* A statement fails: what has been written stays, the page keeps its form.
RequestFails(a) ==
    /\ ~Idle(a)
    /\ request' = [request EXCEPT ![a] = NoRequest]
    /\ UNCHANGED <<row, links, images, page, edits>>

SettingsNext ==
    \E a \in Admins :
        \/ LoadSettings(a) \/ LoadSocial(a) \/ Edit(a) \/ SaveForm(a) \/ ImportDocument(a)
        \/ SaveWrite(a) \/ SocialWrite(a) \/ BrandWrite(a) \/ RequestFails(a)
        \/ \E k \in Kinds : BrandRead(a, k)

SettingsSpec == SettingsInit /\ [][SettingsNext]_settingsVars

-----------------------------------------------------------------------------
\* Types: above all, the row only ever holds a mode the code knows, whatever a
\* document says.
SettingsTypeOK ==
    /\ row \in Columns(Modes) /\ links \in Links /\ images \subseteq Kinds
    /\ page \in [Admins -> [open : BOOLEAN, settings : Columns(Modes), links : Links,
                            edited : SUBSET Fields, stale : BOOLEAN]]
    /\ request \in [Admins -> [at : {"idle", "saving", "social", "branding"},
                               body : Columns(Modes), links : Links, means : SUBSET Fields,
                               origin : Origins, raced : BOOLEAN]]
    /\ edits \in 0 .. MaxEdits

\* A save changes the columns its administrator edited and no other, an image
\* its own path: neither an SMTP password left blank nor a path uploaded from
\* the page in between is lost.  It holds only between requests that do not
\* overtake each other: a form older than somebody's write, or a request that
\* read the row before it, silently puts the old values back.
Overtaken(a) == request[a].raced \/ (page[a].stale /\ request[a].at = "saving")
Writes(a) ==
    /\ request[a].at \in {"saving", "branding"}
    /\ row' = request[a].body /\ request'[a].at \in {"social", "idle"}
OnlyWhatWasEdited ==
    [][\A a \in Admins :
         Writes(a) /\ ~Overtaken(a) => Differs(row, row') \subseteq request[a].means]_settingsVars
=============================================================================
