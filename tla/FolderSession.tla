--------------------------- MODULE FolderSession ---------------------------
(***************************************************************************)
(* One tab of the editor: its session (signed out, signed in to an account *)
(* of the cloud, or working in a local folder), and how the drafts kept in *)
(* this browser move to the backend of the session.                        *)
(*                                                                         *)
(* Starting a folder session, signing in and pushing drafts are chains of  *)
(* awaits.  A chain in progress is a call: where it waits and what it      *)
(* captured.  The user edits, disconnects, signs in and out and reloads    *)
(* between any two steps of it; a request that was sent may be carried out *)
(* after its caller gave up on it.                                         *)
(***************************************************************************)
EXTENDS Naturals, Sequences

CONSTANTS
    Accounts,     \* users of the cloud
    Folder,       \* the folder: the token of its session, and its backend
    None,         \* no account, no token, no backend, no document
    Docs,         \* documents: what a client_draft_id names
    Pulled,       \* the account each document was pulled from, or None
    First,        \* the local drafts at the start: local id to document
    MaxId,        \* bound on local ids
    MaxText,      \* bound on texts: each edit makes a new one
    MaxCommands   \* bound on the commands that start something

ASSUME SessionAssumption ==
    /\ Folder \notin Accounts /\ None \notin Accounts \cup {Folder} \cup Docs
    /\ Pulled \in [Docs -> Accounts \cup {None}]
    /\ MaxId \in Nat /\ MaxText \in Nat /\ MaxCommands \in Nat
    /\ First \in [1..MaxId -> Docs \cup {None}]

VARIABLES
    mode,      \* the storage mode: "folder" or "cloud" (browserOrCloud)
    active,    \* whether the folder answers requests
    opened,    \* the folder became active: its session is about to start
    key,       \* the shared record says the folder is connected
    token,     \* _token
    profile,   \* whose profile the app shows
    saved,     \* the persisted session
    owner,     \* local_data_owner
    pushed,    \* this app pushed its browser data into the folder once
    local,     \* _localDrafts: the draft of each local id
    stored,    \* the drafts as persisted
    ids,       \* the last local id given out
    trash,     \* the local recycle bin
    note,      \* the notes of each document on each backend
    call,      \* the calls in progress
    late,      \* requests whose caller is gone
    wire,      \* the tokens of the requests that reached the network
    newest,    \* the last text the user saved of each document
    texts,     \* how many texts the user has written
    commands   \* how many commands the user has given

session == <<mode, active, opened, key, token, profile, saved, owner, pushed>>
drafts == <<local, stored, ids, trash>>
history == <<newest, texts, commands>>
vars == <<session, drafts, note, call, late, wire, history>>

-----------------------------------------------------------------------------
Ids == 1..MaxId
Texts == 0..MaxText
Tokens == Accounts \cup {Folder, None}
Backends == Accounts \cup {Folder}

Draft == [doc: Docs, text: Texts]
NoDraft == [doc |-> None, text |-> 0]

\* A create or update request of a push; look is what the cloud's lookup by
\* client_draft_id found.
Request == [to: Backends, draft: Draft, update: BOOLEAN, look: {"no", "found", "missing"}]
NoRequest == [to |-> None, draft |-> NoDraft, update |-> FALSE, look |-> "no"]

\* The chains: _startFolderSession, signing in (or restoring the saved
\* session), and the "Sync all" button.
Chains == {"session", "signin", "push"}
Waits == {"none", "check", "auth", "settings", "load", "next", "sent", "done", "saving"}

\* as: the token of the payload.  mayPush: the drafts are not foreign.  todo:
\* the drafts a push captured.  cur: the local id it is at.
Call == [at: Waits, as: Tokens, mayPush: BOOLEAN,
         todo: [Ids -> Draft \cup {NoDraft}], cur: Ids \cup {0},
         req: Request \cup {NoRequest}]
NoCall == [at |-> "none", as |-> None, mayPush |-> FALSE,
           todo |-> [i \in Ids |-> NoDraft], cur |-> 0, req |-> NoRequest]

At(f, wait) == call[f].at = wait
Becomes(f, c) == call' = [call EXCEPT ![f] = c]
Signs(tok) == token' = tok /\ profile' = tok

\* Mutant of Route: no look at the token.
RouteUnchecked(tok) == IF mode = "folder" THEN IF active THEN Folder ELSE None ELSE tok

\* Where StorageModeClient sends a request with this token, by the mode of
\* now; None: it is answered in the page with a 503.
Route(tok) ==
    CASE mode = "folder" -> IF active THEN Folder ELSE None
      [] mode = "cloud"  -> IF tok = Folder THEN None ELSE tok

\* The tokens on the network once a request with tok is sent.
Sent(tok) == IF mode = "cloud" /\ Route(tok) # None THEN wire \cup {tok} ELSE wire

-----------------------------------------------------------------------------
(* The backends *)

\* Whether the backend of request r has a note of its document.
Exists(r) == note[r.to][r.draft.doc] # <<>>

\* The cloud's view first looks for a note with the client_draft_id.
Looks(r) == r.to \in Accounts /\ ~r.update /\ r.look = "no"
Looked(r) == [r EXCEPT !.look = IF Exists(r) THEN "found" ELSE "missing"]

\* Mutant of Writes: no unique constraint on creator and client_draft_id.
WritesUnconstrained(r) ==
    \/ r.to = Folder /\ ~r.update /\ mode = "folder"
    \/ r.to \in Accounts /\ (r.update \/ r.look # "no")

\* Request r can be carried out.  In the folder lookup and write are one step
\* under the exclusive lock, and the journal is gone once the tab has left the
\* folder; in the cloud a note that appeared after the lookup violates the
\* unique constraint.  An update names a note of the cloud.
Writes(r) ==
    \/ r.to = Folder /\ ~r.update /\ mode = "folder"
    \/ r.to \in Accounts /\ (r.update \/ r.look = "found")
    \/ r.to \in Accounts /\ r.look = "missing" /\ ~Exists(r)

\* The notes once it is: a create that found no note adds one.
Written(r) ==
    [note EXCEPT ![r.to][r.draft.doc] =
        IF r.look = "missing" \/ @ = <<>> THEN Append(@, r.draft.text)
                                          ELSE [@ EXCEPT ![1] = r.draft.text]]

\* The backend works on the request of call f.
Serve(f) ==
    /\ At(f, "sent")
    /\ LET r == call[f].req
       IN \/ /\ Looks(r)
             /\ Becomes(f, [call[f] EXCEPT !.req = Looked(r)])
             /\ UNCHANGED note
          \/ /\ Writes(r)
             /\ note' = Written(r)
             /\ Becomes(f, [call[f] EXCEPT !.at = "done"])
    /\ UNCHANGED <<session, drafts, late, wire, history>>

\* It works on a request nobody waits for, or such a request fails.
ServeLate ==
    /\ \E r \in late :
         \/ Looks(r) /\ late' = (late \ {r}) \cup {Looked(r)} /\ UNCHANGED note
         \/ Writes(r) /\ note' = Written(r) /\ late' = late \ {r}
         \/ late' = late \ {r} /\ UNCHANGED note
    /\ UNCHANGED <<session, drafts, call, wire, history>>

-----------------------------------------------------------------------------
(* Starting a session *)

\* A chain ends; the session of a folder records that the push was made.
Ends(f) ==
    /\ Becomes(f, NoCall)
    /\ pushed' = (pushed \/ f = "session")

\* The folder has opened: its session starts, unless one is starting.  On the
\* first start in the folder the token comes before the session is checked.
StartSession ==
    /\ opened
    /\ opened' = FALSE
    /\ IF mode = "folder" /\ active /\ At("session", "none")
       THEN /\ token' = IF pushed THEN token ELSE Folder
            /\ Becomes("session", [NoCall EXCEPT !.at = "check", !.as = Folder])
            /\ wire' = Sent(Folder)
       ELSE UNCHANGED <<token, call, wire>>
    /\ UNCHANGED <<mode, active, key, profile, saved, owner, pushed, drafts, note, late, history>>

\* Mutant of CheckFails: the token set for the first push is kept.
CheckFailsSignedIn ==
    /\ At("session", "check")
    /\ Becomes("session", NoCall)
    /\ UNCHANGED <<session, drafts, note, late, wire, history>>

\* checkSession fails, or is refused in the page because the folder is left
\* by now: a token without a profile is taken back.
CheckFails ==
    /\ At("session", "check")
    /\ token' = IF profile = None THEN None ELSE token
    /\ Becomes("session", NoCall)
    /\ UNCHANGED <<mode, active, opened, key, profile, saved, owner, pushed,
                   drafts, note, late, wire, history>>

\* checkSession answers, and applyAuthPayload asks for the settings.
CheckAnswers ==
    /\ At("session", "check")
    /\ Becomes("session", [call["session"] EXCEPT !.at = "settings"])
    /\ wire' = Sent(Folder)
    /\ UNCHANGED <<session, drafts, note, late, history>>

\* The login, or the check of the saved session, answers with a payload.
SignInAnswers ==
    /\ At("signin", "auth")
    /\ Becomes("signin", [call["signin"] EXCEPT !.at = "settings"])
    /\ wire' = Sent(call["signin"].as)
    /\ UNCHANGED <<session, drafts, note, late, history>>

\* It fails: a saved session that was being restored goes, or stays saved when
\* startup ran out of time.
SignInFails ==
    /\ At("signin", "auth")
    /\ saved' \in {saved, None}
    /\ Becomes("signin", NoCall)
    /\ UNCHANGED <<mode, active, opened, key, token, profile, owner, pushed,
                   drafts, note, late, wire, history>>

\* Mutant of SettingsAnswer: every session is persisted, the folder's too.
SettingsAnswerPersisting(f) ==
    LET c == call[f]
        cloud == c.as \in Accounts
    IN /\ At(f, "settings")
       /\ Signs(c.as)
       /\ saved' = c.as
       /\ owner' = IF cloud /\ owner = None THEN c.as ELSE owner
       /\ Becomes(f, [c EXCEPT !.at = "load", !.mayPush = cloud => owner \in {None, c.as}])
       /\ wire' = Sent(c.as)
       /\ UNCHANGED <<mode, active, opened, key, pushed, drafts, note, late, history>>

\* The settings answered or failed: the payload's session is established and,
\* for an account, persisted; its local data is claimed or found foreign.
SettingsAnswer(f) ==
    LET c == call[f]
        cloud == c.as \in Accounts
    IN /\ At(f, "settings")
       /\ Signs(c.as)
       /\ saved' = IF cloud THEN c.as ELSE saved
       /\ owner' = IF cloud /\ owner = None THEN c.as ELSE owner
       /\ Becomes(f, [c EXCEPT !.at = "load", !.mayPush = cloud => owner \in {None, c.as}])
       /\ wire' = Sent(c.as)
       /\ UNCHANGED <<mode, active, opened, key, pushed, drafts, note, late, history>>

\* loadInitialData ends; two rejected requests sign the account out.  Then the
\* push captures the drafts, if they may be pushed.
LoadEnds(f) ==
    /\ At(f, "load")
    /\ \/ UNCHANGED <<token, profile, saved>>
       \/ mode = "cloud" /\ token \in Accounts /\ Signs(None) /\ saved' = None
    /\ IF call[f].mayPush
       THEN Becomes(f, [call[f] EXCEPT !.at = "next", !.todo = local]) /\ UNCHANGED pushed
       ELSE Ends(f)
    /\ UNCHANGED <<mode, active, opened, key, owner, drafts, note, late, wire, history>>

-----------------------------------------------------------------------------
(* Pushing drafts *)

\* The draft of call f is done with, one way or the other.
Dropped(f) ==
    [call[f] EXCEPT !.at = "next", !.todo[call[f].cur] = NoDraft, !.cur = 0, !.req = NoRequest]

\* The next captured draft is sent with the token of now: as an update when it
\* was pulled from the account the app shows now.  Without a token, or where
\* the request is refused, the draft stays.
PushNext(f) ==
    LET c == call[f]
    IN /\ At(f, "next")
       /\ \E i \in Ids :
            /\ c.todo[i] # NoDraft /\ \A j \in Ids : c.todo[j] # NoDraft => i <= j
            /\ LET r == [to |-> Route(token), draft |-> c.todo[i], look |-> "no",
                         update |-> profile \in Accounts /\ Pulled[c.todo[i].doc] = profile]
               IN IF token = None \/ r.to = None
                  THEN /\ Becomes(f, [c EXCEPT !.todo[i] = NoDraft])
                       /\ UNCHANGED wire
                  ELSE /\ Becomes(f, [c EXCEPT !.at = "sent", !.cur = i, !.req = r])
                       /\ wire' = Sent(token)
       /\ UNCHANGED <<session, drafts, note, late, history>>

\* Mutant of PushFails: an error answer counts as success.
PushFailsRemoving(f) ==
    /\ call[f].at \in {"sent", "done"}
    /\ Becomes(f, [call[f] EXCEPT !.at = "saving"])
    /\ local' = [local EXCEPT ![call[f].cur] = NoDraft]
    /\ UNCHANGED <<session, stored, ids, trash, note, late, wire, history>>

\* The request fails, or its answer is lost, while the backend may still carry
\* it out: the draft stays for the next sync.
PushFails(f) ==
    /\ call[f].at \in {"sent", "done"}
    /\ Becomes(f, Dropped(f))
    /\ late' \in {late} \cup IF At(f, "sent") THEN {late \cup {call[f].req}} ELSE {}
    /\ UNCHANGED <<session, drafts, note, wire, history>>

\* The answer of a create: the draft with that local id goes, and the captured
\* draft goes to the recycle bin.  That of an update: the captured draft takes
\* the place of the one with that id.
PushAnswered(f) ==
    LET c == call[f]
        i == c.cur
    IN /\ At(f, "done")
       /\ IF c.req.update
          THEN /\ local' = [local EXCEPT ![i] = IF @ = NoDraft THEN @ ELSE c.req.draft]
               /\ UNCHANGED trash
          ELSE /\ local' = [local EXCEPT ![i] = NoDraft]
               /\ trash' = trash \cup {c.req.draft}
       /\ Becomes(f, [c EXCEPT !.at = "saving"])
       /\ UNCHANGED <<session, stored, ids, note, late, wire, history>>

\* The drafts are persisted.
DraftsSaved(f) ==
    /\ At(f, "saving")
    /\ stored' = local
    /\ Becomes(f, Dropped(f))
    /\ UNCHANGED <<session, local, ids, trash, note, late, wire, history>>

\* Every captured draft was tried: the drafts are persisted and the chain ends.
PushEnds(f) ==
    /\ At(f, "next")
    /\ \A i \in Ids : call[f].todo[i] = NoDraft
    /\ stored' = local
    /\ Ends(f)
    /\ UNCHANGED <<mode, active, opened, key, token, profile, saved, owner,
                   local, ids, trash, note, late, wire, history>>

CallStep(f) ==
    \/ f = "session" /\ (CheckFails \/ CheckAnswers)
    \/ f = "signin" /\ (SignInFails \/ SignInAnswers)
    \/ SettingsAnswer(f) \/ LoadEnds(f)
    \/ PushNext(f) \/ PushFails(f) \/ PushAnswered(f) \/ DraftsSaved(f) \/ PushEnds(f)

-----------------------------------------------------------------------------
(* The user *)

\* A local draft is edited and saved, wherever its push may be.
Edit(i) ==
    /\ texts < MaxText /\ local[i] # NoDraft
    /\ texts' = texts + 1
    /\ local' = [local EXCEPT ![i].text = texts']
    /\ stored' = local'
    /\ newest' = [newest EXCEPT ![local[i].doc] = texts']
    /\ UNCHANGED <<session, ids, trash, note, call, late, wire, commands>>

\* A recycle-bin entry becomes a draft with a fresh local id and the same
\* client_draft_id.
Restore(d) ==
    /\ d \in trash /\ ids < MaxId
    /\ ids' = ids + 1
    /\ local' = [local EXCEPT ![ids'] = d]
    /\ stored' = local'
    /\ trash' = trash \ {d}
    /\ UNCHANGED <<session, note, call, late, wire, history>>

Command == commands < MaxCommands /\ commands' = commands + 1 /\ UNCHANGED <<newest, texts>>

\* The signed-out app connects a folder, or uses the connected one.
Connect ==
    /\ mode = "cloud" /\ profile = None
    /\ Command
    /\ mode' = "folder" /\ active' = TRUE /\ opened' = TRUE /\ key' = TRUE
    /\ UNCHANGED <<token, profile, saved, owner, pushed, drafts, note, call, late, wire>>

\* Disconnect, also as the sign-out of a folder session: the folder stops
\* answering and the session is cleared, before the first await.
Disconnect ==
    /\ (mode = "folder" /\ active) \/ profile = Folder
    /\ active' = FALSE /\ Signs(None)
    /\ UNCHANGED <<mode, opened, key, saved, owner, pushed, drafts, note, call, late, wire, history>>

\* The shared record goes, and then the mode changes.
Leaves ==
    /\ mode = "folder" /\ ~active
    /\ key' = FALSE /\ mode' = "cloud"
    /\ UNCHANGED <<active, opened, token, profile, saved, owner, pushed,
                   drafts, note, call, late, wire, history>>

\* The sign-in dialog of the signed-out app submits.
SignIn(a) ==
    /\ mode = "cloud" /\ profile = None /\ At("signin", "none")
    /\ Command
    /\ Becomes("signin", [NoCall EXCEPT !.at = "auth", !.as = a])
    /\ UNCHANGED <<session, drafts, note, late, wire>>

\* An account signs out; calls in progress go on.
SignOut ==
    /\ profile \in Accounts
    /\ Signs(None) /\ saved' = None
    /\ UNCHANGED <<mode, active, opened, key, owner, pushed, drafts, note, call, late, wire, history>>

\* "Sync all" captures the drafts; the button is not off while a push runs.
SyncAll ==
    /\ token # None /\ At("push", "none") /\ \E i \in Ids : local[i] # NoDraft
    /\ Command
    /\ Becomes("push", [NoCall EXCEPT !.at = "next", !.todo = local])
    /\ UNCHANGED <<session, drafts, note, late, wire>>

\* The page is closed, or crashes, and loads again: what is persisted is left.
\* A saved session wins over the connected folder.  Requests on the network
\* are carried out all the same.
Reload ==
    /\ Command
    /\ mode' = IF key /\ saved = None THEN "folder" ELSE "cloud"
    /\ active' = (mode' = "folder") /\ opened' = active'
    /\ Signs(None)
    /\ local' = stored
    /\ call' = [f \in Chains |->
                  IF f = "signin" /\ saved # None THEN [NoCall EXCEPT !.at = "auth", !.as = saved]
                                                  ELSE NoCall]
    /\ late' = {r \in late \cup {call[f].req : f \in {g \in Chains : At(g, "sent")}} :
                  r.to \in Accounts}
    /\ UNCHANGED <<key, saved, owner, pushed, stored, ids, trash, note, wire>>

User ==
    \/ \E i \in Ids : Edit(i)
    \/ \E d \in trash : Restore(d)
    \/ Connect \/ Disconnect \/ SignOut \/ SyncAll \/ Reload
    \/ \E a \in Accounts : SignIn(a)

-----------------------------------------------------------------------------
Init ==
    /\ mode = "cloud" /\ active = FALSE /\ opened = FALSE /\ key = FALSE
    /\ token = None /\ profile = None /\ saved = None /\ owner = None /\ pushed = FALSE
    /\ local = [i \in Ids |-> [doc |-> First[i], text |-> 0]]
    /\ stored = local
    /\ ids \in Ids \cup {0} /\ \A i \in Ids : (First[i] # None) = (i <= ids)
    /\ trash = {}
    /\ note = [b \in Backends |-> [d \in Docs |-> IF Pulled[d] = b THEN <<0>> ELSE <<>>]]
    /\ call = [f \in Chains |-> NoCall]
    /\ late = {} /\ wire = {}
    /\ newest = [d \in Docs |-> 0] /\ texts = 0 /\ commands = 0

Next ==
    \/ User \/ StartSession \/ Leaves \/ ServeLate
    \/ \E f \in Chains : CallStep(f) \/ Serve(f)

Spec == Init /\ [][Next]_vars
-----------------------------------------------------------------------------
(* Properties *)

\* Every variable has its type.
TypeOK ==
    /\ mode \in {"folder", "cloud"}
    /\ active \in BOOLEAN /\ opened \in BOOLEAN /\ key \in BOOLEAN /\ pushed \in BOOLEAN
    /\ token \in Tokens /\ profile \in Tokens
    /\ saved \in Accounts \cup {None} /\ owner \in Accounts \cup {None}
    /\ local \in [Ids -> Draft \cup {NoDraft}] /\ stored \in [Ids -> Draft \cup {NoDraft}]
    /\ ids \in Ids \cup {0} /\ trash \subseteq Draft
    /\ note \in [Backends -> [Docs -> Seq(Texts)]]
    /\ call \in [Chains -> Call]
    /\ late \subseteq Request /\ wire \subseteq Tokens
    /\ newest \in [Docs -> Texts] /\ texts \in Texts /\ commands \in 0..MaxCommands

\* The token of a folder session never reaches the network: not from a session
\* start or a push that goes on after Disconnect, and not from one that meets
\* a sign-in.
FolderTokenStaysHere == Folder \notin wire

\* A document has at most one note on a backend, however often its draft is
\* pushed again after a lost answer, a reload, a restore from the recycle bin,
\* or by two pushes at the same time.
OneNotePerDocument == \A b \in Backends, d \in Docs : Len(note[b][d]) <= 1

\* A draft leaves this browser only for a backend: a document whose drafts are
\* not persisted any more has a note, and so has every one in the recycle bin.
GoneDraftsArrived ==
    LET arrived(d) == \E b \in Backends : note[b][d] # <<>>
    IN /\ \A i \in Ids : First[i] # None =>
            (\E j \in Ids : stored[j].doc = First[i]) \/ arrived(First[i])
       /\ \A x \in trash : arrived(x.doc)

\* The app holds a token exactly while it shows a profile; only a folder
\* session that is starting may hold one before.
TokenHasProfile ==
    /\ profile # None => token # None
    /\ profile = None /\ token # None =>
        token = Folder /\ call["session"].at \in {"check", "settings"}

\* The last text the user saved of a document can be found: in this browser's
\* drafts, in its recycle bin, or on a backend.
SavedTextKept ==
    \A i \in Ids : First[i] # None =>
        LET d == First[i]
            t == newest[d]
        IN \/ \E j \in Ids : stored[j] = [doc |-> d, text |-> t]
           \/ [doc |-> d, text |-> t] \in trash
           \/ \E b \in Backends : \E n \in 1..Len(note[b][d]) : note[b][d][n] = t
=============================================================================
