------------------------- MODULE FolderSessionProofs ------------------------
(***************************************************************************)
(* Theorems about the session of the editor and the push of its drafts,    *)
(* for any number of accounts, documents, drafts, texts and commands.      *)
(*                                                                         *)
(* Types come first (TypeInv): a call that waits for a request has sent    *)
(* the captured draft it is at.  What can break a property is then a call  *)
(* that goes on: the session start that fails, the request that was looked *)
(* up, the answer that removes a draft.  Each gets the part of the         *)
(* invariant it needs.                                                     *)
(***************************************************************************)
EXTENDS FolderSession, SequenceTheorems, TLAPS

Pushing(c) == c.at \in {"sent", "done"}

(* A call that waits for a request has sent the captured draft it is at. *)
Aimed(c) == Pushing(c) => /\ c.cur \in Ids /\ c.req \in Request
                          /\ c.req.draft = c.todo[c.cur]

TypeInv == TypeOK /\ \A f \in Chains : Aimed(call[f])

-----------------------------------------------------------------------------
(* Calls *)

\* The empty draft, request and call differ from the real ones, and an empty
\* call waits for nothing.
LEMMA Empties ==
  /\ NoDraft \notin Draft /\ NoRequest.draft = NoDraft
  /\ NoCall \in Call /\ ~Pushing(NoCall)
  /\ NoCall.todo = [i \in Ids |-> NoDraft] /\ NoCall.req = NoRequest /\ NoCall.at = "none"
<1>1. NoDraft \notin Draft
  BY SessionAssumption DEF NoDraft, Draft
<1>2. NoCall \in Call
  BY DEF NoCall, Call, Waits, Tokens
<1> QED BY <1>1, <1>2 DEF NoRequest, NoCall, Pushing

\* A call that moves on to a wait for something else than a request stays one.
LEMMA MovesOn ==
  ASSUME NEW c \in Call, NEW w \in Waits \ {"sent", "done"}
  PROVE  [c EXCEPT !.at = w] \in Call /\ Aimed([c EXCEPT !.at = w])
BY DEF Call, Aimed, Pushing

\* One call changes, and the others stay.
LEMMA OneCall ==
  ASSUME call \in [Chains -> Call], NEW f \in Chains, NEW c \in Call, Becomes(f, c)
  PROVE  /\ call' \in [Chains -> Call]
         /\ call'[f] = c /\ \A g \in Chains \ {f} : call'[g] = call[g]
BY DEF Becomes

\* A call typed and aimed: what a handler shows of the call it leaves.
LEMMA CallsTyped ==
  ASSUME TypeInv, NEW f \in Chains, NEW c \in Call, Aimed(c), Becomes(f, c)
  PROVE  call' \in [Chains -> Call] /\ \A g \in Chains : Aimed(call'[g])
BY OneCall DEF TypeInv, TypeOK

\* The draft of a call that is done with leaves a call.
LEMMA DroppedTyped ==
  ASSUME TypeInv, NEW f \in Chains
  PROVE  Dropped(f) \in Call /\ Aimed(Dropped(f)) /\ Dropped(f).at = "next"
<1>1. call[f] \in Call
  BY DEF TypeInv, TypeOK
<1> QED BY <1>1 DEF Dropped, Call, Waits, Aimed, Pushing

\* What a backend has after a request has the type of notes.
LEMMA WrittenTyped ==
  ASSUME TypeOK, NEW r \in Request
  PROVE  Written(r) \in [Backends -> [Docs -> Seq(Texts)]]
<1>1. r.to \in Backends /\ r.draft.doc \in Docs /\ r.draft.text \in Texts
  BY DEF Request, Draft
<1> DEFINE old == note[r.to][r.draft.doc]
           new == IF r.look = "missing" \/ old = <<>> THEN Append(old, r.draft.text)
                                                      ELSE [old EXCEPT ![1] = r.draft.text]
<1>2. old \in Seq(Texts)
  BY <1>1 DEF TypeOK
<1>3. new \in Seq(Texts)
  <2>1. CASE r.look = "missing" \/ old = <<>>
    BY <1>1, <1>2, <2>1
  <2>2. CASE ~(r.look = "missing" \/ old = <<>>)
    BY <1>1, <1>2, <2>2
  <2> QED BY <2>1, <2>2
<1>4. Written(r) = [note EXCEPT ![r.to][r.draft.doc] = new]
  BY DEF Written
<1> HIDE DEF new
<1> QED BY <1>1, <1>3, <1>4 DEF TypeOK

\* TypeInv of the next state, when only the calls change.
LEMMA OnlyCalls ==
  ASSUME TypeInv, NEW f \in Chains, NEW c \in Call, Aimed(c), Becomes(f, c),
         UNCHANGED <<session, drafts, note, late, history>>, wire' \subseteq Tokens
  PROVE  TypeInv'
<1>1. call' \in [Chains -> Call] /\ \A g \in Chains : Aimed(call'[g])
  BY CallsTyped
<1> QED BY <1>1 DEF TypeInv, TypeOK, Aimed, Pushing, session, drafts, history

\* What is on the network are tokens.
LEMMA SentTyped ==
  ASSUME TypeOK, NEW tok \in Tokens
  PROVE  Sent(tok) \subseteq Tokens /\ Route(tok) \in Backends \cup {None}
<1>1. mode \in {"folder", "cloud"} /\ wire \subseteq Tokens
  BY DEF TypeOK
<1>2. Route(tok) \in Backends \cup {None}
  BY <1>1 DEF Route, Backends, Tokens
<1> QED BY <1>1, <1>2 DEF Sent

-----------------------------------------------------------------------------
(* Every action keeps the types. *)

LEMMA BackendTyped ==
  ASSUME TypeInv, ServeLate \/ \E f \in Chains : Serve(f)
  PROVE  TypeInv'
<1>1. CASE ServeLate
  <2>1. PICK r \in late :
          \/ Looks(r) /\ late' = (late \ {r}) \cup {Looked(r)} /\ UNCHANGED note
          \/ Writes(r) /\ note' = Written(r) /\ late' = late \ {r}
          \/ late' = late \ {r} /\ UNCHANGED note
    BY <1>1 DEF ServeLate
  <2>2. r \in Request
    BY DEF TypeInv, TypeOK
  <2>3. Looked(r) \in Request
    BY <2>2 DEF Looked, Request
  <2>4. late' \subseteq Request
    BY <2>1, <2>3 DEF TypeInv, TypeOK
  <2>5. note' \in [Backends -> [Docs -> Seq(Texts)]]
    BY <2>1, <2>2, WrittenTyped DEF TypeInv, TypeOK
  <2> QED BY <1>1, <2>4, <2>5 DEF ServeLate, TypeInv, TypeOK, Aimed, Pushing, session, drafts, history
<1>2. ASSUME NEW f \in Chains, Serve(f) PROVE TypeInv'
  <2> DEFINE c == call[f]
  <2>1. c \in Call /\ c.cur \in Ids /\ c.req \in Request /\ c.req.draft = c.todo[c.cur]
    BY <1>2 DEF Serve, At, TypeInv, TypeOK, Aimed, Pushing
  <2>2. [c EXCEPT !.req = Looked(c.req)] \in Call /\ Aimed([c EXCEPT !.req = Looked(c.req)])
    <3>1. Looked(c.req) \in Request /\ Looked(c.req).draft = c.req.draft
      BY <2>1 DEF Looked, Request
    <3> QED BY <2>1, <3>1 DEF Call, Aimed, Pushing
  <2>3. [c EXCEPT !.at = "done"] \in Call /\ Aimed([c EXCEPT !.at = "done"])
    BY <2>1 DEF Call, Waits, Aimed, Pushing
  <2>4. PICK d \in Call : Aimed(d) /\ Becomes(f, d)
    BY <1>2, <2>2, <2>3 DEF Serve
  <2>5. call' \in [Chains -> Call] /\ \A g \in Chains : Aimed(call'[g])
    BY <2>4, CallsTyped
  <2>6. note' \in [Backends -> [Docs -> Seq(Texts)]]
    BY <1>2, <2>1, WrittenTyped DEF Serve, TypeInv, TypeOK
  <2> QED BY <1>2, <2>5, <2>6 DEF Serve, TypeInv, TypeOK, Aimed, Pushing, session, drafts, history
<1> QED BY <1>1, <1>2

LEMMA StartTyped ==
  ASSUME TypeInv, StartSession
  PROVE  TypeInv'
<1> DEFINE c == [NoCall EXCEPT !.at = "check", !.as = Folder]
<1>1. c \in Call /\ Aimed(c)
  BY Empties DEF Call, Waits, Tokens, Aimed, Pushing
<1>2. Sent(Folder) \subseteq Tokens
  BY SentTyped DEF TypeInv, Tokens
<1>3. "session" \in Chains
  BY DEF Chains
<1>4. call' \in [Chains -> Call] /\ \A g \in Chains : Aimed(call'[g])
  <2>1. CASE Becomes("session", c)
    BY <1>1, <1>3, <2>1, CallsTyped
  <2>2. CASE UNCHANGED call
    BY <2>2 DEF TypeInv, TypeOK
  <2> QED BY <2>1, <2>2 DEF StartSession
<1>5. token' \in Tokens /\ wire' \subseteq Tokens
  BY <1>2 DEF StartSession, TypeInv, TypeOK, Tokens
<1> QED BY <1>4, <1>5 DEF StartSession, TypeInv, TypeOK, Aimed, Pushing, drafts, history

LEMMA CallStepTyped ==
  ASSUME TypeInv, NEW f \in Chains, CallStep(f)
  PROVE  TypeInv'
<1> DEFINE c == call[f]
<1>0. /\ c \in Call /\ Aimed(c) /\ TypeOK
      /\ c.as \in Tokens /\ c.todo \in [Ids -> Draft \cup {NoDraft}] /\ c.req \in Request \cup {NoRequest}
  BY DEF TypeInv, TypeOK, Call
<1>1. CASE f = "session" /\ CheckFails
  <2>1. call' \in [Chains -> Call] /\ \A g \in Chains : Aimed(call'[g])
    BY <1>1, Empties, CallsTyped DEF CheckFails, Aimed
  <2> QED BY <1>1, <2>1 DEF CheckFails, TypeInv, TypeOK, Tokens, Aimed, Pushing, drafts, history
<1>2. CASE f = "session" /\ CheckAnswers
  <2>1. Sent(Folder) \subseteq Tokens
    BY <1>0, SentTyped DEF Tokens
  <2>2. [c EXCEPT !.at = "settings"] \in Call /\ Aimed([c EXCEPT !.at = "settings"])
    BY <1>0, MovesOn DEF Waits
  <2> QED BY <1>2, <2>1, <2>2, OnlyCalls DEF CheckAnswers
<1>3. CASE f = "signin" /\ SignInFails
  <2>1. call' \in [Chains -> Call] /\ \A g \in Chains : Aimed(call'[g])
    BY <1>3, Empties, CallsTyped DEF SignInFails, Aimed
  <2> QED BY <1>3, <2>1 DEF SignInFails, TypeInv, TypeOK, Aimed, Pushing, drafts, history
<1>4. CASE f = "signin" /\ SignInAnswers
  <2>1. Sent(c.as) \subseteq Tokens
    BY <1>0, SentTyped
  <2>2. [c EXCEPT !.at = "settings"] \in Call /\ Aimed([c EXCEPT !.at = "settings"])
    BY <1>0, MovesOn DEF Waits
  <2> QED BY <1>4, <2>1, <2>2, OnlyCalls DEF SignInAnswers
<1>5. CASE SettingsAnswer(f)
  <2> DEFINE cloud == c.as \in Accounts
             may == cloud => owner \in {None, c.as}
             d == [c EXCEPT !.at = "load", !.mayPush = may]
  <2>1. d \in Call /\ Aimed(d)
    BY <1>0 DEF Call, Waits, Aimed, Pushing
  <2>2. call' \in [Chains -> Call] /\ \A g \in Chains : Aimed(call'[g])
    BY <1>5, <2>1, CallsTyped DEF SettingsAnswer
  <2>3. wire' \subseteq Tokens
    BY <1>0, <1>5, SentTyped DEF SettingsAnswer
  <2>4. /\ token' \in Tokens /\ profile' \in Tokens
        /\ saved' \in Accounts \cup {None} /\ owner' \in Accounts \cup {None}
    BY <1>0, <1>5 DEF SettingsAnswer, Signs, TypeOK
  <2> QED BY <1>5, <2>2, <2>3, <2>4 DEF SettingsAnswer, TypeInv, TypeOK, Aimed, Pushing, drafts, history
<1>6. CASE LoadEnds(f)
  <2>1. [c EXCEPT !.at = "next", !.todo = local] \in Call /\ Aimed([c EXCEPT !.at = "next", !.todo = local])
    BY <1>0 DEF TypeOK, Call, Waits, Aimed, Pushing
  <2>2. PICK d \in Call : Aimed(d) /\ Becomes(f, d)
    BY <1>6, <2>1, Empties DEF LoadEnds, Ends, Aimed
  <2>3. call' \in [Chains -> Call] /\ \A g \in Chains : Aimed(call'[g])
    BY <2>2, CallsTyped
  <2>4. token' \in Tokens /\ profile' \in Tokens /\ saved' \in Accounts \cup {None} /\ pushed' \in BOOLEAN
    BY <1>0, <1>6 DEF LoadEnds, Ends, Signs, TypeOK, Tokens
  <2> QED BY <1>6, <2>3, <2>4 DEF LoadEnds, TypeInv, TypeOK, Aimed, Pushing, drafts, history
<1>7. CASE PushNext(f)
  <2> DEFINE r(i) == [to |-> Route(token), draft |-> c.todo[i], look |-> "no",
                      update |-> profile \in Accounts /\ Pulled[c.todo[i].doc] = profile]
  <2>1. PICK i \in Ids :
          /\ c.todo[i] # NoDraft
          /\ IF token = None \/ r(i).to = None
             THEN /\ Becomes(f, [c EXCEPT !.todo[i] = NoDraft])
                  /\ UNCHANGED wire
             ELSE /\ Becomes(f, [c EXCEPT !.at = "sent", !.cur = i, !.req = r(i)])
                  /\ wire' = Sent(token)
    BY <1>7 DEF PushNext
  <2>2. Sent(token) \subseteq Tokens /\ Route(token) \in Backends \cup {None}
    BY <1>0, SentTyped DEF TypeOK
  <2>3. CASE token = None \/ r(i).to = None
    <3>1. [c EXCEPT !.todo[i] = NoDraft] \in Call /\ Aimed([c EXCEPT !.todo[i] = NoDraft])
      BY <1>0, <1>7 DEF PushNext, At, Call, Aimed, Pushing
    <3> QED BY <1>0, <1>7, <2>1, <2>3, <3>1, OnlyCalls DEF PushNext, TypeOK
  <2>4. CASE ~(token = None \/ r(i).to = None)
    <3>1. r(i) \in Request /\ r(i).draft = c.todo[i]
      BY <1>0, <2>1, <2>2, <2>4 DEF Request
    <3> HIDE DEF r
    <3>2. [c EXCEPT !.at = "sent", !.cur = i, !.req = r(i)] \in Call
      BY <1>0, <3>1 DEF Call, Waits
    <3>3. Aimed([c EXCEPT !.at = "sent", !.cur = i, !.req = r(i)])
      BY <1>0, <3>1 DEF Call, Aimed, Pushing
    <3> QED BY <1>7, <2>1, <2>2, <2>4, <3>2, <3>3, OnlyCalls DEF PushNext
  <2> QED BY <2>3, <2>4
<1>8. CASE PushFails(f)
  <2>1. call' \in [Chains -> Call] /\ \A g \in Chains : Aimed(call'[g])
    BY <1>8, DroppedTyped, CallsTyped DEF PushFails
  <2>2. late' \subseteq Request
    BY <1>0, <1>8 DEF PushFails, At, Aimed, Pushing, TypeOK
  <2> QED BY <1>8, <2>1, <2>2 DEF PushFails, TypeInv, TypeOK, Aimed, Pushing, session, drafts, history
<1>9. CASE PushAnswered(f)
  <2>1. c.cur \in Ids /\ c.req \in Request /\ c.req.draft \in Draft
    BY <1>0, <1>9 DEF PushAnswered, At, Aimed, Pushing, Request
  <2>2. [c EXCEPT !.at = "saving"] \in Call /\ Aimed([c EXCEPT !.at = "saving"])
    BY <1>0, MovesOn DEF Waits
  <2>3. call' \in [Chains -> Call] /\ \A g \in Chains : Aimed(call'[g])
    BY <1>9, <2>2, CallsTyped DEF PushAnswered
  <2>4. local' \in [Ids -> Draft \cup {NoDraft}] /\ trash' \subseteq Draft
    BY <1>0, <1>9, <2>1 DEF PushAnswered, TypeOK
  <2> QED BY <1>9, <2>3, <2>4 DEF PushAnswered, TypeInv, TypeOK, Aimed, Pushing, session, history
<1>10. CASE DraftsSaved(f)
  <2>1. call' \in [Chains -> Call] /\ \A g \in Chains : Aimed(call'[g])
    BY <1>10, DroppedTyped, CallsTyped DEF DraftsSaved
  <2> QED BY <1>10, <2>1 DEF DraftsSaved, TypeInv, TypeOK, Aimed, Pushing, session, history
<1>11. CASE PushEnds(f)
  <2>1. call' \in [Chains -> Call] /\ \A g \in Chains : Aimed(call'[g])
    BY <1>11, Empties, CallsTyped DEF PushEnds, Ends, Aimed
  <2> QED BY <1>11, <2>1 DEF PushEnds, Ends, TypeInv, TypeOK, Aimed, Pushing, history
<1> QED BY <1>1, <1>2, <1>3, <1>4, <1>5, <1>6, <1>7, <1>8, <1>9, <1>10, <1>11 DEF CallStep

LEMMA UserTyped ==
  ASSUME TypeInv, User \/ Leaves
  PROVE  TypeInv'
<1>0. TypeOK /\ texts \in Nat /\ commands \in Nat /\ MaxText \in Nat /\ MaxCommands \in Nat
  BY SessionAssumption DEF TypeInv, TypeOK, Texts
<1>1. CASE Leaves
  BY <1>0, <1>1 DEF Leaves, TypeInv, TypeOK, Aimed, Pushing, drafts, history
<1>2. ASSUME NEW i \in Ids, Edit(i) PROVE TypeInv'
  <2>1. texts' \in Texts /\ local[i] \in Draft
    BY <1>0, <1>2 DEF Edit, TypeOK, Texts
  <2>2. [local[i] EXCEPT !.text = texts'] \in Draft /\ local[i].doc \in Docs
    BY <2>1 DEF Draft
  <2>3. local' \in [Ids -> Draft \cup {NoDraft}] /\ newest' \in [Docs -> Texts]
    BY <1>0, <1>2, <2>1, <2>2 DEF Edit, TypeOK
  <2> QED BY <1>2, <2>1, <2>3 DEF Edit, TypeInv, TypeOK, Aimed, Pushing, session
<1>3. ASSUME NEW d \in trash, Restore(d) PROVE TypeInv'
  <2>1. ids' \in Ids /\ d \in Draft
    BY <1>0, <1>3, SessionAssumption DEF Restore, TypeOK, Ids
  <2>2. local' \in [Ids -> Draft \cup {NoDraft}] /\ trash' \subseteq Draft
    BY <1>0, <1>3, <2>1 DEF Restore, TypeOK
  <2> QED BY <1>3, <2>1, <2>2 DEF Restore, TypeInv, TypeOK, Aimed, Pushing, session, history
<1>4. Command => commands' \in 0..MaxCommands /\ UNCHANGED <<newest, texts>>
  BY <1>0 DEF Command, TypeOK
<1>5. CASE Connect
  BY <1>0, <1>4, <1>5 DEF Connect, TypeInv, TypeOK, Aimed, Pushing, drafts
<1>6. CASE Disconnect
  BY <1>0, <1>6 DEF Disconnect, Signs, TypeInv, TypeOK, Tokens, Aimed, Pushing, drafts, history
<1>7. CASE SignOut
  BY <1>0, <1>7 DEF SignOut, Signs, TypeInv, TypeOK, Tokens, Aimed, Pushing, drafts, history
<1>8. CASE SyncAll
  <2> DEFINE c == [NoCall EXCEPT !.at = "next", !.todo = local]
  <2>1. c \in Call /\ Aimed(c) /\ "push" \in Chains
    BY <1>0, Empties DEF TypeOK, Call, Waits, Aimed, Pushing, Chains
  <2>2. call' \in [Chains -> Call] /\ \A g \in Chains : Aimed(call'[g])
    BY <1>8, <2>1, CallsTyped DEF SyncAll
  <2> QED BY <1>4, <1>8, <2>2 DEF SyncAll, TypeInv, TypeOK, Aimed, Pushing, session, drafts
<1>9. ASSUME NEW a \in Accounts, SignIn(a) PROVE TypeInv'
  <2> DEFINE c == [NoCall EXCEPT !.at = "auth", !.as = a]
  <2>1. c \in Call /\ Aimed(c) /\ "signin" \in Chains
    BY Empties DEF Call, Waits, Tokens, Aimed, Pushing, Chains
  <2>2. call' \in [Chains -> Call] /\ \A g \in Chains : Aimed(call'[g])
    BY <1>9, <2>1, CallsTyped DEF SignIn
  <2> QED BY <1>4, <1>9, <2>2 DEF SignIn, TypeInv, TypeOK, Aimed, Pushing, session, drafts
<1>10. CASE Reload
  <2> DEFINE c == [NoCall EXCEPT !.at = "auth", !.as = saved]
  <2>1. c \in Call /\ ~Pushing(c)
    BY <1>0, Empties DEF TypeOK, Call, Waits, Tokens, Pushing
  <2>2. call' \in [Chains -> Call] /\ \A g \in Chains : Aimed(call'[g])
    BY <1>10, <2>1, Empties DEF Reload, Aimed
  <2>3. late' \subseteq Request
    BY <1>0, <1>10 DEF Reload, TypeInv, TypeOK, At, Aimed, Pushing
  <2>4. mode' \in {"folder", "cloud"} /\ active' \in BOOLEAN /\ opened' \in BOOLEAN
    BY <1>10 DEF Reload
  <2> QED BY <1>0, <1>4, <1>10, <2>2, <2>3, <2>4 DEF Reload, Signs, TypeInv, TypeOK, Tokens, Aimed, Pushing
<1> QED BY <1>1, <1>2, <1>3, <1>5, <1>6, <1>7, <1>8, <1>9, <1>10 DEF User

LEMMA StutterTyped ==
  ASSUME TypeInv, UNCHANGED vars
  PROVE  TypeInv'
BY DEF TypeInv, TypeOK, Aimed, Pushing, vars, session, drafts, history

LEMMA InitTyped ==
  ASSUME Init
  PROVE  TypeInv
<1>1. local \in [Ids -> Draft \cup {NoDraft}]
  BY SessionAssumption DEF Init, Ids, Draft, NoDraft, Texts
<1>2. note \in [Backends -> [Docs -> Seq(Texts)]]
  <2>1. <<0>> \in Seq(Texts) /\ <<>> \in Seq(Texts)
    BY SessionAssumption DEF Texts
  <2> QED BY <2>1 DEF Init
<1>3. call \in [Chains -> Call] /\ \A f \in Chains : Aimed(call[f])
  BY Empties DEF Init, Aimed
<1>4. newest \in [Docs -> Texts] /\ texts \in Texts /\ commands \in 0..MaxCommands
  BY SessionAssumption DEF Init, Texts
<1> QED BY <1>1, <1>2, <1>3, <1>4 DEF Init, TypeInv, TypeOK, Tokens

LEMMA StepTyped ==
  ASSUME TypeInv, [Next]_vars
  PROVE  TypeInv'
BY UserTyped, StartTyped, BackendTyped, CallStepTyped, StutterTyped DEF Next

\* Every variable keeps its type: a sent request names a backend and a document,
\* only an account's session is ever persisted.
THEOREM Typing == Spec => []TypeInv
<1>1. Init => TypeInv
  BY InitTyped
<1>2. TypeInv /\ [Next]_vars => TypeInv'
  BY StepTyped
<1> QED BY <1>1, <1>2, PTL DEF Spec

THEOREM TypeCorrect == Spec => []TypeOK
<1>1. TypeInv => TypeOK
  BY DEF TypeInv
<1> QED BY <1>1, Typing, PTL

-----------------------------------------------------------------------------
(* The folder's token *)

\* A request with the folder's token is answered in the page whenever the mode
\* is that of the cloud, so a chain that captured the token before Disconnect
\* does not bring it to the network.
LEMMA SentKeeps ==
  ASSUME FolderTokenStaysHere, NEW tok
  PROVE  Folder \notin Sent(tok)
<1>1. mode = "cloud" => (Route(tok) # None => tok # Folder)
  BY DEF Route
<1> QED BY <1>1 DEF Sent, FolderTokenStaysHere

LEMMA CallStepKeepsToken ==
  ASSUME FolderTokenStaysHere, NEW f \in Chains, CallStep(f)
  PROVE  FolderTokenStaysHere'
<1>1. wire' = wire \/ \E tok : wire' = Sent(tok)
  BY DEF CallStep, CheckFails, CheckAnswers, SignInFails, SignInAnswers, SettingsAnswer, LoadEnds,
         PushNext, PushFails, PushAnswered, DraftsSaved, PushEnds
<1> QED BY <1>1, SentKeeps DEF FolderTokenStaysHere

\* The token of a folder session never reaches the network.
THEOREM TokenStays == Spec => []FolderTokenStaysHere
<1>1. Init => FolderTokenStaysHere
  BY DEF Init, FolderTokenStaysHere
<1>2. FolderTokenStaysHere /\ [Next]_vars => FolderTokenStaysHere'
  <2> SUFFICES ASSUME FolderTokenStaysHere, [Next]_vars PROVE FolderTokenStaysHere'
    OBVIOUS
  <2>1. CASE StartSession
    BY <2>1, SentKeeps DEF StartSession, FolderTokenStaysHere
  <2>2. CASE UNCHANGED vars \/ Leaves \/ ServeLate \/ \E f \in Chains : Serve(f)
    BY <2>2 DEF vars, Leaves, ServeLate, Serve, FolderTokenStaysHere
  <2>3. CASE User
    BY <2>3 DEF User, Edit, Restore, Connect, Disconnect, SignOut, SyncAll, Reload, SignIn, FolderTokenStaysHere
  <2> QED BY <2>1, <2>2, <2>3, CallStepKeepsToken DEF Next
<1> QED BY <1>1, <1>2, PTL DEF Spec

-----------------------------------------------------------------------------
(* The token and the profile *)

\* Only a session start sets a token without a profile, and the token goes with
\* it if the check fails: every other step sets both or neither.
LEMMA CallStepKeepsProfile ==
  ASSUME TypeInv, TokenHasProfile, NEW f \in Chains, CallStep(f)
  PROVE  TokenHasProfile'
<1> USE DEF TokenHasProfile
<1>0. call \in [Chains -> Call] /\ "session" \in Chains /\ "signin" \in Chains
  BY DEF TypeInv, TypeOK, Chains
<1>1. CASE f = "session" /\ CheckFails
  BY <1>1 DEF CheckFails
<1>2. CASE f = "session" /\ CheckAnswers
  <2>1. call'["session"].at = "settings"
    BY <1>0, <1>2 DEF CheckAnswers, Becomes, Call
  <2> QED BY <1>2, <2>1 DEF CheckAnswers, At, session
<1>3. CASE f = "signin" /\ (SignInFails \/ SignInAnswers)
  <2>1. call'["session"] = call["session"]
    BY <1>0, <1>3 DEF SignInFails, SignInAnswers, Becomes
  <2> QED BY <1>3, <2>1 DEF SignInFails, SignInAnswers, session
<1>4. CASE SettingsAnswer(f)
  BY <1>4 DEF SettingsAnswer, Signs
<1>5. ASSUME LoadEnds(f) \/ PushNext(f) \/ PushFails(f) \/ PushAnswered(f) \/ DraftsSaved(f) \/ PushEnds(f)
      PROVE  TokenHasProfile'
  <2>1. call[f].at \notin {"check", "settings"}
    BY <1>5 DEF LoadEnds, PushNext, PushFails, PushAnswered, DraftsSaved, PushEnds, At
  <2>2. \E c : Becomes(f, c)
    BY <1>5 DEF LoadEnds, PushNext, PushFails, PushAnswered, DraftsSaved, PushEnds, Ends
  <2>3. call["session"].at \in {"check", "settings"} => call'["session"] = call["session"]
    BY <1>0, <2>1, <2>2 DEF Becomes
  <2>4. (token' = token /\ profile' = profile) \/ Signs(None)
    BY <1>5 DEF LoadEnds, PushNext, PushFails, PushAnswered, DraftsSaved, PushEnds, Ends, session
  <2> QED BY <2>3, <2>4 DEF Signs
<1> QED BY <1>1, <1>2, <1>3, <1>4, <1>5 DEF CallStep

LEMMA StepKeepsProfile ==
  ASSUME TypeInv, TokenHasProfile, [Next]_vars
  PROVE  TokenHasProfile'
<1> USE DEF TokenHasProfile
<1>0. call \in [Chains -> Call] /\ "session" \in Chains /\ "push" \in Chains /\ "signin" \in Chains
  BY DEF TypeInv, TypeOK, Chains
<1>1. CASE StartSession
  <2>1. CASE mode = "folder" /\ active /\ At("session", "none")
    <3>1. /\ token' = IF pushed THEN token ELSE Folder
          /\ Becomes("session", [NoCall EXCEPT !.at = "check", !.as = Folder])
      BY <1>1, <2>1 DEF StartSession
    <3>2. call'["session"].at = "check"
      BY <1>0, <3>1 DEF Becomes, NoCall
    <3>3. Folder # None
      BY SessionAssumption
    <3> QED BY <1>1, <2>1, <3>1, <3>2, <3>3 DEF StartSession, At
  <2>2. CASE ~(mode = "folder" /\ active /\ At("session", "none"))
    BY <1>1, <2>2 DEF StartSession
  <2> QED BY <2>1, <2>2
<1>2. ASSUME NEW f \in Chains, Serve(f) PROVE TokenHasProfile'
  <2>1. call[f].at = "sent" /\ \E c : Becomes(f, c)
    BY <1>2 DEF Serve, At
  <2>2. call["session"].at \in {"check", "settings"} => call'["session"] = call["session"]
    BY <1>0, <2>1 DEF Becomes
  <2> QED BY <1>2, <2>2 DEF Serve, session
<1>3. CASE Leaves \/ ServeLate \/ UNCHANGED vars
  BY <1>3 DEF Leaves, ServeLate, vars, session
<1>4. CASE User
  <2>1. CASE Disconnect \/ SignOut \/ Reload
    BY <2>1 DEF Disconnect, SignOut, Reload, Signs
  <2>2. CASE Connect \/ (\E i \in Ids : Edit(i)) \/ \E d \in trash : Restore(d)
    BY <2>2 DEF Connect, Edit, Restore, session
  <2>3. CASE SyncAll \/ \E a \in Accounts : SignIn(a)
    <3>1. call'["session"] = call["session"]
      BY <1>0, <2>3 DEF SyncAll, SignIn, Becomes
    <3> QED BY <2>3, <3>1 DEF SyncAll, SignIn, session
  <2> QED BY <1>4, <2>1, <2>2, <2>3 DEF User
<1> QED BY <1>1, <1>2, <1>3, <1>4, CallStepKeepsProfile DEF Next

\* Whatever overlaps, the app has a token exactly when it shows a profile, but
\* for a folder session that is starting.
THEOREM TokenAndProfile == Spec => []TokenHasProfile
<1>1. Init => TokenHasProfile
  BY DEF Init, TokenHasProfile
<1>2. TypeInv /\ TokenHasProfile /\ [Next]_vars => TokenHasProfile'
  BY StepKeepsProfile
<1> QED BY <1>1, <1>2, Typing, PTL DEF Spec

-----------------------------------------------------------------------------
(* One note per document *)

\* Only the cloud's lookup for a create finds nothing.
Fresh(r) == r.look = "missing" => r.to \in Accounts /\ ~r.update

LooksOnce == (\A r \in late : Fresh(r)) /\ \A f \in Chains : Fresh(call[f].req)

\* A sequence of one text stays one when its text is replaced, and an empty
\* one becomes one when a text is added.
LEMMA OneLong ==
  ASSUME NEW s \in Seq(Texts), Len(s) <= 1, NEW e \in Texts
  PROVE  /\ s = <<>> => Len(Append(s, e)) = 1 /\ Append(s, e) # <<>>
         /\ s # <<>> => Len([s EXCEPT ![1] = e]) = 1 /\ [s EXCEPT ![1] = e] # <<>>
<1>1. Len(<<>>) = 0 /\ (s # <<>> => Len(s) \in Nat \ {0})
  BY EmptySeq
<1>2. s = <<>> => Len(Append(s, e)) = 1 /\ Append(s, e) # <<>>
  BY <1>1, AppendProperties
<1>3. ASSUME s # <<>> PROVE Len([s EXCEPT ![1] = e]) = 1
  <2>1. Len(s) = 1 /\ 1 \in 1..Len(s)
    BY <1>1, <1>3
  <2> QED BY <2>1, ExceptSeq
<1> QED BY <1>1, <1>2, <1>3

\* Carrying out a request leaves one note at most of its document, and none is
\* taken away.
LEMMA WrittenOnce ==
  ASSUME TypeOK, OneNotePerDocument, NEW r \in Request, Fresh(r), Writes(r), note' = Written(r)
  PROVE  /\ OneNotePerDocument'
         /\ note'[r.to][r.draft.doc] # <<>>
         /\ \A b \in Backends, d \in Docs : note[b][d] # <<>> => note'[b][d] # <<>>
<1> DEFINE old == note[r.to][r.draft.doc]
           new == IF r.look = "missing" \/ old = <<>> THEN Append(old, r.draft.text)
                                                      ELSE [old EXCEPT ![1] = r.draft.text]
<1>1. r.to \in Backends /\ r.draft.doc \in Docs /\ r.draft.text \in Texts
  BY DEF Request, Draft
<1>2. old \in Seq(Texts) /\ Len(old) <= 1
  BY <1>1 DEF TypeOK, OneNotePerDocument
<1>3. r.look = "missing" => old = <<>>
  <2>1. r.to \in Accounts => r.to # Folder
    BY SessionAssumption
  <2> QED BY <2>1 DEF Fresh, Writes, Exists
<1> HIDE DEF old
<1>4. Len(new) = 1 /\ new # <<>>
  BY <1>1, <1>2, <1>3, OneLong
<1>5. note' = [note EXCEPT ![r.to][r.draft.doc] = new]
  BY DEF Written, old
<1> HIDE DEF new
<1>6. ASSUME NEW b \in Backends, NEW d \in Docs
      PROVE  note'[b][d] = IF b = r.to /\ d = r.draft.doc THEN new ELSE note[b][d]
  BY <1>1, <1>5 DEF TypeOK
<1>7. ASSUME NEW b \in Backends, NEW d \in Docs PROVE Len(note'[b][d]) <= 1
  <2>1. note'[b][d] = new \/ note'[b][d] = note[b][d]
    BY <1>6
  <2>2. Len(new) <= 1 /\ Len(note[b][d]) <= 1
    BY <1>4 DEF OneNotePerDocument
  <2> QED BY ONLY <2>1, <2>2
<1>8. note'[r.to][r.draft.doc] = new
  BY <1>1, <1>6
<1>9. ASSUME NEW b \in Backends, NEW d \in Docs, note[b][d] # <<>> PROVE note'[b][d] # <<>>
  BY <1>4, <1>6, <1>9
<1> QED BY <1>4, <1>7, <1>8, <1>9 DEF OneNotePerDocument

\* Every request is fresh, or was looked up once and found nothing there.
LEMMA StepKeepsLooks ==
  ASSUME TypeInv, LooksOnce, [Next]_vars
  PROVE  LooksOnce'
<1>0. /\ call \in [Chains -> Call] /\ Fresh(NoRequest) /\ Fresh(NoCall.req)
      /\ "session" \in Chains /\ "signin" \in Chains /\ "push" \in Chains
  BY DEF TypeInv, TypeOK, Chains, Fresh, NoRequest, NoCall
<1>1. ASSUME NEW r, Fresh(r), r \in Request, Looks(r) PROVE Fresh(Looked(r))
  BY <1>1 DEF Fresh, Looks, Looked, Request
<1>2. ASSUME NEW f \in Chains, NEW c, Becomes(f, c), Fresh(c.req),
             \A r \in late' : Fresh(r)
      PROVE  LooksOnce'
  BY <1>0, <1>2 DEF LooksOnce, Becomes
<1>3. CASE ServeLate
  <2>1. late \subseteq Request
    BY DEF TypeInv, TypeOK
  <2> QED BY <1>1, <1>3, <2>1 DEF ServeLate, LooksOnce
<1>4. ASSUME NEW f \in Chains, Serve(f) PROVE LooksOnce'
  <2> DEFINE c == call[f]
  <2>1. c \in Call /\ c.req \in Request /\ Fresh(c.req)
    BY <1>0, <1>4 DEF Serve, At, TypeInv, Aimed, Pushing, LooksOnce
  <2>2. Looks(c.req) => Fresh([c EXCEPT !.req = Looked(c.req)].req)
    BY <1>1, <2>1 DEF Call
  <2>3. Fresh([c EXCEPT !.at = "done"].req)
    BY <2>1 DEF Call
  <2> QED BY <1>2, <1>4, <2>2, <2>3 DEF Serve, LooksOnce
<1>5. ASSUME NEW f \in Chains, CallStep(f) PROVE LooksOnce'
  <2> DEFINE c == call[f]
  <2>0. c \in Call /\ Fresh(c.req) /\ \A r \in late : Fresh(r)
    BY <1>0 DEF LooksOnce
  <2>1. /\ \A w : Fresh([c EXCEPT !.at = w].req)
        /\ \A m : Fresh([c EXCEPT !.at = "load", !.mayPush = m].req)
        /\ \A t : Fresh([c EXCEPT !.at = "next", !.todo = t].req)
        /\ \A i : Fresh([c EXCEPT !.todo[i] = NoDraft].req)
    BY <2>0 DEF Call
  <2>2. Fresh(Dropped(f).req)
    BY <1>0, <2>0 DEF Dropped, Call
  <2>3. CASE f = "session" /\ (CheckFails \/ CheckAnswers)
    BY <1>0, <1>2, <2>0, <2>1, <2>3 DEF CheckFails, CheckAnswers
  <2>4. CASE f = "signin" /\ (SignInFails \/ SignInAnswers)
    BY <1>0, <1>2, <2>0, <2>1, <2>4 DEF SignInFails, SignInAnswers
  <2>5. CASE SettingsAnswer(f)
    BY <1>2, <2>0, <2>1, <2>5 DEF SettingsAnswer
  <2>6. CASE LoadEnds(f) \/ PushEnds(f)
    BY <1>0, <1>2, <2>0, <2>1, <2>6 DEF LoadEnds, PushEnds, Ends
  <2>7. CASE PushNext(f)
    <3> DEFINE r(i) == [to |-> Route(token), draft |-> c.todo[i], look |-> "no",
                        update |-> profile \in Accounts /\ Pulled[c.todo[i].doc] = profile]
    <3>1. PICK i \in Ids :
            \/ Becomes(f, [c EXCEPT !.todo[i] = NoDraft])
            \/ Becomes(f, [c EXCEPT !.at = "sent", !.cur = i, !.req = r(i)])
      BY <2>7 DEF PushNext
    <3>2. Fresh([c EXCEPT !.at = "sent", !.cur = i, !.req = r(i)].req)
      BY <2>0 DEF Call, Fresh
    <3> HIDE DEF r
    <3> QED BY <1>2, <2>0, <2>1, <2>7, <3>1, <3>2 DEF PushNext
  <2>8. CASE PushFails(f)
    BY <1>2, <2>0, <2>2, <2>8 DEF PushFails
  <2>9. CASE PushAnswered(f) \/ DraftsSaved(f)
    BY <1>2, <2>0, <2>1, <2>2, <2>9 DEF PushAnswered, DraftsSaved
  <2> QED BY <1>5, <2>3, <2>4, <2>5, <2>6, <2>7, <2>8, <2>9 DEF CallStep
<1>6. CASE StartSession
  <2>1. Fresh([NoCall EXCEPT !.at = "check", !.as = Folder].req)
    BY <1>0 DEF NoCall
  <2> QED BY <1>0, <1>2, <1>6, <2>1 DEF StartSession, LooksOnce
<1>7. CASE User
  <2>1. CASE Disconnect \/ SignOut \/ Connect \/ (\E i \in Ids : Edit(i)) \/ \E d \in trash : Restore(d)
    BY <2>1 DEF Disconnect, SignOut, Connect, Edit, Restore, LooksOnce
  <2>2. CASE SyncAll
    <3>1. Fresh([NoCall EXCEPT !.at = "next", !.todo = local].req)
      BY <1>0 DEF NoCall
    <3> QED BY <1>0, <1>2, <2>2, <3>1 DEF SyncAll, LooksOnce
  <2>3. ASSUME NEW a \in Accounts, SignIn(a) PROVE LooksOnce'
    <3>1. Fresh([NoCall EXCEPT !.at = "auth", !.as = a].req)
      BY <1>0 DEF NoCall
    <3> QED BY <1>0, <1>2, <2>3, <3>1 DEF SignIn, LooksOnce
  <2>4. CASE Reload
    <3>1. Fresh([NoCall EXCEPT !.at = "auth", !.as = saved].req)
      BY <1>0 DEF NoCall
    <3> QED BY <1>0, <2>4, <3>1 DEF Reload, LooksOnce
  <2> QED BY <1>7, <2>1, <2>2, <2>3, <2>4 DEF User
<1>8. CASE Leaves \/ UNCHANGED vars
  BY <1>8 DEF Leaves, vars, LooksOnce
<1> QED BY <1>3, <1>4, <1>5, <1>6, <1>7, <1>8 DEF Next

\* The notes change only as a request is carried out.
LEMMA NotesWritten ==
  ASSUME TypeInv, LooksOnce, [Next]_vars
  PROVE  UNCHANGED note \/ \E r \in Request : Fresh(r) /\ Writes(r) /\ note' = Written(r)
<1>1. CASE ServeLate
  BY <1>1 DEF ServeLate, LooksOnce, TypeInv, TypeOK
<1>2. ASSUME NEW f \in Chains, Serve(f)
      PROVE  UNCHANGED note \/ \E r \in Request : Fresh(r) /\ Writes(r) /\ note' = Written(r)
  BY <1>2 DEF Serve, At, LooksOnce, TypeInv, Aimed, Pushing
<1>3. CASE UNCHANGED vars \/ Leaves \/ StartSession
  BY <1>3 DEF vars, Leaves, StartSession
<1>4. CASE User
  BY <1>4 DEF User, Edit, Restore, Connect, Disconnect, SignOut, SyncAll, Reload, SignIn, drafts
<1>5. ASSUME NEW f \in Chains, CallStep(f) PROVE UNCHANGED note
  BY <1>5 DEF CallStep, CheckFails, CheckAnswers, SignInFails, SignInAnswers, SettingsAnswer, LoadEnds,
         PushNext, PushFails, PushAnswered, DraftsSaved, PushEnds
<1> QED BY <1>1, <1>2, <1>3, <1>4, <1>5 DEF Next

OnceInv == TypeInv /\ LooksOnce /\ OneNotePerDocument

LEMMA StepKeepsOnce ==
  ASSUME OnceInv, [Next]_vars
  PROVE  OnceInv'
<1>1. TypeInv' /\ LooksOnce'
  BY StepTyped, StepKeepsLooks DEF OnceInv
<1>2. OneNotePerDocument'
  <2>1. CASE UNCHANGED note
    BY <2>1 DEF OnceInv, OneNotePerDocument
  <2>2. ASSUME NEW r \in Request, Fresh(r), Writes(r), note' = Written(r) PROVE OneNotePerDocument'
    BY <2>2, WrittenOnce DEF OnceInv, TypeInv
  <2> QED BY <2>1, <2>2, NotesWritten DEF OnceInv
<1> QED BY <1>1, <1>2 DEF OnceInv

LEMMA InitOnce ==
  ASSUME Init
  PROVE  OnceInv
<1>1. LooksOnce
  BY Empties DEF Init, LooksOnce, Fresh, NoRequest
<1>2. OneNotePerDocument
  BY DEF Init, OneNotePerDocument
<1> QED BY <1>1, <1>2, InitTyped DEF OnceInv

\* However often a draft is pushed, and in whatever order requests are carried
\* out, no backend has two notes of a document.
THEOREM OneNote == Spec => []OneNotePerDocument
<1>1. Init => OnceInv
  BY InitOnce
<1>2. OnceInv /\ [Next]_vars => OnceInv'
  BY StepKeepsOnce
<1>3. OnceInv => OneNotePerDocument
  BY DEF OnceInv
<1> QED BY <1>1, <1>2, <1>3, PTL DEF Spec

-----------------------------------------------------------------------------
(* No draft leaves before it arrived *)

Arrived(d) == \E b \in Backends : note[b][d] # <<>>

\* Every document with a draft at the start has one in ds, or a note.
Kept(ds) == \A i \in Ids : First[i] # None =>
              (\E j \in Ids : ds[j].doc = First[i]) \/ Arrived(First[i])

\* Local ids are given out in order, and a captured draft has the document of
\* the draft with its local id: an answer removes no other document's draft.
Captured ==
  /\ \A i \in Ids : i > ids => local[i] = NoDraft /\ stored[i] = NoDraft
  /\ \A f \in Chains : \A i \in Ids : call[f].todo[i] # NoDraft =>
       i <= ids /\ (local[i] # NoDraft => call[f].todo[i].doc = local[i].doc)

\* An answer that is on its way comes from a backend that has the note.
Answered == \A f \in Chains : At(f, "done") => note[call[f].req.to][call[f].req.draft.doc] # <<>>

\* A document in the recycle bin has a note.
Binned == \A x \in trash : Arrived(x.doc)

GoneInv == OnceInv /\ Captured /\ Answered /\ Kept(local) /\ Kept(stored) /\ Binned

\* A note once there stays.
LEMMA NotesStay ==
  ASSUME OnceInv, [Next]_vars
  PROVE  \A b \in Backends, d \in Docs : note[b][d] # <<>> => note'[b][d] # <<>>
<1>1. ASSUME NEW r \in Request, Fresh(r), Writes(r), note' = Written(r)
      PROVE  \A b \in Backends, d \in Docs : note[b][d] # <<>> => note'[b][d] # <<>>
  BY <1>1, WrittenOnce DEF OnceInv, TypeInv
<1> QED BY <1>1, NotesWritten DEF OnceInv

\* What is kept in drafts that cover those of before stays kept.
LEMMA KeptBy ==
  ASSUME OnceInv, [Next]_vars, NEW ds, NEW es, Kept(ds),
         \A j \in Ids : ds[j].doc \in Docs =>
             (\E k \in Ids : es[k].doc = ds[j].doc) \/ Arrived(ds[j].doc)
  PROVE  \A i \in Ids : First[i] # None =>
              (\E j \in Ids : es[j].doc = First[i]) \/ Arrived(First[i])'
<1> SUFFICES ASSUME NEW i \in Ids, First[i] # None, ~ \E j \in Ids : es[j].doc = First[i]
             PROVE  Arrived(First[i])'
  OBVIOUS
<1>1. First[i] \in Docs
  BY SessionAssumption DEF Ids
<1>2. Arrived(First[i])
  BY <1>1 DEF Kept
<1> QED BY <1>1, <1>2, NotesStay DEF Arrived

\* What a step does to the drafts a call captured.
LEMMA CaptureStep ==
  ASSUME TypeInv, [Next]_vars, NEW f \in Chains, NEW i \in Ids
  PROVE  \/ call'[f].todo[i] \in {NoDraft, call[f].todo[i]}
         \/ call'[f].todo[i] = local[i] /\ UNCHANGED <<local, ids>>
<1> DEFINE Goal == \/ call'[f].todo[i] \in {NoDraft, call[f].todo[i]}
                   \/ call'[f].todo[i] = local[i] /\ UNCHANGED <<local, ids>>
<1>0. /\ call \in [Chains -> Call] /\ \A g \in Chains : call[g] \in Call
      /\ \A g \in Chains : call[g].todo \in [Ids -> Draft \cup {NoDraft}]
      /\ "session" \in Chains /\ "signin" \in Chains /\ "push" \in Chains
      /\ NoCall.todo[i] = NoDraft /\ NoCall \in Call
  BY Empties DEF TypeInv, TypeOK, Chains, Call
<1>1. ASSUME NEW g \in Chains, NEW c, Becomes(g, c), c.todo[i] \in {NoDraft, call[g].todo[i]}
      PROVE  Goal
  BY <1>0, <1>1 DEF Becomes
<1>2. ASSUME NEW g \in Chains, NEW c, Becomes(g, c), c.todo = local, UNCHANGED <<local, ids>>
      PROVE  Goal
  BY <1>0, <1>2 DEF Becomes
<1>3. ASSUME NEW g \in Chains, Serve(g) PROVE Goal
  <2>1. /\ [call[g] EXCEPT !.req = Looked(call[g].req)].todo = call[g].todo
        /\ [call[g] EXCEPT !.at = "done"].todo = call[g].todo
    BY <1>0 DEF Call
  <2> QED BY <1>1, <1>3, <2>1 DEF Serve
<1>4. ASSUME NEW g \in Chains, CallStep(g) PROVE Goal
  <2> DEFINE c == call[g]
  <2>0. c \in Call /\ c.todo \in [Ids -> Draft \cup {NoDraft}]
    BY <1>0
  <2>1. /\ \A w : [c EXCEPT !.at = w].todo = c.todo
        /\ \A m : [c EXCEPT !.at = "load", !.mayPush = m].todo = c.todo
        /\ [c EXCEPT !.at = "next", !.todo = local].todo = local
    BY <2>0 DEF Call
  <2>2. Dropped(g).todo[i] \in {NoDraft, c.todo[i]}
    BY <2>0 DEF Dropped, Call
  <2>3. \A k \in Ids : [c EXCEPT !.todo[k] = NoDraft].todo[i] \in {NoDraft, c.todo[i]}
    BY <2>0 DEF Call
  <2>4. \A k, r : [c EXCEPT !.at = "sent", !.cur = k, !.req = r].todo = c.todo
    BY <2>0 DEF Call
  <2>5. CASE g = "session" /\ (CheckFails \/ CheckAnswers)
    BY <1>0, <1>1, <2>1, <2>5 DEF CheckFails, CheckAnswers
  <2>6. CASE g = "signin" /\ (SignInFails \/ SignInAnswers)
    BY <1>0, <1>1, <2>1, <2>6 DEF SignInFails, SignInAnswers
  <2>7. CASE SettingsAnswer(g)
    BY <1>1, <2>1, <2>7 DEF SettingsAnswer
  <2>8. CASE LoadEnds(g)
    BY <1>0, <1>1, <1>2, <2>1, <2>8 DEF LoadEnds, Ends, drafts
  <2>9. CASE PushNext(g)
    <3>1. PICK k \in Ids : \/ Becomes(g, [c EXCEPT !.todo[k] = NoDraft])
                           \/ \E r : Becomes(g, [c EXCEPT !.at = "sent", !.cur = k, !.req = r])
      BY <2>9 DEF PushNext
    <3>2. CASE Becomes(g, [c EXCEPT !.todo[k] = NoDraft])
      BY <1>1, <2>3, <3>2
    <3>3. ASSUME NEW r, Becomes(g, [c EXCEPT !.at = "sent", !.cur = k, !.req = r]) PROVE Goal
      BY <1>1, <2>4, <3>3
    <3> QED BY <3>1, <3>2, <3>3
  <2>10. CASE PushFails(g) \/ DraftsSaved(g)
    BY <1>1, <2>2, <2>10 DEF PushFails, DraftsSaved
  <2>11. CASE PushAnswered(g)
    BY <1>1, <2>1, <2>11 DEF PushAnswered
  <2>12. CASE PushEnds(g)
    BY <1>0, <1>1, <2>12 DEF PushEnds, Ends
  <2> QED BY <1>4, <2>5, <2>6, <2>7, <2>8, <2>9, <2>10, <2>11, <2>12 DEF CallStep
<1>5. CASE StartSession
  <2>1. [NoCall EXCEPT !.at = "check", !.as = Folder].todo[i] = NoDraft
    BY <1>0 DEF Call
  <2> QED BY <1>0, <1>1, <1>5, <2>1 DEF StartSession
<1>6. CASE User
  <2>1. CASE Disconnect \/ SignOut \/ Connect \/ (\E k \in Ids : Edit(k)) \/ \E d \in trash : Restore(d)
    BY <2>1 DEF Disconnect, SignOut, Connect, Edit, Restore
  <2>2. CASE SyncAll
    <3>1. [NoCall EXCEPT !.at = "next", !.todo = local].todo = local
      BY <1>0 DEF Call
    <3> QED BY <1>0, <1>2, <2>2, <3>1 DEF SyncAll, drafts
  <2>3. ASSUME NEW a \in Accounts, SignIn(a) PROVE Goal
    <3>1. [NoCall EXCEPT !.at = "auth", !.as = a].todo[i] = NoDraft
      BY <1>0 DEF Call
    <3> QED BY <1>0, <1>1, <2>3, <3>1 DEF SignIn
  <2>4. CASE Reload
    <3>1. [NoCall EXCEPT !.at = "auth", !.as = saved].todo[i] = NoDraft
      BY <1>0 DEF Call
    <3> QED BY <1>0, <2>4, <3>1 DEF Reload
  <2> QED BY <1>6, <2>1, <2>2, <2>3, <2>4 DEF User
<1>7. CASE Leaves \/ ServeLate \/ UNCHANGED vars
  BY <1>7 DEF Leaves, ServeLate, vars
<1> QED BY <1>3, <1>4, <1>5, <1>6, <1>7 DEF Next

\* A call gets its answer from a backend that carried its request out, and
\* keeps its request until it takes the answer.
LEMMA AnswerStep ==
  ASSUME TypeInv, [Next]_vars, NEW f \in Chains, At(f, "done")'
  PROVE  \/ At(f, "done") /\ call'[f] = call[f]
         \/ /\ At(f, "sent") /\ call'[f].req = call[f].req
            /\ Writes(call[f].req) /\ note' = Written(call[f].req)
<1> DEFINE Goal == \/ At(f, "done") /\ call'[f] = call[f]
                   \/ /\ At(f, "sent") /\ call'[f].req = call[f].req
                      /\ Writes(call[f].req) /\ note' = Written(call[f].req)
<1>0. /\ call \in [Chains -> Call] /\ \A g \in Chains : call[g] \in Call
      /\ "session" \in Chains /\ "signin" \in Chains /\ "push" \in Chains
      /\ NoCall \in Call /\ NoCall.at = "none"
  BY Empties DEF TypeInv, TypeOK, Chains
<1>1. ASSUME NEW g \in Chains, NEW c, Becomes(g, c), c.at # "done" PROVE Goal
  BY <1>0, <1>1 DEF Becomes, At
<1>2. CASE UNCHANGED call
  BY <1>2 DEF At
<1>3. ASSUME NEW g \in Chains, Serve(g) PROVE Goal
  <2>1. /\ [call[g] EXCEPT !.req = Looked(call[g].req)].at = call[g].at
        /\ [call[g] EXCEPT !.at = "done"].req = call[g].req
    BY <1>0 DEF Call
  <2>2. CASE Becomes(g, [call[g] EXCEPT !.req = Looked(call[g].req)])
    BY <1>1, <1>3, <2>1, <2>2 DEF Serve, At
  <2>3. CASE /\ Writes(call[g].req) /\ note' = Written(call[g].req)
             /\ Becomes(g, [call[g] EXCEPT !.at = "done"])
    <3>1. CASE g = f
      BY <1>0, <1>3, <2>1, <2>3, <3>1 DEF Serve, Becomes, At
    <3>2. CASE g # f
      BY <1>0, <2>3, <3>2 DEF Becomes, At
    <3> QED BY <3>1, <3>2
  <2> QED BY <1>3, <2>2, <2>3 DEF Serve
<1>4. ASSUME NEW g \in Chains, CallStep(g) PROVE Goal
  <2> DEFINE c == call[g]
  <2>0. c \in Call
    BY <1>0
  <2>1. /\ [c EXCEPT !.at = "settings"].at = "settings"
        /\ [c EXCEPT !.at = "saving"].at = "saving"
        /\ \A m : [c EXCEPT !.at = "load", !.mayPush = m].at = "load"
        /\ [c EXCEPT !.at = "next", !.todo = local].at = "next"
        /\ \A k \in Ids : [c EXCEPT !.todo[k] = NoDraft].at = c.at
        /\ \A k, r : [c EXCEPT !.at = "sent", !.cur = k, !.req = r].at = "sent"
    BY <2>0 DEF Call
  <2>2. Dropped(g).at = "next"
    BY DroppedTyped
  <2>5. CASE g = "session" /\ (CheckFails \/ CheckAnswers)
    BY <1>0, <1>1, <2>1, <2>5 DEF CheckFails, CheckAnswers
  <2>6. CASE g = "signin" /\ (SignInFails \/ SignInAnswers)
    BY <1>0, <1>1, <2>1, <2>6 DEF SignInFails, SignInAnswers
  <2>7. CASE SettingsAnswer(g)
    BY <1>1, <2>1, <2>7 DEF SettingsAnswer
  <2>8. CASE LoadEnds(g) \/ PushEnds(g)
    BY <1>0, <1>1, <2>1, <2>8 DEF LoadEnds, PushEnds, Ends
  <2>9. CASE PushNext(g)
    <3>1. PICK k \in Ids : \/ Becomes(g, [c EXCEPT !.todo[k] = NoDraft])
                           \/ \E r : Becomes(g, [c EXCEPT !.at = "sent", !.cur = k, !.req = r])
      BY <2>9 DEF PushNext
    <3>2. c.at = "next"
      BY <2>9 DEF PushNext, At
    <3> QED BY <1>1, <2>1, <3>1, <3>2
  <2>10. CASE PushFails(g) \/ DraftsSaved(g) \/ PushAnswered(g)
    BY <1>1, <2>1, <2>2, <2>10 DEF PushFails, DraftsSaved, PushAnswered
  <2> QED BY <1>4, <2>5, <2>6, <2>7, <2>8, <2>9, <2>10 DEF CallStep
<1>5. CASE StartSession
  <2>1. [NoCall EXCEPT !.at = "check", !.as = Folder].at = "check"
    BY <1>0 DEF Call
  <2> QED BY <1>0, <1>1, <1>2, <1>5, <2>1 DEF StartSession
<1>6. CASE User
  <2>1. CASE Disconnect \/ SignOut \/ Connect \/ (\E k \in Ids : Edit(k)) \/ \E d \in trash : Restore(d)
    BY <1>2, <2>1 DEF Disconnect, SignOut, Connect, Edit, Restore
  <2>2. CASE SyncAll
    <3>1. [NoCall EXCEPT !.at = "next", !.todo = local].at = "next"
      BY <1>0 DEF Call
    <3> QED BY <1>0, <1>1, <2>2, <3>1 DEF SyncAll
  <2>3. ASSUME NEW a \in Accounts, SignIn(a) PROVE Goal
    <3>1. [NoCall EXCEPT !.at = "auth", !.as = a].at = "auth"
      BY <1>0 DEF Call
    <3> QED BY <1>0, <1>1, <2>3, <3>1 DEF SignIn
  <2>4. CASE Reload
    <3>1. [NoCall EXCEPT !.at = "auth", !.as = saved].at = "auth"
      BY <1>0 DEF Call
    <3> QED BY <1>0, <2>4, <3>1 DEF Reload, At
  <2> QED BY <1>6, <2>1, <2>2, <2>3, <2>4 DEF User
<1>7. CASE Leaves \/ ServeLate \/ UNCHANGED vars
  BY <1>2, <1>7 DEF Leaves, ServeLate, vars
<1> QED BY <1>3, <1>4, <1>5, <1>6, <1>7 DEF Next

LEMMA StepKeepsAnswered ==
  ASSUME OnceInv, Answered, [Next]_vars
  PROVE  Answered'
<1> SUFFICES ASSUME NEW f \in Chains, At(f, "done")'
             PROVE  note'[call'[f].req.to][call'[f].req.draft.doc] # <<>>
  BY DEF Answered, At
<1> DEFINE r == call[f].req
<1>1. TypeInv /\ LooksOnce
  BY DEF OnceInv
<1>2. call[f].at \in {"sent", "done"} => r \in Request /\ r.to \in Backends /\ r.draft.doc \in Docs
  BY <1>1 DEF TypeInv, Aimed, Pushing, Request, Draft
<1>3. CASE At(f, "done") /\ call'[f] = call[f]
  BY <1>2, <1>3, NotesStay DEF Answered, At
<1>4. CASE At(f, "sent") /\ call'[f].req = r /\ Writes(r) /\ note' = Written(r)
  <2>1. r \in Request /\ Fresh(r)
    BY <1>1, <1>2, <1>4 DEF At, LooksOnce
  <2>2. note'[r.to][r.draft.doc] # <<>>
    BY <1>4, <2>1, WrittenOnce DEF OnceInv, TypeInv
  <2> QED BY <1>4, <2>2
<1> QED BY <1>1, <1>3, <1>4, AnswerStep

\* Which drafts a step leaves: the same, those of an answer, those of the user,
\* or the persisted ones.
LEMMA DraftStep ==
  ASSUME TypeInv, [Next]_vars
  PROVE  \/ UNCHANGED <<local, ids>> /\ stored' \in {stored, local}
         \/ \E f \in Chains : PushAnswered(f)
         \/ \E i \in Ids : Edit(i)
         \/ \E d \in trash : Restore(d)
         \/ Reload
<1>1. CASE User
  BY <1>1 DEF User, Connect, Disconnect, SignOut, SyncAll, SignIn, drafts
<1>2. CASE StartSession \/ Leaves \/ ServeLate \/ (\E f \in Chains : Serve(f)) \/ UNCHANGED vars
  BY <1>2 DEF StartSession, Leaves, ServeLate, Serve, vars, drafts
<1>3. ASSUME NEW f \in Chains, CallStep(f), ~PushAnswered(f)
      PROVE  UNCHANGED <<local, ids>> /\ stored' \in {stored, local}
  BY <1>3 DEF CallStep, CheckFails, CheckAnswers, SignInFails, SignInAnswers, SettingsAnswer, LoadEnds,
         PushNext, PushFails, DraftsSaved, PushEnds, drafts
<1> QED BY <1>1, <1>2, <1>3 DEF Next

\* The draft an answer removes or replaces is the one that was pushed, of the
\* same document, and that document has a note.
LEMMA AnswerRemovesPushed ==
  ASSUME GoneInv, NEW f \in Chains, PushAnswered(f)
  PROVE  LET i == call[f].cur
             d == call[f].req.draft
         IN /\ i \in Ids /\ d \in Draft /\ i <= ids
            /\ local[i] # NoDraft => local[i].doc = d.doc
            /\ Arrived(d.doc)
            /\ local' \in {[local EXCEPT ![i] = IF @ = NoDraft THEN @ ELSE d], [local EXCEPT ![i] = NoDraft]}
<1>1. /\ call[f].cur \in Ids /\ call[f].req \in Request
      /\ call[f].req.draft = call[f].todo[call[f].cur] /\ call[f].req.draft \in Draft
  BY DEF GoneInv, OnceInv, TypeInv, Aimed, Pushing, PushAnswered, At, Request
<1>2. call[f].todo[call[f].cur] # NoDraft
  BY <1>1, Empties
<1>3. Arrived(call[f].req.draft.doc)
  <2>1. call[f].req.to \in Backends
    BY <1>1 DEF Request
  <2> QED BY <2>1 DEF GoneInv, Answered, Arrived, PushAnswered
<1> QED BY <1>1, <1>2, <1>3 DEF GoneInv, Captured, PushAnswered

LEMMA DraftsType ==
  ASSUME TypeOK
  PROVE  /\ ids \in Nat /\ Ids \subseteq Nat
         /\ \A i \in Ids : /\ local[i] \in Draft \cup {NoDraft} /\ (local[i] # NoDraft => local[i].doc \in Docs)
                           /\ stored[i] \in Draft \cup {NoDraft}
         /\ \A f \in Chains, i \in Ids : call[f].todo[i] \in Draft \cup {NoDraft}
         /\ NoDraft.doc \notin Docs
BY SessionAssumption DEF TypeOK, Ids, Draft, Call, NoDraft

LEMMA StepKeepsCaptured ==
  ASSUME GoneInv, [Next]_vars
  PROVE  Captured'
<1>0. TypeInv /\ TypeOK /\ Captured /\ local \in [Ids -> Draft \cup {NoDraft}]
  BY DEF GoneInv, OnceInv, TypeInv, TypeOK
<1>1. SUFFICES
        /\ \A i \in Ids : i > ids' => local'[i] = NoDraft /\ stored'[i] = NoDraft
        /\ \A f \in Chains, i \in Ids : call'[f].todo[i] # NoDraft =>
             i <= ids' /\ (local'[i] # NoDraft => call'[f].todo[i].doc = local'[i].doc)
  BY DEF Captured
<1>2. CASE UNCHANGED <<local, ids>> /\ stored' \in {stored, local}
  <2>1. ASSUME NEW i \in Ids, i > ids' PROVE local'[i] = NoDraft /\ stored'[i] = NoDraft
    BY <1>0, <1>2, <2>1 DEF Captured
  <2>2. ASSUME NEW f \in Chains, NEW i \in Ids, call'[f].todo[i] # NoDraft
        PROVE  i <= ids' /\ (local'[i] # NoDraft => call'[f].todo[i].doc = local'[i].doc)
    <3>1. CASE call'[f].todo[i] = local[i]
      BY <1>0, <1>2, <2>2, <3>1, DraftsType DEF Captured
    <3>2. CASE call'[f].todo[i] = call[f].todo[i]
      BY <1>0, <1>2, <2>2, <3>2 DEF Captured
    <3> QED BY <1>0, <2>2, <3>1, <3>2, CaptureStep
  <2> QED BY <2>1, <2>2
<1>3. ASSUME NEW g \in Chains, PushAnswered(g) PROVE Captured'
  <2> DEFINE k == call[g].cur
             d == call[g].req.draft
  <2>1. /\ k \in Ids /\ d \in Draft /\ k <= ids
        /\ local[k] # NoDraft => local[k].doc = d.doc
        /\ local' \in {[local EXCEPT ![k] = IF @ = NoDraft THEN @ ELSE d], [local EXCEPT ![k] = NoDraft]}
        /\ ids' = ids /\ stored' = stored
    BY <1>3, AnswerRemovesPushed DEF PushAnswered
  <2> HIDE DEF k, d
  <2>2. \A i \in Ids : local'[i] # NoDraft => local[i] # NoDraft /\ local'[i].doc = local[i].doc
    BY <1>0, <2>1
  <2>3. ASSUME NEW f \in Chains, NEW i \in Ids, call'[f].todo[i] # NoDraft
        PROVE  i <= ids' /\ (local'[i] # NoDraft => call'[f].todo[i].doc = local'[i].doc)
    <3>1. CASE call'[f].todo[i] = call[f].todo[i]
      BY <1>0, <2>1, <2>2, <2>3, <3>1 DEF Captured
    <3>2. CASE call'[f].todo[i] = local[i] /\ local' = local
      BY <1>0, <2>1, <2>3, <3>2, DraftsType DEF Captured
    <3> QED BY <1>0, <2>3, <3>1, <3>2, CaptureStep
  <2> QED BY <1>0, <2>1, <2>2, <2>3 DEF Captured
<1>4. ASSUME NEW k \in Ids, Edit(k) PROVE Captured'
  <2>1. /\ local[k] # NoDraft /\ local' = [local EXCEPT ![k].text = texts'] /\ stored' = local'
        /\ UNCHANGED <<ids, call>>
    BY <1>4 DEF Edit
  <2>2. \A i \in Ids : i # k => local'[i] = local[i]
    BY <1>0, <2>1
  <2>3. local'[k].doc = local[k].doc
    <3>1. local[k] \in Draft
      BY <1>0, <2>1
    <3> QED BY <1>0, <2>1, <3>1 DEF Draft
  <2> QED BY <1>0, <2>1, <2>2, <2>3, DraftsType DEF Captured
<1>5. ASSUME NEW d \in trash, Restore(d) PROVE Captured'
  <2>1. /\ ids' = ids + 1 /\ local' = [local EXCEPT ![ids'] = d] /\ stored' = local' /\ call' = call
    BY <1>5 DEF Restore
  <2>2. \A i \in Ids : i # ids + 1 => local'[i] = local[i]
    BY <1>0, <2>1
  <2>3. \A f \in Chains : \A i \in Ids : call[f].todo[i] # NoDraft => i # ids + 1
    BY <1>0, DraftsType DEF Captured
  <2>4. ids \in Nat /\ Ids \subseteq Nat
    BY <1>0, DraftsType
  <2>5. ASSUME NEW i \in Ids, i > ids' PROVE local'[i] = NoDraft /\ stored'[i] = NoDraft
    <3>1. i > ids /\ i # ids + 1
      BY <2>1, <2>4, <2>5
    <3> QED BY <1>0, <2>1, <2>2, <3>1 DEF Captured
  <2>6. ASSUME NEW f \in Chains, NEW i \in Ids, call'[f].todo[i] # NoDraft
        PROVE  i <= ids' /\ (local'[i] # NoDraft => call'[f].todo[i].doc = local'[i].doc)
    <3>1. i <= ids /\ local'[i] = local[i]
      BY <1>0, <2>1, <2>2, <2>3, <2>6 DEF Captured
    <3>2. i <= ids'
      BY <2>1, <2>4, <3>1
    <3> QED BY <1>0, <2>1, <2>6, <3>1, <3>2 DEF Captured
  <2> QED BY <2>5, <2>6 DEF Captured
<1>6. CASE Reload
  <2>1. \A f \in Chains, i \in Ids : call'[f].todo[i] = NoDraft
    <3>1. [NoCall EXCEPT !.at = "auth", !.as = saved].todo = NoCall.todo
      BY Empties DEF Call
    <3> QED BY <1>6, <3>1, Empties DEF Reload
  <2> QED BY <1>0, <1>6, <2>1 DEF Reload, Captured
<1> QED BY <1>0, <1>2, <1>3, <1>4, <1>5, <1>6, DraftStep DEF Captured

LEMMA StepKeepsDrafts ==
  ASSUME GoneInv, [Next]_vars
  PROVE  Kept(local)' /\ Kept(stored)'
<1>0. /\ TypeOK /\ OnceInv /\ TypeInv /\ Kept(local) /\ Kept(stored)
      /\ local \in [Ids -> Draft \cup {NoDraft}]
  BY DEF GoneInv, OnceInv, TypeInv, TypeOK
<1>1. ASSUME NEW ds, NEW es, Kept(ds),
             \A j \in Ids : ds[j].doc \in Docs =>
                 (\E k \in Ids : es[k].doc = ds[j].doc) \/ Arrived(ds[j].doc)
      PROVE  \A i \in Ids : First[i] # None => (\E j \in Ids : es[j].doc = First[i]) \/ Arrived(First[i])'
  BY <1>0, <1>1, KeptBy
<1>2. ASSUME \A j \in Ids : local[j].doc \in Docs =>
                 (\E k \in Ids : local'[k].doc = local[j].doc) \/ Arrived(local[j].doc)
      PROVE  Kept(local)'
  BY <1>0, <1>1, <1>2 DEF Kept
<1>3. \A i \in Ids : First[i] # None => (\E j \in Ids : stored[j].doc = First[i]) \/ Arrived(First[i])'
  BY <1>0, <1>1
<1>4. \A i \in Ids : First[i] # None => (\E j \in Ids : local[j].doc = First[i]) \/ Arrived(First[i])'
  BY <1>0, <1>1
<1>5. CASE UNCHANGED <<local, ids>> /\ stored' \in {stored, local}
  BY <1>3, <1>4, <1>5 DEF Kept
<1>6. ASSUME NEW g \in Chains, PushAnswered(g) PROVE Kept(local)' /\ stored' = stored
  <2> DEFINE k == call[g].cur
             d == call[g].req.draft
  <2>1. /\ k \in Ids /\ (local[k] # NoDraft => local[k].doc = d.doc) /\ Arrived(d.doc)
        /\ local' \in {[local EXCEPT ![k] = IF @ = NoDraft THEN @ ELSE d], [local EXCEPT ![k] = NoDraft]}
    BY <1>6, AnswerRemovesPushed
  <2>2. \A j \in Ids : j # k => local'[j] = local[j]
    BY <1>0, <2>1
  <2>3. local[k].doc \in Docs => Arrived(local[k].doc)
    BY <1>0, <2>1, DraftsType
  <2> HIDE DEF k, d
  <2> QED BY <1>2, <1>6, <2>1, <2>2, <2>3 DEF PushAnswered
<1>7. ASSUME NEW k \in Ids, Edit(k) PROVE Kept(local)' /\ stored' = local'
  <2>1. local[k] \in Draft /\ local' = [local EXCEPT ![k].text = texts'] /\ stored' = local'
    BY <1>0, <1>7 DEF Edit
  <2>2. \A j \in Ids : local'[j].doc = local[j].doc
    BY <1>0, <2>1 DEF Draft
  <2> QED BY <1>2, <2>1, <2>2
<1>8. ASSUME NEW d \in trash, Restore(d) PROVE Kept(local)' /\ stored' = local'
  <2>1. ids' = ids + 1 /\ local' = [local EXCEPT ![ids'] = d] /\ stored' = local'
    BY <1>8 DEF Restore
  <2>2. \A j \in Ids : local[j].doc \in Docs => local'[j] = local[j]
    <3>1. \A j \in Ids : j > ids => local[j] = NoDraft
      BY DEF GoneInv, Captured
    <3>2. \A j \in Ids : local[j].doc \in Docs => j # ids + 1
      BY <1>0, <3>1, DraftsType
    <3> QED BY <1>0, <2>1, <3>2
  <2> QED BY <1>2, <2>1, <2>2
<1>9. CASE Reload
  BY <1>3, <1>9 DEF Reload, Kept
<1>10. Kept(stored)'
  BY <1>0, <1>3, <1>4, <1>5, <1>6, <1>7, <1>8, <1>9, DraftStep DEF Kept, Reload
<1> QED BY <1>0, <1>5, <1>6, <1>7, <1>8, <1>9, <1>10, DraftStep

LEMMA StepKeepsBinned ==
  ASSUME GoneInv, [Next]_vars
  PROVE  Binned'
<1>1. \A x \in trash' : x \in trash \/ \E f \in Chains : PushAnswered(f) /\ x = call[f].req.draft
  <2>1. CASE User
    BY <2>1 DEF User, Edit, Restore, Connect, Disconnect, SignOut, SyncAll, Reload, SignIn, drafts
  <2>2. CASE StartSession \/ Leaves \/ ServeLate \/ (\E f \in Chains : Serve(f)) \/ UNCHANGED vars
    BY <2>2 DEF StartSession, Leaves, ServeLate, Serve, vars, drafts
  <2>3. ASSUME NEW f \in Chains, CallStep(f), ~PushAnswered(f) PROVE UNCHANGED trash
    BY <2>3 DEF CallStep, CheckFails, CheckAnswers, SignInFails, SignInAnswers, SettingsAnswer, LoadEnds,
           PushNext, PushFails, DraftsSaved, PushEnds, drafts
  <2>4. ASSUME NEW f \in Chains, PushAnswered(f) PROVE trash' \subseteq trash \cup {call[f].req.draft}
    BY <2>4 DEF PushAnswered
  <2> QED BY <2>1, <2>2, <2>3, <2>4 DEF Next
<1>2. ASSUME NEW x \in trash' PROVE x.doc \in Docs /\ Arrived(x.doc)
  <2>1. CASE x \in trash
    BY <2>1 DEF GoneInv, Binned, OnceInv, TypeInv, TypeOK, Draft
  <2>2. ASSUME NEW f \in Chains, PushAnswered(f), x = call[f].req.draft PROVE x.doc \in Docs /\ Arrived(x.doc)
    BY <2>2, AnswerRemovesPushed DEF Draft
  <2> QED BY <1>1, <2>1, <2>2
<1>3. OnceInv
  BY DEF GoneInv
<1> QED BY <1>2, <1>3, NotesStay DEF Binned, Arrived

LEMMA InitGone ==
  ASSUME Init
  PROVE  GoneInv
<1>1. \A i \in Ids : local[i].doc = First[i] /\ stored[i].doc = First[i]
  BY DEF Init
<1>2. Captured
  <2>1. \A f \in Chains, i \in Ids : call[f].todo[i] = NoDraft
    BY Empties DEF Init
  <2>2. ids \in Nat /\ Ids \subseteq Nat
    BY InitTyped, DraftsType DEF TypeInv
  <2>3. ASSUME NEW i \in Ids, i > ids PROVE local[i] = NoDraft /\ stored[i] = NoDraft
    <3>1. First[i] = None
      BY <2>2, <2>3 DEF Init
    <3> QED BY <3>1 DEF Init, NoDraft
  <2> QED BY <2>1, <2>3 DEF Captured
<1>3. Answered
  BY Empties DEF Init, Answered, At
<1>4. Kept(local) /\ Kept(stored)
  BY <1>1 DEF Kept
<1>5. Binned
  BY DEF Init, Binned
<1> QED BY <1>2, <1>3, <1>4, <1>5, InitOnce DEF GoneInv

\* A draft leaves this browser only once a backend has a note of its document,
\* through lost answers, crashes, edits, and pushes at the same time.
THEOREM DraftsArrive == Spec => []GoneDraftsArrived
<1>1. Init => GoneInv
  BY InitGone
<1>2. GoneInv /\ [Next]_vars => GoneInv'
  <2> SUFFICES ASSUME GoneInv, [Next]_vars PROVE GoneInv'
    OBVIOUS
  <2>1. OnceInv' /\ Answered'
    BY StepKeepsOnce, StepKeepsAnswered DEF GoneInv
  <2> QED BY <2>1, StepKeepsCaptured, StepKeepsDrafts, StepKeepsBinned DEF GoneInv
<1>3. GoneInv => GoneDraftsArrived
  BY DEF GoneInv, Kept, Arrived, Binned, GoneDraftsArrived
<1> QED BY <1>1, <1>2, <1>3, PTL DEF Spec
=============================================================================
