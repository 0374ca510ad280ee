--------------------------- MODULE SessionsProofs ---------------------------
(***************************************************************************)
(* Proofs about Sessions for any number of users, tabs, chats and deletes: *)
(* whose chats a file and a tab may hold, that deleted chats stay deleted, *)
(* and that what is saved is what is shown, each but for the named causes. *)
(***************************************************************************)
EXTENDS Sessions, FiniteSetTheorems, TLAPS

Reqs == [at : {"none", "sent", "ready", "open"}, by : Tabs \cup {NoOne}, as : Users \cup {NoOne},
         id : Chats \cup {0}, list : SUBSET Chats]

(* Every list, and every deleted chat, is of chats made so far.            *)
Known == 1 .. Len(made)

TabOK(t) ==
  /\ stage[t] = "out" => chats[t] = {}
  /\ stage[t] # "out" => user[t] \in Users
  /\ stage[t] = "on" => chats[t] # {}
  /\ chats[t] \subseteq Known

RequestOK(r) ==
  /\ req[r].list \subseteq Known
  /\ req[r].at # "none" => req[r].as \in Users /\ req[r].by \in Tabs
  /\ req[r].at = "none" => req[r] = NoRequest
  /\ req[r].id \in Known \cup {0}

RequestsOK == req \in [Slots -> Reqs] /\ \A r \in Slots : RequestOK(r)
FilesOK    == \A u \in Users : file[u] = Broken \/ file[u] \subseteq Known

SessInv ==
  /\ cookie \in Users \cup {NoOne}
  /\ file \in [Users -> (SUBSET Chats) \cup {Broken}]
  /\ stage \in [Tabs -> Stages]
  /\ user \in [Tabs -> Users \cup {NoOne}]
  /\ chats \in [Tabs -> SUBSET Chats]
  /\ timer \in [Tabs -> BOOLEAN]
  /\ made \in Seq(Users) /\ Len(made) <= MaxChats
  /\ deleted \subseteq Known /\ echoed \subseteq Chats
  /\ source \in [Users -> Tabs \cup Slots \cup {NoOne}]
  /\ FilesOK /\ RequestsOK
  /\ \A t \in Tabs : TabOK(t)

(* Whose chats the lists hold.                                             *)
OwnFiles   == \A u \in Users : file[u] # Broken => Own(u, file[u])
OwnTab(t)  == stage[t] # "switching" => Own(user[t], chats[t])
OwnSent(r) ==
  req[r].at # "none" => /\ Own(req[r].as, req[r].list)
                        /\ req[r].id # 0 => made[req[r].id] = req[r].as

OwnInv == ~strayed /\ ~carried =>
            OwnFiles /\ (\A t \in Tabs : OwnTab(t)) /\ \A r \in Slots : OwnSent(r)

(* A deleted chat that nothing else held is in no list, and in no file once*)
(* its DELETE is served.                                                   *)
Gone(c) ==
  /\ \A t \in Tabs : c \notin chats[t]
  /\ \A r \in Slots : c \notin req[r].list
  /\ \A u \in Users : c \in file[u] => \E r \in Slots : req[r].id = c

GoneInv == ~strayed /\ ~carried => \A c \in deleted \ echoed : Gone(c)

(* The request that settles the file of a user is alone under way, and its *)
(* tab has what the file will be; or it has what the file is.              *)
Settled(u) ==
  /\ source[u] \in Tabs => UnderWay(u) = {}
  /\ \A r \in Slots : source[u] = r =>
       UnderWay(u) = {r} /\ (req[r].at = "open" => file[u] = Broken)

Outcome(r, u) == IF req[r].at = "sent" THEN Loaded(u) \ {req[r].id} ELSE req[r].list

Follows(t) ==
  /\ source[user[t]] = t => file[user[t]] = chats[t]
  /\ \A r \in Slots : source[user[t]] = r /\ req[r].by = t => Outcome(r, user[t]) = chats[t]

ShownInv ==
  /\ \A u \in Users : Settled(u)
  /\ \A t \in Tabs : stage[t] = "on" /\ ~timer[t] => Follows(t)

-----------------------------------------------------------------------------
(* Chats are only ever added.                                              *)
Grows(u) == made' = made \/ (Len(made) < MaxChats /\ made' = Append(made, u))

LEMMA MadeGrows ==
  ASSUME SessInv, NEW u \in Users, Grows(u)
  PROVE  /\ made' \in Seq(Users) /\ Len(made') <= MaxChats /\ Known \subseteq Known'
         /\ \A c \in Known : made'[c] = made[c]
         /\ Known' \subseteq Chats
         /\ made' # made => /\ Len(made') \in Known' /\ Len(made') \notin Known
                            /\ made'[Len(made')] = u
<1>1. made \in Seq(Users) /\ Len(made) \in Nat /\ Len(made) <= MaxChats
  BY DEF SessInv
<1>2. CASE made' = made
  BY <1>1, <1>2, BoundsAssumption DEF Known, Chats
<1>3. CASE Len(made) < MaxChats /\ made' = Append(made, u)
  <2>1. Len(made') = Len(made) + 1 /\ made' \in Seq(Users)
    BY <1>1, <1>3
  <2> QED
    BY <1>1, <1>3, <2>1, BoundsAssumption DEF Known, Chats
<1> QED
  BY <1>2, <1>3 DEF Grows

LEMMA KnownIsChats == SessInv => Known \subseteq Chats /\ 0 \notin Chats /\ Broken \notin SUBSET Chats
  BY BoundsAssumption DEF SessInv, Known, Chats, Broken

(* Adding a chat to a list.                                                *)
LEMMA ChatAdded ==
  ASSUME SessInv, NEW t \in Tabs, NEW old \in SUBSET Known, AddChat(t, old), user[t] \in Users
  PROVE  /\ Grows(user[t]) /\ made' # made /\ \A s \in Tabs \ {t} : chats'[s] = chats[s] /\ timer'[s] = timer[s]
         /\ chats'[t] = old \cup {Len(made')} /\ chats'[t] \subseteq Known' /\ timer'[t]
         /\ chats' \in [Tabs -> SUBSET Chats] /\ timer' \in [Tabs -> BOOLEAN]
<1>1. Grows(user[t]) /\ made' = Append(made, user[t])
  BY DEF AddChat, Grows
<1>2. made' # made
  BY DEF AddChat, SessInv
<1>3. /\ Len(made') \in Known' /\ Known \subseteq Known' /\ Known' \subseteq Chats
  BY <1>1, <1>2, MadeGrows
<1>4. /\ chats' = [chats EXCEPT ![t] = old \cup {Len(made')}] /\ timer' = [timer EXCEPT ![t] = TRUE]
      /\ chats \in [Tabs -> SUBSET Chats] /\ timer \in [Tabs -> BOOLEAN]
  BY DEF AddChat, SessInv
<1>5. old \cup {Len(made')} \subseteq Known'
  BY <1>3
<1>6. timer' \in [Tabs -> BOOLEAN] /\ timer'[t] /\ \A s \in Tabs \ {t} : timer'[s] = timer[s]
  BY <1>4
<1> QED
  BY <1>1, <1>2, <1>3, <1>4, <1>5, <1>6

(* What a tab may send.                                                    *)
Fits(t, q) ==
  /\ q \in Reqs /\ q.at # "none" /\ q.by = t /\ q.as = cookie
  /\ q.list \subseteq Known /\ q.id \in Known \cup {0}

LEMMA PostFits == ASSUME SessInv, NEW t \in Tabs PROVE Fits(t, Post(t))
  BY DEF SessInv, TabOK, Fits, Post, Reqs

LEMMA DeleteFits == ASSUME SessInv, NEW t \in Tabs, NEW c \in Known PROVE Fits(t, DeleteOf(t, c))
  BY KnownIsChats DEF SessInv, Fits, DeleteOf, Reqs

(* Requests stay well-typed as chats are added.                            *)
LEMMA RequestsStay == ASSUME SessInv, UNCHANGED req, Known \subseteq Known' PROVE RequestsOK'
<1>1. req \in [Slots -> Reqs] /\ \A r \in Slots : RequestOK(r)
  BY DEF SessInv, RequestsOK
<1>2. ASSUME NEW r \in Slots PROVE RequestOK(r)'
  BY <1>1, <1>2 DEF RequestOK
<1> QED
  BY <1>1, <1>2 DEF RequestsOK

(* One request is replaced.                                                *)
LEMMA OneRequest ==
  ASSUME SessInv, Known \subseteq Known', NEW r \in Slots, NEW q \in Reqs, req' = [req EXCEPT ![r] = q],
         q.list \subseteq Known, q.id \in Known \cup {0},
         q.at # "none" => q.as \in Users /\ q.by \in Tabs, q.at = "none" => q = NoRequest
  PROVE  RequestsOK' /\ req'[r] = q /\ \A s \in Slots \ {r} : req'[s] = req[s]
<1>1. req \in [Slots -> Reqs] /\ \A s \in Slots : RequestOK(s)
  BY DEF SessInv, RequestsOK
<1>2. req' \in [Slots -> Reqs] /\ req'[r] = q /\ \A s \in Slots \ {r} : req'[s] = req[s]
  BY <1>1
<1>3. RequestOK(r)'
  BY <1>2 DEF RequestOK
<1>4. ASSUME NEW s \in Slots \ {r} PROVE RequestOK(s)'
  BY <1>1, <1>2, <1>4 DEF RequestOK
<1> QED
  BY <1>2, <1>3, <1>4 DEF RequestsOK

(* It is under way as request r.                                           *)
Goes(t, q, r) ==
  /\ Sent(t, q) /\ cookie \in Users /\ req[r] = NoRequest /\ req'[r] = q
  /\ \A s \in Slots \ {r} : req'[s] = req[s]
  /\ source' = [u \in Users |-> IF u \notin {cookie, user[t]} THEN source[u]
                                ELSE IF Clean(t, q.id) THEN r ELSE NoOne]

(* What a tab sends is under way, or lost.                                 *)
LEMMA Asked ==
  ASSUME SessInv, Known \subseteq Known', NEW t \in Tabs, NEW q, Fits(t, q), Sent(t, q) \/ Lost(t)
  PROVE  /\ RequestsOK' /\ source' \in [Users -> Tabs \cup Slots \cup {NoOne}]
         /\ \/ Lost(t) /\ req' = req
            \/ \E r \in Slots : Goes(t, q, r)
<1>1. cookie \in Users \cup {NoOne} /\ source \in [Users -> Tabs \cup Slots \cup {NoOne}]
  BY DEF SessInv
<1>2. CASE Lost(t)
  BY <1>1, <1>2, RequestsStay DEF Lost
<1>3. CASE Sent(t, q)
  <2>1. PICK r \in Slots : /\ cookie # NoOne /\ req[r] = NoRequest /\ req' = [req EXCEPT ![r] = q]
                           /\ source' = [u \in Users |-> IF u \notin {cookie, user[t]} THEN source[u]
                                                         ELSE IF Clean(t, q.id) THEN r ELSE NoOne]
    BY <1>3 DEF Sent
  <2>2. RequestsOK' /\ req'[r] = q /\ \A s \in Slots \ {r} : req'[s] = req[s]
    BY <1>1, <2>1, OneRequest DEF Fits
  <2>3. source' \in [Users -> Tabs \cup Slots \cup {NoOne}]
    BY <1>1, <2>1
  <2> QED
    BY <1>1, <1>3, <2>1, <2>2, <2>3 DEF Goes
<1> QED
  BY <1>2, <1>3

(* What the server does with request r: it changes the file of the user the*)
(* request is for, and the request.                                        *)
LEMMA ServerStep ==
  ASSUME SessInv, NEW r \in Slots, Serve(r)
  PROVE  /\ UNCHANGED <<cookie, stage, user, chats, timer, made, deleted, strayed, carried>>
         /\ echoed \subseteq echoed' /\ echoed' \subseteq Chats
         /\ req[r].at # "none" /\ req[r].as \in Users
         /\ \E q \in Reqs :
              /\ req'[r] = q /\ \A s \in Slots \ {r} : req'[s] = req[s]
              /\ \/ q = NoRequest
                 \/ /\ q.at # "none" /\ q.as = req[r].as /\ q.id = req[r].id /\ q.by = req[r].by
                    /\ \/ q.list = req[r].list
                       \/ q.list \subseteq Loaded(req[r].as) \ {req[r].id} /\ file' = file
         /\ \E out \in {file[req[r].as], Broken, req[r].list} : file' = [file EXCEPT ![req[r].as] = out]
         /\ RequestsOK' /\ source' \in [Users -> Tabs \cup Slots \cup {NoOne}]
<1> DEFINE u == req[r].as
<1>0. /\ req \in [Slots -> Reqs] /\ RequestOK(r) /\ deleted \subseteq Known /\ echoed \subseteq Chats
      /\ file \in [Users -> (SUBSET Chats) \cup {Broken}] /\ FilesOK
      /\ source \in [Users -> Tabs \cup Slots \cup {NoOne}] /\ Known \subseteq Chats
  BY KnownIsChats DEF SessInv, RequestsOK
<1>1. /\ req[r] \in Reqs /\ req[r].at # "none" /\ u \in Users /\ req[r].by \in Tabs
      /\ req[r].list \subseteq Known /\ req[r].id \in Known \cup {0}
  BY <1>0 DEF Serve, Read, Truncate, Write, Fail, RequestOK
<1>2. Known' = Known
  BY DEF Serve, Read, Truncate, Write, Fail, Known
<1>3. ASSUME \/ UNCHANGED source
             \/ source' = [v \in Users |-> IF source[v] = r THEN req[r].by ELSE source[v]]
             \/ source' = [v \in Users |-> IF source[v] = r THEN NoOne ELSE source[v]]
      PROVE  source' \in [Users -> Tabs \cup Slots \cup {NoOne}]
  BY <1>0, <1>1, <1>3
<1>4. NoRequest \in Reqs /\ NoRequest.list = {} /\ NoRequest.id = 0 /\ NoRequest.at = "none"
  BY DEF NoRequest, Reqs
<1>5. file = [file EXCEPT ![u] = file[u]]
  BY <1>0
<1>6. CASE Read(r)
  <2>1. PICK found \in {Loaded(u), {}} :
          /\ req' = [req EXCEPT ![r].at = "ready", ![r].list = found \ {req[r].id}]
          /\ IF found = Loaded(u) THEN UNCHANGED source ELSE Spoilt(r)
    BY <1>6 DEF Read
  <2>2. /\ UNCHANGED <<cookie, file, stage, user, chats, timer, made, deleted, strayed, carried>>
        /\ echoed' = echoed \cup (deleted \cap (Loaded(u) \ {req[r].id}))
    BY <1>6 DEF Read
  <2>3. Loaded(u) \subseteq Known
    BY <1>0, <1>1 DEF Loaded, FilesOK
  <2> DEFINE q == [req[r] EXCEPT !.at = "ready", !.list = found \ {req[r].id}]
  <2>4. /\ q \in Reqs /\ q.at = "ready" /\ q.as = u /\ q.by = req[r].by /\ q.id = req[r].id
        /\ q.list = found \ {req[r].id}
    BY <1>0, <1>1, <2>1, <2>3 DEF Reqs
  <2>5. req' = [req EXCEPT ![r] = q]
    BY <1>0, <2>1
  <2>6. q.list \subseteq Known /\ q.list \subseteq Loaded(u) \ {req[r].id}
    BY <2>1, <2>3, <2>4
  <2> HIDE DEF q
  <2>7. RequestsOK' /\ req'[r] = q /\ \A s \in Slots \ {r} : req'[s] = req[s]
    BY <1>1, <1>2, <2>4, <2>5, <2>6, OneRequest
  <2>8. source' \in [Users -> Tabs \cup Slots \cup {NoOne}]
    BY <1>3, <2>1 DEF Spoilt
  <2>9. echoed \subseteq echoed' /\ echoed' \subseteq Chats
    BY <1>0, <2>2
  <2> QED
    BY <1>1, <1>5, <2>2, <2>4, <2>6, <2>7, <2>8, <2>9
<1>7. CASE Truncate(r)
  <2> DEFINE q == [req[r] EXCEPT !.at = "open"]
  <2>1. /\ file' = [file EXCEPT ![u] = Broken] /\ req' = [req EXCEPT ![r] = q]
        /\ UNCHANGED <<cookie, stage, user, chats, timer, made, deleted, echoed, strayed, carried, source>>
    BY <1>0, <1>7 DEF Truncate
  <2>2. /\ q \in Reqs /\ q.at = "open" /\ q.as = u /\ q.by = req[r].by /\ q.id = req[r].id
        /\ q.list = req[r].list
    BY <1>1 DEF Reqs
  <2> HIDE DEF q
  <2>3. RequestsOK' /\ req'[r] = q /\ \A s \in Slots \ {r} : req'[s] = req[s]
    BY <1>1, <1>2, <2>1, <2>2, OneRequest
  <2> QED
    BY <1>0, <1>1, <2>1, <2>2, <2>3
<1>8. CASE Write(r) \/ Fail(r)
  <2>1. /\ req' = [req EXCEPT ![r] = NoRequest] /\ (Served(r) \/ Spoilt(r))
        /\ UNCHANGED <<cookie, stage, user, chats, timer, made, deleted, strayed, carried>>
        /\ echoed' = echoed \/ echoed' = echoed \cup ({req[r].id} \cap Chats)
    BY <1>8 DEF Write, Fail
  <2>2. \E out \in {file[u], Broken, req[r].list} : file' = [file EXCEPT ![u] = out]
    BY <1>8 DEF Write, Fail
  <2>3. RequestsOK' /\ req'[r] = NoRequest /\ \A s \in Slots \ {r} : req'[s] = req[s]
    BY <1>2, <1>4, <2>1, OneRequest
  <2>4. source' \in [Users -> Tabs \cup Slots \cup {NoOne}]
    BY <1>3, <2>1 DEF Served, Spoilt
  <2> QED
    BY <1>0, <1>1, <1>4, <2>1, <2>2, <2>3, <2>4
<1> QED
  BY <1>6, <1>7, <1>8 DEF Serve

(* A step of tab t leaves the others well-typed.                           *)
LEMMA TabTyped ==
  ASSUME SessInv, NEW t \in Tabs, UNCHANGED file,
         made' \in Seq(Users), Len(made') <= MaxChats, Known \subseteq Known',
         cookie' \in Users \cup {NoOne}, RequestsOK',
         source' \in [Users -> Tabs \cup Slots \cup {NoOne}],
         stage' \in [Tabs -> Stages], user' \in [Tabs -> Users \cup {NoOne}],
         chats' \in [Tabs -> SUBSET Chats], timer' \in [Tabs -> BOOLEAN],
         deleted' \subseteq Known', echoed' \subseteq Chats, TabOK(t)',
         \A s \in Tabs \ {t} : stage'[s] = stage[s] /\ user'[s] = user[s] /\ chats'[s] = chats[s]
  PROVE  SessInv'
<1>1. ASSUME NEW s \in Tabs PROVE TabOK(s)'
  BY <1>1 DEF SessInv, TabOK
<1>2. FilesOK'
  BY DEF SessInv, FilesOK
<1> QED
  BY <1>1, <1>2 DEF SessInv

LEMMA InitTypes == Init => SessInv
<1> SUFFICES ASSUME Init PROVE SessInv
  OBVIOUS
<1>1. NoRequest \in Reqs /\ \A r \in Slots : RequestOK(r)
  BY DEF Init, NoRequest, Reqs, RequestOK
<1>2. \A t \in Tabs : TabOK(t)
  BY DEF Init, TabOK
<1>3. made \in Seq(Users) /\ Len(made) <= MaxChats /\ FilesOK
  BY BoundsAssumption DEF Init, FilesOK
<1> QED
  BY <1>1, <1>2, <1>3 DEF Init, SessInv, Stages, RequestsOK

LEMMA StepTypes == SessInv /\ [Next]_vars => SessInv'
<1> SUFFICES ASSUME SessInv, [Next]_vars PROVE SessInv'
  OBVIOUS
<1>0. /\ cookie \in Users \cup {NoOne} /\ file \in [Users -> (SUBSET Chats) \cup {Broken}]
      /\ stage \in [Tabs -> Stages] /\ user \in [Tabs -> Users \cup {NoOne}]
      /\ chats \in [Tabs -> SUBSET Chats] /\ timer \in [Tabs -> BOOLEAN]
      /\ made \in Seq(Users) /\ Len(made) <= MaxChats
      /\ deleted \subseteq Known /\ echoed \subseteq Chats /\ FilesOK /\ RequestsOK
      /\ source \in [Users -> Tabs \cup Slots \cup {NoOne}]
      /\ \A t \in Tabs : TabOK(t)
  BY DEF SessInv
<1>k. Known \subseteq Chats /\ {} \subseteq Known
  BY KnownIsChats
(* Steps of a tab that make no chat and send nothing.                      *)
<1>1. ASSUME NEW t \in Tabs, UNCHANGED <<file, req, source, made, timer, deleted, echoed>>,
             cookie' \in Users \cup {NoOne},
             NEW st \in Stages, stage' = [stage EXCEPT ![t] = st],
             NEW u \in Users \cup {NoOne}, user' = [user EXCEPT ![t] = u],
             NEW list \in SUBSET Known, chats' = [chats EXCEPT ![t] = list],
             st = "out" => list = {}, st # "out" => u \in Users, st # "on"
      PROVE  SessInv'
  <2>1. /\ stage' \in [Tabs -> Stages] /\ user' \in [Tabs -> Users \cup {NoOne}]
        /\ chats' \in [Tabs -> SUBSET Chats] /\ stage'[t] = st /\ user'[t] = u /\ chats'[t] = list
        /\ \A s \in Tabs \ {t} : stage'[s] = stage[s] /\ user'[s] = user[s] /\ chats'[s] = chats[s]
    BY <1>0, <1>k, <1>1
  <2>2. Known' = Known
    BY <1>1 DEF Known
  <2>3. TabOK(t)' /\ RequestsOK'
    BY <1>0, <1>1, <2>1, <2>2, RequestsStay DEF TabOK
  <2> QED
    BY <1>0, <1>1, <2>1, <2>2, <2>3, TabTyped
<1>2. ASSUME NEW t \in Tabs, LeaveServer(t) \/ GoOut(t) \/ GoToForm(t) PROVE SessInv'
  <2>1. user = [user EXCEPT ![t] = user[t]] /\ chats = [chats EXCEPT ![t] = chats[t]]
        /\ chats[t] \subseteq Known /\ stage[t] # "out" /\ user[t] \in Users
    BY <1>0, <1>2 DEF LeaveServer, GoOut, GoToForm, TabOK
  <2>2. CASE GoOut(t)
    <3>1. /\ UNCHANGED <<cookie, file, req, source, made, timer, deleted, echoed>>
          /\ stage' = [stage EXCEPT ![t] = "out"] /\ user' = [user EXCEPT ![t] = NoOne]
          /\ chats' = [chats EXCEPT ![t] = {}]
      BY <2>2 DEF GoOut
    <3>2. "out" \in Stages /\ {} \in SUBSET Known /\ NoOne \in Users \cup {NoOne} /\ "out" # "on"
      BY DEF Stages
    <3> QED
      BY <1>0, <1>1, <3>1, <3>2
  <2>3. CASE LeaveServer(t) \/ GoToForm(t)
    BY <1>0, <1>1, <2>1, <2>3 DEF LeaveServer, GoToForm, Stages
  <2> QED
    BY <1>2, <2>2, <2>3
<1>3. ASSUME NEW t \in Tabs, NEW u \in Users, SignIn(t, u) PROVE SessInv'
  <2>1. chats = [chats EXCEPT ![t] = chats[t]] /\ chats[t] \in SUBSET Known
    BY <1>0 DEF TabOK
  <2>2. PICK st \in {"switching", "entering"} : stage' = [stage EXCEPT ![t] = st]
    BY <1>3 DEF SignIn
  <2>3. /\ cookie' \in Users \cup {NoOne} /\ user' = [user EXCEPT ![t] = u]
        /\ UNCHANGED <<file, req, source, made, timer, deleted, echoed>> /\ chats' = chats
    BY <1>3 DEF SignIn
  <2>4. st \in Stages /\ st # "out" /\ st # "on"
    BY <2>2 DEF Stages
  <2>5. u \in Users \cup {NoOne}
    OBVIOUS
  <2>6. chats' = [chats EXCEPT ![t] = chats[t]]
    BY <2>1, <2>3
  <2> QED
    BY <1>1, <2>1, <2>2, <2>3, <2>4, <2>5, <2>6
<1>4. ASSUME NEW t \in Tabs, Enter(t) PROVE SessInv'
  <2>1. user = [user EXCEPT ![t] = user[t]] /\ chats[t] \subseteq Known /\ user[t] \in Users
    BY <1>0, <1>4 DEF Enter, TabOK
  <2>2. PICK list \in {{}, chats[t]} : chats' = [chats EXCEPT ![t] = list]
    BY <1>4 DEF Enter
  <2>3. list \in SUBSET Known
    BY <1>k, <2>1
  <2> QED
    BY <1>0, <1>1, <1>4, <2>1, <2>2, <2>3 DEF Enter, Stages
(* A new chat in a tab.                                                    *)
<1>5. ASSUME NEW t \in Tabs, NEW old \in SUBSET Known, AddChat(t, old), user[t] \in Users,
             UNCHANGED <<cookie, file, user>>, stage' \in [Tabs -> Stages],
             stage'[t] # "out", \A s \in Tabs \ {t} : stage'[s] = stage[s], RequestsOK',
             source' \in [Users -> Tabs \cup Slots \cup {NoOne}],
             deleted' \subseteq Known', echoed' \subseteq Chats
      PROVE  SessInv'
  <2>1. /\ Grows(user[t]) /\ \A s \in Tabs \ {t} : chats'[s] = chats[s]
        /\ chats'[t] # {} /\ chats'[t] \subseteq Known'
        /\ chats' \in [Tabs -> SUBSET Chats] /\ timer' \in [Tabs -> BOOLEAN]
    BY <1>5, ChatAdded
  <2>2. made' \in Seq(Users) /\ Len(made') <= MaxChats /\ Known \subseteq Known'
    BY <1>5, <2>1, MadeGrows
  <2>3. TabOK(t)'
    BY <1>0, <1>5, <2>1, <2>2 DEF TabOK
  <2> QED
    BY <1>0, <1>5, <2>1, <2>2, <2>3, TabTyped
<1>6. ASSUME NEW t \in Tabs, Boot(t) PROVE SessInv'
  <2>1. PICK loaded \in {Loaded(cookie), {}} : /\ AddChat(t, IF loaded = {} THEN chats[t] ELSE loaded)
                                              /\ echoed' = echoed \cup (loaded \cap deleted)
    BY <1>6 DEF Boot
  <2>2. /\ stage[t] = "boot" /\ stage' = [stage EXCEPT ![t] = "on"]
        /\ UNCHANGED <<cookie, file, user, req, deleted, source>>
    BY <1>6 DEF Boot
  <2>3. loaded \in SUBSET Known
    BY <1>0, <2>1 DEF Loaded, FilesOK
  <2> DEFINE old == IF loaded = {} THEN chats[t] ELSE loaded
  <2>4. old \in SUBSET Known /\ user[t] \in Users
    BY <1>0, <2>2, <2>3 DEF TabOK
  <2>5. AddChat(t, old) /\ Grows(user[t])
    BY <2>1 DEF AddChat, Grows
  <2>6. Known \subseteq Known'
    BY <2>4, <2>5, MadeGrows
  <2>7. RequestsOK'
    BY <2>2, <2>6, RequestsStay
  <2>8. stage' \in [Tabs -> Stages] /\ stage'[t] # "out" /\ \A s \in Tabs \ {t} : stage'[s] = stage[s]
    BY <1>0, <2>2 DEF Stages
  <2>9. deleted' \subseteq Known' /\ echoed' \subseteq Chats
    BY <1>0, <1>k, <2>1, <2>2, <2>3, <2>6
  <2> HIDE DEF old
  <2> QED
    BY <1>0, <1>5, <2>2, <2>4, <2>5, <2>7, <2>8, <2>9
<1>7. ASSUME NEW t \in Tabs, NewChat(t) PROVE SessInv'
  <2>1. /\ AddChat(t, chats[t]) /\ stage[t] \in {"on", "leaving"}
        /\ UNCHANGED <<cookie, file, stage, user, req, source, deleted, echoed>>
    BY <1>7 DEF NewChat
  <2>2. chats[t] \in SUBSET Known /\ user[t] \in Users
    BY <1>0, <2>1 DEF TabOK
  <2>3. Grows(user[t])
    BY <2>1 DEF AddChat, Grows
  <2>4. Known \subseteq Known'
    BY <2>2, <2>3, MadeGrows
  <2>5. RequestsOK'
    BY <2>1, <2>4, RequestsStay
  <2> QED
    BY <1>0, <1>5, <2>1, <2>2, <2>4, <2>5
<1>8. ASSUME NEW t \in Tabs, Edit(t) PROVE SessInv'
  <2>1. /\ UNCHANGED <<cookie, file, stage, user, chats, req, source, made, deleted, echoed>>
        /\ timer' \in [Tabs -> BOOLEAN]
    BY <1>0, <1>8 DEF Edit
  <2>2. Known' = Known
    BY <2>1 DEF Known
  <2>3. TabOK(t)' /\ RequestsOK'
    BY <1>0, <2>1, <2>2, RequestsStay DEF TabOK
  <2> QED
    BY <1>0, <2>1, <2>2, <2>3, TabTyped
<1>9. ASSUME NEW t \in Tabs, Fire(t) PROVE SessInv'
  <2>1. /\ SendSave(t) /\ timer' \in [Tabs -> BOOLEAN]
        /\ UNCHANGED <<cookie, file, stage, user, chats, made, deleted, echoed>>
    BY <1>0, <1>9 DEF Fire
  <2>2. Known' = Known
    BY <2>1 DEF Known
  <2>3. RequestsOK' /\ source' \in [Users -> Tabs \cup Slots \cup {NoOne}]
    BY <2>1, <2>2, PostFits, Asked DEF SendSave
  <2>4. TabOK(t)'
    BY <1>0, <2>1, <2>2 DEF TabOK
  <2> QED
    BY <1>0, <2>1, <2>2, <2>3, <2>4, TabTyped
<1>10. ASSUME NEW t \in Tabs, Reload(t) PROVE SessInv'
  <2>1. /\ SendSave(t) /\ timer' \in [Tabs -> BOOLEAN]
        /\ UNCHANGED <<cookie, file, made, deleted, echoed>>
    BY <1>0, <1>10 DEF Reload
  <2>2. Known' = Known
    BY <2>1 DEF Known
  <2>3. RequestsOK' /\ source' \in [Users -> Tabs \cup Slots \cup {NoOne}]
    BY <2>1, <2>2, PostFits, Asked DEF SendSave
  <2>4. /\ chats' \in [Tabs -> SUBSET Chats] /\ chats'[t] = {}
        /\ user' \in [Tabs -> Users \cup {NoOne}] /\ user'[t] = cookie
        /\ \A s \in Tabs \ {t} : chats'[s] = chats[s] /\ user'[s] = user[s]
    BY <1>0, <1>10 DEF Reload
  <2>5. /\ stage' \in [Tabs -> Stages] /\ \A s \in Tabs \ {t} : stage'[s] = stage[s]
        /\ stage'[t] # "on" /\ (cookie = NoOne => stage'[t] = "out")
    BY <1>0, <1>10 DEF Reload, Stages
  <2>6. TabOK(t)'
    BY <1>0, <1>k, <2>2, <2>4, <2>5 DEF TabOK
  <2> QED
    BY <1>0, <2>1, <2>2, <2>3, <2>4, <2>5, <2>6, TabTyped
<1>11. ASSUME NEW t \in Tabs, NEW c \in Chats, Delete(t, c) PROVE SessInv'
  <2>1. /\ stage[t] \in {"on", "leaving"} /\ c \in chats[t] \ deleted /\ Drop(t, c)
        /\ deleted' = deleted \cup {c} /\ UNCHANGED <<cookie, file, stage, user>>
        /\ Sent(t, DeleteOf(t, c)) \/ Lost(t)
        /\ echoed' = echoed \/ echoed' = echoed \cup {c}
    BY <1>11 DEF Delete
  <2>2. user[t] \in Users /\ c \in Known /\ chats[t] \subseteq Known
    BY <1>0, <2>1 DEF TabOK
  <2>3. ASSUME Known \subseteq Known' PROVE RequestsOK' /\ source' \in [Users -> Tabs \cup Slots \cup {NoOne}]
    BY <2>1, <2>2, <2>3, DeleteFits, Asked
  <2>4. echoed' \subseteq Chats
    BY <1>0, <2>1
  <2>5. CASE chats[t] = {c}
    <3>1. AddChat(t, {})
      BY <2>1, <2>5 DEF Drop
    <3>2. Grows(user[t])
      BY <3>1 DEF AddChat, Grows
    <3>3. Known \subseteq Known'
      BY <2>2, <3>2, MadeGrows
    <3>4. RequestsOK' /\ source' \in [Users -> Tabs \cup Slots \cup {NoOne}] /\ deleted' \subseteq Known'
      BY <1>0, <2>1, <2>2, <2>3, <3>3
    <3>5. {} \in SUBSET Known /\ stage'[t] # "out" /\ stage' \in [Tabs -> Stages]
          /\ \A s \in Tabs \ {t} : stage'[s] = stage[s]
      BY <1>0, <2>1
    <3> QED
      BY <1>5, <2>1, <2>2, <2>4, <3>1, <3>4, <3>5
  <2>6. CASE chats[t] # {c}
    <3>1. chats' = [chats EXCEPT ![t] = chats[t] \ {c}] /\ UNCHANGED <<made, timer>>
      BY <2>1, <2>6 DEF Drop
    <3>2. Known' = Known
      BY <3>1 DEF Known
    <3>3. /\ chats'[t] = chats[t] \ {c} /\ chats' \in [Tabs -> SUBSET Chats]
          /\ \A s \in Tabs \ {t} : chats'[s] = chats[s]
      BY <1>0, <3>1
    <3>4. TabOK(t)'
      BY <1>0, <2>1, <2>2, <2>6, <3>2, <3>3 DEF TabOK
    <3>5. RequestsOK' /\ source' \in [Users -> Tabs \cup Slots \cup {NoOne}] /\ deleted' \subseteq Known'
      BY <1>0, <2>1, <2>2, <2>3, <3>2
    <3> QED
      BY <1>0, <2>1, <2>4, <3>1, <3>2, <3>3, <3>4, <3>5, TabTyped
  <2> QED
    BY <2>5, <2>6
(* The server.                                                             *)
<1>12. ASSUME NEW r \in Slots, Serve(r) PROVE SessInv'
  <2>1. /\ UNCHANGED <<cookie, stage, user, chats, timer, made, deleted>> /\ echoed' \subseteq Chats
        /\ RequestsOK' /\ source' \in [Users -> Tabs \cup Slots \cup {NoOne}]
    BY <1>12, ServerStep
  <2>2. PICK out \in {file[req[r].as], Broken, req[r].list} : file' = [file EXCEPT ![req[r].as] = out]
    BY <1>12, ServerStep
  <2>3. req[r].as \in Users /\ req[r].list \subseteq Known
    BY <1>0, <1>12, ServerStep DEF RequestsOK, RequestOK
  <2>4. out = Broken \/ out \subseteq Known
    BY <1>0, <2>2, <2>3 DEF FilesOK
  <2>5. file' \in [Users -> (SUBSET Chats) \cup {Broken}] /\ \A v \in Users : file'[v] \in {file[v], out}
    BY <1>0, <1>k, <2>2, <2>4
  <2>6. Known' = Known
    BY <2>1 DEF Known
  <2>7. FilesOK' /\ \A t \in Tabs : TabOK(t)'
    BY <1>0, <2>1, <2>4, <2>5, <2>6 DEF FilesOK, TabOK
  <2> QED
    BY <1>0, <2>1, <2>5, <2>6, <2>7 DEF SessInv
<1>13. CASE Restart
  <2>1. /\ UNCHANGED <<file, stage, user, chats, timer, made, deleted>> /\ cookie' = NoOne
        /\ req' = [r \in Slots |-> NoRequest] /\ echoed' \subseteq Chats
        /\ source' = [u \in Users |-> IF source[u] \in Slots THEN NoOne ELSE source[u]]
    BY <1>0, <1>13 DEF Restart
  <2>2. NoRequest \in Reqs /\ RequestsOK'
    BY <2>1 DEF NoRequest, Reqs, RequestsOK, RequestOK
  <2>3. source' \in [Users -> Tabs \cup Slots \cup {NoOne}]
    BY <1>0, <2>1
  <2>4. Known' = Known
    BY <2>1 DEF Known
  <2>5. FilesOK' /\ \A t \in Tabs : TabOK(t)'
    BY <1>0, <2>1, <2>4 DEF FilesOK, TabOK
  <2> QED
    BY <1>0, <2>1, <2>2, <2>3, <2>4, <2>5 DEF SessInv
<1>14. CASE UNCHANGED vars
  <2>1. RequestsOK'
    BY <1>14, RequestsStay DEF vars, Known
  <2> QED
    BY <1>0, <1>14, <2>1 DEF vars, SessInv, Known, FilesOK, TabOK
<1>15. CASE Next
  BY <1>2, <1>3, <1>4, <1>6, <1>7, <1>8, <1>9, <1>10, <1>11, <1>12, <1>13, <1>15 DEF Next, TabStep
<1> QED
  BY <1>14, <1>15

(* Type correctness of the saved chats (SessTypeOK).                       *)
THEOREM SessionTypes == Spec => []SessTypeOK
<1>1. SessInv => SessTypeOK
  BY KnownIsChats DEF SessInv, SessTypeOK, TabOK, RequestsOK, RequestOK
<1> QED
  BY <1>1, InitTypes, StepTypes, PTL DEF Spec

-----------------------------------------------------------------------------
(* What a tab sends strays unless the tab shows the list of the cookie's   *)
(* user.                                                                   *)
LEMMA StraysOrShows ==
  ASSUME NEW t \in Tabs, NEW q, Sent(t, q) \/ Lost(t)
  PROVE  /\ strayed => strayed'
         /\ Sent(t, q) /\ ~strayed' => stage[t] \in {"on", "leaving", "form"} /\ cookie = user[t]
<1>1. CASE Lost(t) /\ ~Sent(t, q)
  <2>1. strayed' = strayed
    BY <1>1 DEF Lost
  <2> QED
    BY <1>1, <2>1, Zenon
<1>2. CASE Sent(t, q)
  <2>1. strayed' = (strayed \/ stage[t] \notin {"on", "leaving", "form"} \/ cookie # user[t])
    BY <1>2, Zenon DEF Sent
  <2> QED
    BY <2>1, Zenon
<1> QED
  BY <1>1, <1>2

(* No step takes a chat's maker, or a cause, back.                         *)
LEMMA StepGrows ==
  ASSUME SessInv, Next
  PROVE  /\ Known \subseteq Known' /\ \A c \in Known : made'[c] = made[c]
         /\ (strayed => strayed') /\ (carried => carried')
<1>1. made' = made => Known \subseteq Known' /\ \A c \in Known : made'[c] = made[c]
  BY DEF Known
<1>2. ASSUME NEW t \in Tabs, NEW old, AddChat(t, old), stage[t] # "out"
      PROVE  Known \subseteq Known' /\ \A c \in Known : made'[c] = made[c]
  <2>1. user[t] \in Users /\ Grows(user[t])
    BY <1>2 DEF SessInv, TabOK, AddChat, Grows
  <2> QED
    BY <2>1, MadeGrows
<1>3. ASSUME UNCHANGED <<made, strayed, carried>>
      PROVE  /\ Known \subseteq Known' /\ \A c \in Known : made'[c] = made[c]
             /\ (strayed => strayed') /\ (carried => carried')
  <2>1. strayed' = strayed /\ carried' = carried
    BY <1>3
  <2>2. (strayed => strayed') /\ (carried => carried')
    BY <2>1, Zenon
  <2> QED
    BY <1>1, <1>3, <2>2
<1>4. CASE Restart
  BY <1>3, <1>4 DEF Restart
<1>5. ASSUME NEW r \in Slots, Serve(r)
      PROVE  /\ Known \subseteq Known' /\ \A c \in Known : made'[c] = made[c]
             /\ (strayed => strayed') /\ (carried => carried')
  BY <1>3, <1>5, ServerStep
<1>6. ASSUME NEW t \in Tabs, TabStep(t)
      PROVE  /\ Known \subseteq Known' /\ \A c \in Known : made'[c] = made[c]
             /\ (strayed => strayed') /\ (carried => carried')
  <2>1. CASE LeaveServer(t) \/ GoOut(t) \/ GoToForm(t) \/ Enter(t) \/ Edit(t)
    BY <1>3, <2>1 DEF LeaveServer, GoOut, GoToForm, Enter, Edit
  <2>2. CASE \E u \in Users : SignIn(t, u)
    <3>1. PICK u \in Users : SignIn(t, u)
      BY <2>2
    <3>2. carried' = (carried \/ (stage[t] = "form" /\ u # user[t] /\ chats[t] # {}))
      BY <3>1, Zenon DEF SignIn
    <3>3. strayed' = strayed /\ made' = made
      BY <3>1 DEF SignIn
    <3>4. (strayed => strayed') /\ (carried => carried')
      BY <3>2, <3>3, Zenon
    <3> QED
      BY <1>1, <3>3, <3>4
  <2>3. CASE Boot(t)
    <3>1. stage[t] = "boot" /\ \E old : AddChat(t, old)
      BY <2>3 DEF Boot
    <3>2. strayed' = (strayed \/ cookie \notin {user[t], NoOne}) /\ carried' = carried
      BY <2>3, Zenon DEF Boot
    <3>3. (strayed => strayed') /\ (carried => carried')
      BY <3>2, Zenon
    <3> QED
      BY <1>2, <3>1, <3>3
  <2>4. CASE NewChat(t)
    <3>1. stage[t] \in {"on", "leaving"} /\ AddChat(t, chats[t]) /\ strayed' = strayed /\ carried' = carried
      BY <2>4 DEF NewChat
    <3>2. (strayed => strayed') /\ (carried => carried')
      BY <3>1, Zenon
    <3> QED
      BY <1>2, <3>1, <3>2
  <2>5. CASE Fire(t) \/ Reload(t)
    <3>1. Sent(t, Post(t)) \/ Lost(t)
      BY <2>5 DEF Fire, Reload, SendSave
    <3>2. made' = made /\ carried' = carried
      BY <2>5 DEF Fire, Reload
    <3>3. (strayed => strayed') /\ (carried => carried')
      BY <3>1, <3>2, StraysOrShows, Zenon
    <3> QED
      BY <1>1, <3>2, <3>3
  <2>6. CASE \E c \in Chats : Delete(t, c)
    <3>1. PICK c \in Chats : Delete(t, c)
      BY <2>6
    <3>2. /\ stage[t] # "out" /\ Drop(t, c) /\ carried' = carried
          /\ Sent(t, DeleteOf(t, c)) \/ Lost(t)
      BY <3>1 DEF Delete
    <3>3. AddChat(t, {}) \/ made' = made
      BY <3>2 DEF Drop
    <3>4. (strayed => strayed') /\ (carried => carried')
      BY <3>2, StraysOrShows, Zenon
    <3> QED
      BY <1>1, <1>2, <3>2, <3>3, <3>4
  <2> QED
    BY <1>6, <2>1, <2>2, <2>3, <2>4, <2>5, <2>6 DEF TabStep
<1> QED
  BY <1>4, <1>5, <1>6 DEF Next

(* What a step leaves alone stays its user's.                              *)
LEMMA OwnKept ==
  ASSUME SessInv, OwnInv, ~strayed, ~carried,
         Known \subseteq Known', \A c \in Known : made'[c] = made[c]
  PROVE  /\ \A u \in Users : file'[u] = file[u] /\ file[u] # Broken => \A c \in file'[u] : made'[c] = u
         /\ \A s \in Tabs : stage[s] # "switching" /\ user'[s] = user[s] /\ chats'[s] \subseteq chats[s]
                             => \A c \in chats'[s] : made'[c] = user'[s]
         /\ \A r \in Slots : req'[r] = req[r] => OwnSent(r)'
<1>1. /\ OwnFiles /\ FilesOK /\ \A s \in Tabs : OwnTab(s) /\ TabOK(s)
      /\ \A r \in Slots : OwnSent(r) /\ RequestOK(r)
  BY DEF OwnInv, SessInv, RequestsOK
<1>2. ASSUME NEW u \in Users, file'[u] = file[u], file[u] # Broken PROVE \A c \in file'[u] : made'[c] = u
  BY <1>1, <1>2 DEF OwnFiles, FilesOK, Own
<1>3. ASSUME NEW s \in Tabs, stage[s] # "switching", user'[s] = user[s], chats'[s] \subseteq chats[s]
      PROVE  \A c \in chats'[s] : made'[c] = user'[s]
  BY <1>1, <1>3 DEF OwnTab, TabOK, Own
<1>4. ASSUME NEW r \in Slots, req'[r] = req[r] PROVE OwnSent(r)'
  BY <1>1, <1>4 DEF OwnSent, RequestOK, Own
<1> QED
  BY <1>2, <1>3, <1>4

LEMMA StepOwn == SessInv /\ OwnInv /\ [Next]_vars => OwnInv'
<1> SUFFICES ASSUME SessInv, OwnInv, [Next]_vars PROVE OwnInv'
  OBVIOUS
<1>1. CASE UNCHANGED vars
  BY <1>1 DEF vars, OwnInv, OwnFiles, OwnTab, OwnSent, Own
<1>2. CASE Next
  <2> SUFFICES ASSUME ~strayed', ~carried'
           PROVE  /\ OwnFiles' /\ \A s \in Tabs : OwnTab(s)'
                  /\ \A r \in Slots : OwnSent(r)'
    BY DEF OwnInv
  <2>0. /\ ~strayed /\ ~carried /\ Known \subseteq Known' /\ \A c \in Known : made'[c] = made[c]
    BY <1>2, StepGrows, Zenon
  <2>k. /\ \A u \in Users : file'[u] = file[u] /\ file[u] # Broken => \A c \in file'[u] : made'[c] = u
        /\ \A s \in Tabs : stage[s] # "switching" /\ user'[s] = user[s] /\ chats'[s] \subseteq chats[s]
                            => \A c \in chats'[s] : made'[c] = user'[s]
        /\ \A r \in Slots : req'[r] = req[r] => OwnSent(r)'
    BY <2>0, OwnKept, Zenon
  <2>f. ASSUME UNCHANGED file PROVE OwnFiles'
    BY <2>k, <2>f DEF OwnFiles, Own
  <2>t. ASSUME NEW s \in Tabs, stage'[s] = stage[s], user'[s] = user[s], chats'[s] \subseteq chats[s] PROVE OwnTab(s)'
    BY <2>k, <2>t DEF OwnTab, Own
  <2>r. ASSUME UNCHANGED req PROVE \A r \in Slots : OwnSent(r)'
    BY <2>k, <2>r
  <2>i. /\ stage \in [Tabs -> Stages] /\ user \in [Tabs -> Users \cup {NoOne}]
        /\ chats \in [Tabs -> SUBSET Chats] /\ req \in [Slots -> Reqs]
        /\ file \in [Users -> (SUBSET Chats) \cup {Broken}] /\ cookie \in Users \cup {NoOne}
        /\ \A s \in Tabs : TabOK(s) /\ OwnTab(s)
        /\ OwnFiles /\ \A r \in Slots : RequestOK(r) /\ OwnSent(r)
    BY <2>0 DEF SessInv, OwnInv, RequestsOK
  <2> DEFINE Goal == OwnFiles' /\ (\A s \in Tabs : OwnTab(s)') /\ \A r \in Slots : OwnSent(r)'
  <2>1. ASSUME NEW t \in Tabs, TabStep(t) PROVE Goal
    <3>2. CASE LeaveServer(t) \/ GoOut(t) \/ GoToForm(t) \/ Enter(t)
      <4>1. UNCHANGED <<file, req>> /\ \A s \in Tabs \ {t} : stage'[s] = stage[s] /\ user'[s] = user[s] /\ chats'[s] = chats[s]
        BY <3>2, <2>i DEF LeaveServer, GoOut, GoToForm, Enter
      <4>2. OwnTab(t)'
        <5>1. CASE GoOut(t)
          BY <5>1, <2>i DEF GoOut, OwnTab, Own
        <5>2. CASE Enter(t) /\ stage[t] = "switching"
          BY <5>2, <2>i DEF Enter, OwnTab, Own
        <5>3. CASE (Enter(t) /\ stage[t] = "entering") \/ LeaveServer(t) \/ GoToForm(t)
          <6>1. CASE Enter(t) /\ stage[t] = "entering"
            <7>1. user' = user /\ chats' = [chats EXCEPT ![t] = IF stage[t] = "switching" THEN {} ELSE chats[t]]
              BY <6>1 DEF Enter
            <7>2. chats'[t] = chats[t] /\ stage[t] # "switching"
              BY <2>i, <6>1, <7>1
            <7> QED
              BY <2>k, <7>1, <7>2 DEF OwnTab, Own
          <6>2. CASE LeaveServer(t) \/ GoToForm(t)
            <7>1. stage[t] # "switching" /\ user' = user /\ chats' = chats
              BY <6>2 DEF LeaveServer, GoToForm
            <7> QED
              BY <2>k, <7>1 DEF OwnTab, Own
          <6> QED
            BY <5>3, <6>1, <6>2
        <5> QED
          BY <3>2, <5>1, <5>2, <5>3 DEF Enter
      <4> QED
        BY <2>f, <2>t, <2>r, <4>1, <4>2
    <3>3. CASE \E u \in Users : SignIn(t, u)
      <4>1. PICK u \in Users : SignIn(t, u)
        BY <3>3
      <4>2. /\ UNCHANGED <<file, req, chats>> /\ user'[t] = u /\ stage[t] \in {"out", "form", "leaving"}
            /\ stage'[t] = IF stage[t] = "leaving" THEN "switching" ELSE "entering"
            /\ ~(stage[t] = "form" /\ u # user[t] /\ chats[t] # {})
            /\ \A s \in Tabs \ {t} : stage'[s] = stage[s] /\ user'[s] = user[s] /\ chats'[s] = chats[s]
        BY <4>1, <2>i DEF SignIn
      <4>3. OwnTab(t)'
        <5>1. CASE stage[t] = "leaving"
          BY <4>2, <5>1 DEF OwnTab
        <5>2. CASE chats[t] = {}
          BY <4>2, <5>2 DEF OwnTab, Own
        <5>3. CASE stage[t] = "form" /\ u = user[t]
          BY <2>k, <4>2, <5>3 DEF OwnTab, Own
        <5> QED
          BY <2>i, <4>2, <5>1, <5>2, <5>3 DEF TabOK
      <4> QED
        BY <2>f, <2>t, <2>r, <4>2, <4>3
    <3>4. CASE Edit(t)
      BY <3>4, <2>f, <2>t, <2>r DEF Edit
    <3>5. ASSUME NEW old \in SUBSET Known, AddChat(t, old), user[t] \in Users, user' = user,
                 \A c \in old : made[c] = user[t]
          PROVE  OwnTab(t)' /\ \A s \in Tabs \ {t} : chats'[s] = chats[s]
      <4>1. /\ Grows(user[t]) /\ made' # made /\ \A s \in Tabs \ {t} : chats'[s] = chats[s]
            /\ chats'[t] = old \cup {Len(made')}
        BY <3>5, ChatAdded
      <4>2. made'[Len(made')] = user[t]
        BY <3>5, <4>1, MadeGrows
      <4> QED
        BY <2>0, <3>5, <4>1, <4>2 DEF OwnTab, Own
    <3>6. CASE Boot(t)
      <4>1. PICK loaded \in {Loaded(cookie), {}} : AddChat(t, IF loaded = {} THEN chats[t] ELSE loaded)
        BY <3>6 DEF Boot
      <4>2. /\ stage[t] = "boot" /\ stage' = [stage EXCEPT ![t] = "on"]
            /\ UNCHANGED <<cookie, file, user, req>>
        BY <3>6 DEF Boot
      <4>3. user[t] \in Users /\ \A s \in Tabs \ {t} : stage'[s] = stage[s]
        BY <2>i, <4>2 DEF TabOK
      <4>4. cookie \in {user[t], NoOne}
        BY <3>6, Zenon DEF Boot
      <4>5. loaded \subseteq Known /\ \A c \in loaded : made[c] = user[t]
        BY <2>i, <4>1, <4>3, <4>4 DEF Loaded, SessInv, FilesOK, OwnFiles, Own
      <4> DEFINE old == IF loaded = {} THEN chats[t] ELSE loaded
      <4>6. chats[t] \subseteq Known /\ \A c \in chats[t] : made[c] = user[t]
        BY <2>i, <4>2 DEF TabOK, OwnTab, Own
      <4>7. AddChat(t, old) /\ old \in SUBSET Known /\ \A c \in old : made[c] = user[t]
        BY <4>1, <4>5, <4>6
      <4> HIDE DEF old
      <4>8. OwnTab(t)' /\ \A s \in Tabs \ {t} : chats'[s] = chats[s]
        BY <3>5, <4>2, <4>3, <4>7
      <4> QED
        BY <2>f, <2>t, <2>r, <4>2, <4>3, <4>8
    <3>7. CASE NewChat(t)
      <4>1. /\ AddChat(t, chats[t]) /\ stage[t] \in {"on", "leaving"}
            /\ UNCHANGED <<stage, file, user, req>>
        BY <3>7 DEF NewChat
      <4>2. user[t] \in Users /\ chats[t] \in SUBSET Known /\ \A c \in chats[t] : made[c] = user[t]
        BY <2>i, <4>1 DEF TabOK, OwnTab, Own
      <4>3. OwnTab(t)' /\ \A s \in Tabs \ {t} : chats'[s] = chats[s]
        BY <3>5, <4>1, <4>2
      <4> QED
        BY <2>f, <2>t, <2>r, <4>1, <4>3
    <3>8. ASSUME NEW q, Fits(t, q), Sent(t, q) \/ Lost(t), q.list \subseteq chats[t],
                 q.id # 0 => q.id \in chats[t]
          PROVE  \A r \in Slots : OwnSent(r)'
      <4>1. CASE req' = req
        BY <2>r, <4>1
      <4>2. CASE \E r \in Slots : Goes(t, q, r)
        <5>1. PICK r \in Slots : Sent(t, q) /\ req'[r] = q /\ \A s \in Slots \ {r} : req'[s] = req[s]
          BY <4>2 DEF Goes
        <5>2. stage[t] \in {"on", "leaving", "form"} /\ cookie = user[t]
          BY <5>1, StraysOrShows, Zenon
        <5>3. \A c \in chats[t] : c \in Known /\ made'[c] = cookie
          BY <2>0, <2>i, <5>2 DEF OwnTab, Own, TabOK
        <5>4. OwnSent(r)'
          BY <3>8, <5>1, <5>3 DEF OwnSent, Own, Fits
        <5> QED
          BY <2>k, <5>1, <5>4
      <4> QED
        BY <2>0, <3>8, <4>1, <4>2, Asked
    <3>9. CASE Fire(t)
      <4>1. (Sent(t, Post(t)) \/ Lost(t)) /\ UNCHANGED <<file, stage, user, chats>>
        BY <3>9 DEF Fire, SendSave
      <4>2. \A r \in Slots : OwnSent(r)'
        BY <3>8, <4>1, PostFits DEF Post
      <4> QED
        BY <2>f, <2>t, <4>1, <4>2
    <3>10. CASE Reload(t)
      <4>1. (Sent(t, Post(t)) \/ Lost(t)) /\ UNCHANGED file
        BY <3>10 DEF Reload, SendSave
      <4>2. /\ chats'[t] = {}
            /\ \A s \in Tabs \ {t} : stage'[s] = stage[s] /\ user'[s] = user[s] /\ chats'[s] = chats[s]
        BY <3>10, <2>i DEF Reload
      <4>3. OwnTab(t)'
        BY <4>2 DEF OwnTab, Own
      <4>4. \A r \in Slots : OwnSent(r)'
        BY <3>8, <4>1, PostFits DEF Post
      <4> QED
        BY <2>f, <2>t, <4>1, <4>2, <4>3, <4>4
    <3>11. CASE \E c \in Chats : Delete(t, c)
      <4>1. PICK c \in Chats : Delete(t, c)
        BY <3>11
      <4>2. /\ stage[t] \in {"on", "leaving"} /\ c \in chats[t] /\ Drop(t, c)
            /\ UNCHANGED <<file, stage, user>> /\ (Sent(t, DeleteOf(t, c)) \/ Lost(t))
        BY <4>1 DEF Delete
      <4>3. user[t] \in Users /\ chats[t] \in SUBSET Known /\ \A d \in chats[t] : made[d] = user[t]
        BY <2>i, <4>2 DEF TabOK, OwnTab, Own
      <4>4. /\ \A s \in Tabs \ {t} : chats'[s] = chats[s]
            /\ OwnTab(t)'
        <5>1. CASE chats[t] = {c}
          BY <3>5, <4>2, <4>3, <5>1 DEF Drop
        <5>2. CASE chats[t] # {c}
          <6>1. chats' = [chats EXCEPT ![t] = chats[t] \ {c}] /\ made' = made
            BY <4>2, <5>2 DEF Drop
          <6>2. chats'[t] \subseteq chats[t] /\ \A s \in Tabs \ {t} : chats'[s] = chats[s]
            BY <2>i, <6>1
          <6> QED
            BY <2>t, <4>2, <6>2
        <5> QED
          BY <5>1, <5>2
      <4>5. c \in Known /\ DeleteOf(t, c).list = {} /\ DeleteOf(t, c).id = c
        BY <4>2, <4>3 DEF DeleteOf
      <4>6. \A r \in Slots : OwnSent(r)'
        BY <3>8, <4>2, <4>5, DeleteFits
      <4> QED
        BY <2>f, <2>t, <4>2, <4>4, <4>6
    <3> QED
      BY <2>1, <3>2, <3>3, <3>4, <3>6, <3>7, <3>9, <3>10, <3>11 DEF TabStep
  <2>2. ASSUME NEW r \in Slots, Serve(r) PROVE Goal
    <3>1. /\ UNCHANGED <<stage, user, chats, made>> /\ req[r].at # "none" /\ req[r].as \in Users
      BY <2>2, ServerStep
    <3>2. PICK out \in {file[req[r].as], Broken, req[r].list} : file' = [file EXCEPT ![req[r].as] = out]
      BY <2>2, ServerStep
    <3>3. OwnFiles'
      BY <2>i, <3>1, <3>2 DEF OwnFiles, OwnSent, Own
    <3>4. PICK q : /\ req'[r] = q /\ \A s \in Slots \ {r} : req'[s] = req[s]
                   /\ \/ q = NoRequest
                      \/ /\ q.as = req[r].as /\ q.id = req[r].id
                         /\ q.list = req[r].list \/ q.list \subseteq Loaded(req[r].as)
      BY <2>2, ServerStep
    <3>5. Own(req[r].as, Loaded(req[r].as))
      BY <2>i, <3>1 DEF OwnFiles, Own, Loaded
    <3>6. OwnSent(r)'
      BY <2>i, <3>1, <3>4, <3>5 DEF OwnSent, Own, NoRequest
    <3> QED
      BY <2>k, <2>t, <3>1, <3>3, <3>4, <3>6
  <2>3. CASE Restart
    <3>1. UNCHANGED <<file, stage, user, chats>> /\ \A r \in Slots : req'[r] = NoRequest
      BY <2>3 DEF Restart
    <3> QED
      BY <2>f, <2>t, <3>1 DEF OwnSent, NoRequest
  <2> QED
    BY <1>2, <2>1, <2>2, <2>3 DEF Next
<1> QED
  BY <1>1, <1>2

LEMMA InitOwn == Init => OwnInv
  BY DEF Init, OwnInv, OwnFiles, OwnTab, OwnSent, Own, NoRequest

(* Isolation of the users' chats (IsolatedUnlessCarried), however many     *)
(* users, tabs and chats there are.                                        *)
THEOREM ListsStayOwn == Spec => []IsolatedUnlessCarried
<1>1. OwnInv => IsolatedUnlessCarried
  BY DEF OwnInv, IsolatedUnlessCarried, Isolated, OwnFiles, OwnTab
<1> QED
  BY <1>1, InitTypes, StepTypes, InitOwn, StepOwn, PTL DEF Spec

-----------------------------------------------------------------------------
LEMMA StepGone == SessInv /\ OwnInv /\ GoneInv /\ [Next]_vars => GoneInv'
<1> SUFFICES ASSUME SessInv, OwnInv, GoneInv, [Next]_vars PROVE GoneInv'
  OBVIOUS
<1>1. CASE UNCHANGED vars
  BY <1>1 DEF vars, GoneInv, Gone
<1>2. CASE Next
  <2> SUFFICES ASSUME ~strayed', ~carried', NEW c \in deleted' \ echoed' PROVE Gone(c)'
    BY DEF GoneInv
  <2>0. /\ ~strayed /\ ~carried /\ Known \subseteq Known' /\ \A d \in Known : made'[d] = made[d]
    BY <1>2, StepGrows, Zenon
  <2>i. /\ chats \in [Tabs -> SUBSET Chats] /\ req \in [Slots -> Reqs]
        /\ file \in [Users -> (SUBSET Chats) \cup {Broken}] /\ deleted \subseteq Known /\ FilesOK
        /\ \A s \in Tabs : TabOK(s)
        /\ OwnFiles /\ \A r \in Slots : RequestOK(r) /\ OwnSent(r)
        /\ \A d \in deleted \ echoed : Gone(d)
        /\ Known \subseteq Chats /\ 0 \notin Known
    BY <2>0, KnownIsChats DEF SessInv, OwnInv, GoneInv, RequestsOK
  (* The steps of a tab.                                                   *)
  <2>1. ASSUME c \in deleted \ echoed, UNCHANGED <<file, req>>, \A s \in Tabs : c \notin chats'[s]
        PROVE  Gone(c)'
    BY <2>1, <2>i DEF Gone
  <2>2. ASSUME NEW t \in Tabs, NEW old \in SUBSET Known, c \in Known, c \notin old, AddChat(t, old), user[t] \in Users
        PROVE  \A s \in Tabs : s = t \/ c \notin chats[s] => c \notin chats'[s]
    <3>1. /\ Grows(user[t]) /\ made' # made /\ \A s \in Tabs \ {t} : chats'[s] = chats[s]
          /\ chats'[t] = old \cup {Len(made')}
      BY <2>2, ChatAdded
    <3>2. Len(made') \notin Known
      BY <2>2, <3>1, MadeGrows
    <3> QED
      BY <2>2, <3>1, <3>2
  <2>3. ASSUME NEW t \in Tabs,
               LeaveServer(t) \/ GoOut(t) \/ GoToForm(t) \/ (\E u \in Users : SignIn(t, u)) \/ Enter(t) \/ Edit(t)
        PROVE  Gone(c)'
    <3>1. UNCHANGED <<file, req, deleted, echoed>>
      BY <2>3 DEF LeaveServer, GoOut, GoToForm, SignIn, Enter, Edit
    <3>2. \A s \in Tabs : chats'[s] \subseteq chats[s]
      <4>1. chats' = chats \/ chats' = [chats EXCEPT ![t] = {}]
        BY <2>3, <2>i DEF LeaveServer, GoOut, GoToForm, SignIn, Enter, Edit
      <4> QED
        BY <2>i, <4>1
    <3> QED
      BY <2>1, <2>i, <3>1, <3>2 DEF Gone
  <2>4. ASSUME NEW t \in Tabs, Boot(t) PROVE Gone(c)'
    <3>1. PICK loaded \in {Loaded(cookie), {}} : /\ AddChat(t, IF loaded = {} THEN chats[t] ELSE loaded)
                                                /\ echoed' = echoed \cup (loaded \cap deleted)
      BY <2>4 DEF Boot
    <3>2. stage[t] = "boot" /\ UNCHANGED <<file, req, deleted>>
      BY <2>4 DEF Boot
    <3>3. c \in deleted \ echoed /\ c \notin loaded
      BY <3>1, <3>2
    <3>4. loaded \subseteq Known
      BY <2>i, <3>1 DEF Loaded, SessInv, FilesOK
    <3> DEFINE old == IF loaded = {} THEN chats[t] ELSE loaded
    <3>5. old \in SUBSET Known /\ c \notin old /\ user[t] \in Users /\ AddChat(t, old)
      BY <2>i, <3>1, <3>2, <3>3, <3>4 DEF TabOK, Gone
    <3> HIDE DEF old
    <3>6. \A s \in Tabs : c \notin chats'[s]
      BY <2>2, <2>i, <3>3, <3>5 DEF Gone
    <3> QED
      BY <2>1, <3>2, <3>3, <3>6
  <2>5. ASSUME NEW t \in Tabs, NewChat(t) PROVE Gone(c)'
    <3>1. AddChat(t, chats[t]) /\ stage[t] \in {"on", "leaving"} /\ UNCHANGED <<file, req, deleted, echoed>>
      BY <2>5 DEF NewChat
    <3>2. chats[t] \in SUBSET Known /\ user[t] \in Users
      BY <2>i, <3>1 DEF TabOK
    <3>3. \A s \in Tabs : c \notin chats'[s]
      BY <2>2, <2>i, <3>1, <3>2 DEF Gone
    <3> QED
      BY <2>1, <3>1, <3>3
  <2>6. ASSUME NEW t \in Tabs, Fire(t) \/ Reload(t) PROVE Gone(c)'
    <3>1. (Sent(t, Post(t)) \/ Lost(t)) /\ UNCHANGED <<file, deleted, echoed, made>>
      BY <2>6 DEF Fire, Reload, SendSave
    <3>2. \A s \in Tabs : chats'[s] \subseteq chats[s]
      <4>1. chats' = chats \/ chats' = [chats EXCEPT ![t] = {}]
        BY <2>6 DEF Fire, Reload
      <4> QED
        BY <2>i, <4>1
    <3>3. req' = req \/ \E r \in Slots : req[r] = NoRequest /\ req'[r] = Post(t) /\ \A s \in Slots \ {r} : req'[s] = req[s]
      BY <2>0, <3>1, PostFits, Asked DEF Goes
    <3>4. c \in Known /\ Gone(c)
      BY <2>i, <3>1
    <3>5. \A r \in Slots : c \notin req'[r].list /\ (req[r].id = c => req'[r].id = c)
      BY <2>i, <3>3, <3>4 DEF Gone, Post, NoRequest
    <3> QED
      BY <3>1, <3>2, <3>4, <3>5 DEF Gone
  <2>7. ASSUME NEW t \in Tabs, NEW d \in Chats, Delete(t, d) PROVE Gone(c)'
    <3>1. /\ stage[t] \in {"on", "leaving"} /\ d \in chats[t] \ deleted /\ Drop(t, d)
          /\ deleted' = deleted \cup {d} /\ UNCHANGED file
          /\ Sent(t, DeleteOf(t, d)) \/ Lost(t)
      BY <2>7 DEF Delete
    <3>2. user[t] \in Users /\ chats[t] \in SUBSET Known /\ d \in Known
      BY <2>i, <3>1 DEF TabOK
    <3>3. ASSUME c \in Known, c = d \/ c \notin chats[t]
          PROVE  \A s \in Tabs : s = t \/ c \notin chats[s] => c \notin chats'[s]
      <4>1. CASE chats[t] = {d}
        <5>1. AddChat(t, {})
          BY <3>1, <4>1 DEF Drop
        <5> QED
          BY <2>2, <3>2, <3>3, <5>1
      <4>2. CASE chats[t] # {d}
        <5>1. chats' = [chats EXCEPT ![t] = chats[t] \ {d}]
          BY <3>1, <4>2 DEF Drop
        <5> QED
          BY <2>i, <3>3, <5>1
      <4> QED
        BY <4>1, <4>2
    <3> DEFINE q == DeleteOf(t, d)
    <3>4. q.list = {} /\ q.id = d /\ Fits(t, q)
      BY <3>2, DeleteFits DEF DeleteOf
    <3>5. \/ Lost(t) /\ req' = req
          \/ \E r \in Slots : Sent(t, q) /\ req[r] = NoRequest /\ req'[r] = q /\ \A s \in Slots \ {r} : req'[s] = req[s]
      <4> HIDE DEF q
      <4>1. Sent(t, q) \/ Lost(t)
        BY <3>1 DEF q
      <4> QED
        BY <2>0, <3>4, <4>1, Asked DEF Goes
    <3>6. CASE c = d
      <4>1. \/ /\ Sent(t, q)
               /\ echoed' = IF (\E s \in Tabs \ {t} : d \in chats[s]) \/ (\E r \in Slots : d \in req[r].list)
                            THEN echoed \cup {d} ELSE echoed
            \/ Lost(t) /\ echoed' = echoed \cup {d}
        BY <2>7 DEF Delete
      <4>2. /\ Sent(t, q) /\ (\A s \in Tabs \ {t} : c \notin chats[s]) /\ \A r \in Slots : c \notin req[r].list
        BY <3>6, <4>1
      <4>3. \E r \in Slots : /\ req'[r] = q /\ \A s \in Slots \ {r} : req'[s] = req[s]
        <5>1. CASE req' = req
          <6>1. \E r \in Slots : req[r] = NoRequest /\ req' = [req EXCEPT ![r] = q]
            BY <4>2 DEF Sent
          <6> QED
            BY <2>i, <6>1
        <5> QED
          BY <3>5, <5>1
      <4>4. (\E r \in Slots : req'[r].id = c) /\ \A r \in Slots : c \notin req'[r].list
        BY <3>4, <3>6, <4>2, <4>3
      <4>5. \A s \in Tabs : c \notin chats'[s]
        BY <3>2, <3>3, <3>6, <4>2
      <4> QED
        BY <4>4, <4>5 DEF Gone
    <3>7. CASE c # d
      <4>1. c \in deleted \ echoed
        BY <2>7, <3>1, <3>7 DEF Delete
      <4>2. Gone(c) /\ c \in Known /\ c # 0
        BY <2>i, <4>1
      <4>3. \A s \in Tabs : c \notin chats'[s]
        BY <3>3, <4>2 DEF Gone
      <4>4. \A r \in Slots : c \notin req'[r].list /\ (req[r].id = c => req'[r].id = c)
        BY <3>4, <3>5, <4>2 DEF Gone, NoRequest
      <4> QED
        BY <3>1, <4>2, <4>3, <4>4 DEF Gone
    <3> QED
      BY <3>6, <3>7
  (* The server: a request that takes c out is over only when no file has c*)
  (* any more.                                                             *)
  <2>8. ASSUME NEW r \in Slots, Serve(r) PROVE Gone(c)'
    <3> DEFINE u == req[r].as
    <3>1. UNCHANGED <<chats, deleted>> /\ echoed \subseteq echoed' /\ u \in Users
      BY <2>8, ServerStep
    <3>2. c \in deleted \ echoed /\ Gone(c) /\ c \in Known /\ c # 0
      BY <2>i, <3>1
    <3>3. CASE Read(r)
      <4>1. PICK found \in {Loaded(u), {}} :
              req' = [req EXCEPT ![r].at = "ready", ![r].list = found \ {req[r].id}]
        BY <3>3 DEF Read
      <4>2. UNCHANGED file /\ c \notin found \ {req[r].id}
        BY <3>1, <3>2, <3>3, <4>1 DEF Read
      <4>3. \A s \in Slots : req'[s].id = req[s].id /\ c \notin req'[s].list
        BY <2>i, <3>2, <4>1, <4>2 DEF Reqs, Gone
      <4> QED
        BY <3>1, <3>2, <4>2, <4>3 DEF Gone
    <3>4. CASE Truncate(r)
      <4>1. file' = [file EXCEPT ![u] = Broken] /\ req' = [req EXCEPT ![r].at = "open"]
        BY <3>4 DEF Truncate
      <4>2. \A s \in Slots : req'[s].id = req[s].id /\ req'[s].list = req[s].list
        BY <2>i, <4>1 DEF Reqs
      <4>3. \A v \in Users : c \in file'[v] => c \in file[v]
        BY <2>i, <3>1, <3>2, <4>1 DEF Broken
      <4> QED
        BY <3>1, <3>2, <4>2, <4>3 DEF Gone
    <3>5. CASE Write(r) \/ Fail(r)
      <4>1. req' = [req EXCEPT ![r] = NoRequest] /\ c \notin NoRequest.list
        BY <3>5 DEF Write, Fail, NoRequest
      <4>2. req'[r] = NoRequest /\ \A s \in Slots \ {r} : req'[s] = req[s]
        BY <2>i, <4>1
      <4>3. \A v \in Users : c \in file'[v] => c \in file[v]
        <5>1. PICK out \in {file[u], Broken, req[r].list} : file' = [file EXCEPT ![u] = out]
          BY <2>8, ServerStep
        <5>2. c \notin Broken /\ c \notin req[r].list
          BY <3>2 DEF Gone, Broken
        <5> QED
          BY <2>i, <3>1, <5>1, <5>2
      <4>4. CASE req[r].id = c
        <5>1. Write(r) /\ req[r].at # "none"
          BY <2>i, <3>1, <3>2, <3>5, <4>4 DEF Fail, Write
        <5>2. made[c] = u
          BY <2>i, <3>2, <4>4, <5>1 DEF OwnSent
        <5>3. \A v \in Users \ {u} : c \notin file[v]
          BY <2>i, <3>2, <5>2 DEF OwnFiles, Own, Broken
        <5>4. c \notin file'[u]
          <6>1. PICK out \in {req[r].list, Broken} : file' = [file EXCEPT ![u] = out]
            BY <5>1 DEF Write
          <6> QED
            BY <2>i, <3>1, <3>2, <6>1 DEF Gone, Broken
        <5>5. \A v \in Users : c \notin file'[v]
          BY <4>3, <5>3, <5>4
        <5> QED
          BY <3>1, <3>2, <4>1, <4>2, <5>5 DEF Gone
      <4>5. CASE req[r].id # c
        BY <3>1, <3>2, <4>1, <4>2, <4>3, <4>5 DEF Gone
      <4> QED
        BY <4>4, <4>5
    <3> QED
      BY <2>8, <3>3, <3>4, <3>5 DEF Serve
  <2>9. CASE Restart
    <3>1. /\ UNCHANGED <<file, chats, deleted>> /\ req' = [r \in Slots |-> NoRequest]
          /\ echoed' = echoed \cup ({req[r].id : r \in Slots} \cap Chats)
      BY <2>9 DEF Restart
    <3>2. c \in deleted \ echoed /\ c \in Known /\ \A r \in Slots : req[r].id # c
      BY <2>i, <3>1
    <3> QED
      BY <2>i, <3>1, <3>2 DEF Gone, NoRequest
  <2> QED
    BY <1>2, <2>3, <2>4, <2>5, <2>6, <2>7, <2>8, <2>9 DEF Next, TabStep
<1> QED
  BY <1>1, <1>2

LEMMA InitGone == Init => GoneInv
  BY DEF Init, GoneInv

(* Deletion lasts (DeletedStaysDeleted), with any number of DELETEs under  *)
(* way.                                                                    *)
THEOREM DeletedStayDeleted == Spec => []DeletedStaysDeleted
<1>1. GoneInv => DeletedStaysDeleted
  BY DEF GoneInv, Gone, DeletedStaysDeleted
<1> QED
  BY <1>1, InitTypes, StepTypes, InitOwn, StepOwn, InitGone, StepGone, PTL DEF Spec

-----------------------------------------------------------------------------
(* What a tab sends: its outcome is what the tab has, if it settles.       *)
Told(q, u) == IF q.at = "sent" THEN Loaded(u) \ {q.id} ELSE q.list

LEMMA SentShown ==
  ASSUME SessInv, ShownInv, Known \subseteq Known', NEW t \in Tabs, NEW q, Fits(t, q),
         Sent(t, q) \/ Lost(t), q.at # "open", UNCHANGED file,
         \A x \in Tabs \ {t} : /\ stage'[x] = stage[x] /\ user'[x] = user[x]
                               /\ chats'[x] = chats[x] /\ timer'[x] = timer[x],
         stage'[t] = "on" /\ ~timer'[t] =>
           /\ user'[t] = user[t] /\ user[t] \in Users
           /\ Clean(t, q.id) => Told(q, user[t]) = chats'[t]
  PROVE  ShownInv'
<1>0. /\ source \in [Users -> Tabs \cup Slots \cup {NoOne}] /\ cookie \in Users \cup {NoOne}
      /\ NoOne \notin Users \cup Tabs \cup Slots /\ Tabs \cap Slots = {}
      /\ \A x \in Tabs : stage[x] = "on" => user[x] \in Users
      /\ \A u \in Users : Settled(u)
      /\ \A x \in Tabs : stage[x] = "on" /\ ~timer[x] => Follows(x)
  BY NoOneAssumption DEF SessInv, TabOK, ShownInv
<1>1. CASE Lost(t) /\ req' = req
  <2>1. source' = [u \in Users |-> IF u = user[t] THEN NoOne ELSE source[u]]
    BY <1>1 DEF Lost
  <2>2. \A u \in Users : Settled(u)'
    BY <1>0, <1>1, <2>1 DEF Settled, UnderWay
  <2>3. ASSUME NEW x \in Tabs, stage'[x] = "on", ~timer'[x] PROVE Follows(x)'
    <3>1. CASE user'[x] = user[t]
      BY <1>0, <2>1, <2>3, <3>1 DEF Follows
    <3>2. CASE user'[x] # user[t]
      <4>1. x # t /\ stage[x] = "on" /\ user'[x] = user[x] /\ chats'[x] = chats[x] /\ ~timer[x]
        BY <2>3, <3>2
      <4> QED
        BY <1>0, <1>1, <2>1, <3>2, <4>1 DEF Follows, Outcome, Loaded
    <3> QED
      BY <3>1, <3>2
  <2> QED
    BY <2>2, <2>3 DEF ShownInv
<1>2. ASSUME NEW r \in Slots, Goes(t, q, r) PROVE ShownInv'
  <2>0. /\ Sent(t, q) /\ cookie \in Users /\ req[r] = NoRequest /\ req'[r] = q
        /\ \A s \in Slots \ {r} : req'[s] = req[s]
        /\ source' = [u \in Users |-> IF u \notin {cookie, user[t]} THEN source[u]
                                      ELSE IF Clean(t, q.id) THEN r ELSE NoOne]
    BY <1>2 DEF Goes
  <2>1. q.at \notin {"none", "open"} /\ q.as = cookie /\ q.by = t /\ req[r].at = "none"
    BY <2>0 DEF Fits, NoRequest
  <2>2. \A u \in Users : UnderWay(u)' = IF u = cookie THEN UnderWay(u) \cup {r} ELSE UnderWay(u)
    BY <2>0, <2>1 DEF UnderWay
  <2>3. \A u \in Users : source[u] # r
    BY <1>0, <2>1 DEF Settled, UnderWay
  <2>4. ASSUME NEW u \in Users PROVE Settled(u)'
    <3>1. CASE u \notin {cookie, user[t]}
      BY <1>0, <2>0, <2>2, <2>3, <3>1 DEF Settled
    <3>2. CASE u \in {cookie, user[t]} /\ ~Clean(t, q.id)
      BY <1>0, <2>0, <3>2 DEF Settled
    <3>3. CASE u \in {cookie, user[t]} /\ Clean(t, q.id)
      <4>1. u = cookie /\ UnderWay(u) = {}
        BY <3>3 DEF Clean
      <4> QED
        BY <1>0, <2>0, <2>1, <2>2, <3>3, <4>1 DEF Settled
    <3> QED
      BY <3>1, <3>2, <3>3
  <2>5. ASSUME NEW x \in Tabs, stage'[x] = "on", ~timer'[x] PROVE Follows(x)'
    <3>1. user'[x] = user[x] /\ user[x] \in Users
      BY <1>0, <2>5
    <3>2. CASE user[x] \notin {cookie, user[t]}
      <4>1. x # t /\ stage[x] = "on" /\ chats'[x] = chats[x] /\ ~timer[x]
        BY <2>5, <3>2
      <4>2. source'[user[x]] = source[user[x]] /\ Follows(x)
        BY <1>0, <2>0, <3>1, <3>2, <4>1
      <4> QED
        BY <2>0, <2>3, <3>1, <4>1, <4>2 DEF Follows, Outcome, Loaded
    <3>3. CASE user[x] \in {cookie, user[t]} /\ ~Clean(t, q.id)
      BY <1>0, <2>0, <3>1, <3>3 DEF Follows
    <3>4. CASE user[x] \in {cookie, user[t]} /\ Clean(t, q.id)
      <4>1. source'[user[x]] = r /\ r # x
        BY <1>0, <2>0, <3>1, <3>4
      <4>2. CASE x # t
        BY <1>0, <2>0, <2>1, <3>1, <4>1, <4>2 DEF Follows
      <4>3. CASE x = t
        <5>1. Told(q, user[t]) = chats'[t]
          BY <2>5, <3>4, <4>3
        <5>2. Outcome(r, user[t])' = Told(q, user[t])
          BY <2>0, <3>1, <4>3 DEF Outcome, Told, Loaded
        <5> QED
          BY <3>1, <4>1, <4>3, <5>1, <5>2 DEF Follows
      <4> QED
        BY <4>2, <4>3
    <3> QED
      BY <3>2, <3>3, <3>4
  <2> QED
    BY <2>4, <2>5 DEF ShownInv
<1>3. (Lost(t) /\ req' = req) \/ \E r \in Slots : Goes(t, q, r)
  BY Asked
<1> QED
  BY <1>1, <1>2, <1>3

(* What the server does with r touches the file of its user only, and a    *)
(* request that settles the file is the only one at work.                  *)
LEMMA ServerShown == ASSUME SessInv, ShownInv, NEW r \in Slots, Serve(r) PROVE ShownInv'
<1>u. PICK u \in Users : req[r].as = u
  BY ServerStep
<1> USE <1>u
<1>0. /\ source \in [Users -> Tabs \cup Slots \cup {NoOne}] /\ req \in [Slots -> Reqs]
      /\ file \in [Users -> (SUBSET Chats) \cup {Broken}]
      /\ NoOne \notin Users \cup Tabs \cup Slots /\ Tabs \cap Slots = {}
      /\ \A x \in Tabs : stage[x] = "on" => user[x] \in Users
      /\ \A v \in Users : Settled(v)
      /\ \A x \in Tabs : stage[x] = "on" /\ ~timer[x] => Follows(x)
      /\ req[r].at # "none" => req[r].by \in Tabs
  BY NoOneAssumption DEF SessInv, TabOK, ShownInv, RequestsOK, RequestOK
<1>1. /\ UNCHANGED <<stage, user, chats, timer>> /\ req[r].at # "none" /\ u \in Users
      /\ \A s \in Slots \ {r} : req'[s] = req[s]
      /\ \A v \in Users \ {u} : file'[v] = file[v]
  BY <1>0, ServerStep
<1>2. req'[r].at = "none" \/ (req'[r].at # "none" /\ req'[r].as = u)
  BY ServerStep DEF NoRequest
<1>3. \A v \in Users \ {u} : source[v] # r /\ UnderWay(v)' = UnderWay(v)
  BY <1>0, <1>1, <1>2 DEF Settled, UnderWay
<1>4. /\ r \in UnderWay(u) /\ source[u] \in {r, NoOne}
      /\ source[u] = r => UnderWay(u) = {r} /\ (req[r].at = "open" => file[u] = Broken)
  BY <1>0, <1>1 DEF Settled, UnderWay
(* What is left to show.                                                   *)
<1>5. ASSUME source' = [v \in Users |-> IF source[v] = r THEN source'[u] ELSE source[v]],
             Settled(u)', \A x \in Tabs : stage[x] = "on" /\ ~timer[x] /\ user[x] = u => Follows(x)'
      PROVE  ShownInv'
  <2>1. \A v \in Users \ {u} : source'[v] = source[v]
    BY <1>0, <1>3, <1>5
  <2>2. ASSUME NEW v \in Users \ {u} PROVE Settled(v)'
    BY <1>0, <1>1, <1>3, <2>1, <2>2 DEF Settled
  <2>3. ASSUME NEW x \in Tabs, stage[x] = "on", ~timer[x], user[x] # u PROVE Follows(x)'
    <3>1. user[x] \in Users \ {u} /\ Follows(x)
      BY <1>0, <2>3
    <3> QED
      BY <1>1, <1>3, <2>1, <3>1 DEF Follows, Outcome, Loaded
  <2> QED
    BY <1>1, <1>5, <2>2, <2>3 DEF ShownInv
<1>6. ASSUME source' = [v \in Users |-> IF source[v] = r THEN NoOne ELSE source[v]] PROVE ShownInv'
  <2>1. source'[u] = NoOne
    BY <1>0, <1>1, <1>4, <1>6
  <2>2. source' = [v \in Users |-> IF source[v] = r THEN source'[u] ELSE source[v]]
    BY <1>6, <2>1
  <2>3. Settled(u)' /\ \A x \in Tabs : user[x] = u => Follows(x)'
    BY <1>0, <1>1, <2>1 DEF Settled, Follows
  <2> QED
    BY <1>5, <2>2, <2>3
<1>7. ASSUME source[u] # r, source' = source \/ Served(r) PROVE ShownInv'
  <2>1. source' = [v \in Users |-> IF source[v] = r THEN NoOne ELSE source[v]]
    BY <1>0, <1>3, <1>7 DEF Served
  <2> QED
    BY <1>6, <2>1
<1>8. CASE Read(r) /\ source[u] = r /\ source' = source
  <2>1. PICK found \in {Loaded(u), {}} :
          /\ req' = [req EXCEPT ![r].at = "ready", ![r].list = found \ {req[r].id}]
          /\ IF found = Loaded(u) THEN UNCHANGED source ELSE Spoilt(r)
    BY <1>8 DEF Read
  <2>2. found = Loaded(u)
    <3>1. ASSUME Spoilt(r) PROVE source'[u] = NoOne
      BY <1>1, <1>8, <3>1 DEF Spoilt
    <3> QED
      BY <1>0, <1>8, <2>1, <3>1
  <2>3. /\ req'[r].at = "ready" /\ req'[r].list = Loaded(u) \ {req[r].id} /\ req'[r].by = req[r].by
        /\ req'[r].as = u /\ req[r].at = "sent" /\ file' = file
    BY <1>0, <1>8, <2>1, <2>2 DEF Read, Reqs
  <2>4. UnderWay(u)' = {r}
    BY <1>1, <1>4, <1>8, <2>3 DEF UnderWay
  <2>5. Settled(u)'
    BY <1>0, <1>8, <2>3, <2>4 DEF Settled
  <2>6. ASSUME NEW x \in Tabs, stage[x] = "on", ~timer[x], user[x] = u PROVE Follows(x)'
    BY <1>0, <1>1, <1>8, <2>3, <2>6 DEF Follows, Outcome
  <2>7. source' = [v \in Users |-> IF source[v] = r THEN source'[u] ELSE source[v]]
    BY <1>0, <1>8
  <2> QED
    BY <1>5, <2>5, <2>6, <2>7
<1>9. CASE Truncate(r) /\ source[u] = r
  <2>1. /\ file' = [file EXCEPT ![u] = Broken] /\ req' = [req EXCEPT ![r].at = "open"]
        /\ req[r].at = "ready" /\ source' = source
    BY <1>9 DEF Truncate
  <2>2. /\ req'[r].at = "open" /\ req'[r].list = req[r].list /\ req'[r].by = req[r].by
        /\ req'[r].as = u /\ file'[u] = Broken
    BY <1>0, <1>1, <2>1 DEF Reqs
  <2>3. UnderWay(u)' = {r}
    BY <1>1, <1>4, <1>9, <2>2 DEF UnderWay
  <2>4. Settled(u)'
    BY <1>0, <1>9, <2>1, <2>2, <2>3 DEF Settled
  <2>5. ASSUME NEW x \in Tabs, stage[x] = "on", ~timer[x], user[x] = u PROVE Follows(x)'
    <3>1. req[r].by = x => req[r].list = chats[x]
      BY <1>0, <1>9, <2>1, <2>5 DEF Follows, Outcome
    <3>2. user'[x] = u /\ source'[u] = r /\ r # x /\ chats'[x] = chats[x]
      BY <1>0, <1>1, <1>9, <2>1, <2>5
    <3> QED
      BY <2>2, <3>1, <3>2 DEF Follows, Outcome
  <2>6. source' = [v \in Users |-> IF source[v] = r THEN source'[u] ELSE source[v]]
    BY <1>0, <1>9, <2>1
  <2> QED
    BY <1>5, <2>4, <2>5, <2>6
<1>10. CASE Write(r) /\ source[u] = r
  <2>1. req[r].at = "open" /\ file[u] = Broken /\ UnderWay(u) = {r} /\ req' = [req EXCEPT ![r] = NoRequest]
    BY <1>4, <1>10 DEF Write
  <2>2. {s \in Slots : req[s].at = "open" /\ req[s].as = u} = {r}
    BY <2>1 DEF UnderWay
  <2>3. Writers(u) = 1
    BY <2>2, FS_Singleton DEF Writers
  <2>4. file' = [file EXCEPT ![u] = req[r].list]
    BY <1>10, <2>1, <2>3 DEF Write
  <2>5. req'[r] = NoRequest /\ file'[u] = req[r].list
    BY <1>0, <1>1, <2>1, <2>4
  <2>6. UnderWay(u)' = {}
    BY <1>1, <2>1, <2>5 DEF UnderWay, NoRequest
  <2>7. /\ source' = [v \in Users |-> IF source[v] = r THEN req[r].by ELSE source[v]]
        /\ source'[u] = req[r].by /\ req[r].by \in Tabs
    BY <1>0, <1>1, <1>10 DEF Write, Served
  <2>8. Settled(u)'
    BY <1>0, <2>6, <2>7 DEF Settled
  <2>9. ASSUME NEW x \in Tabs, stage[x] = "on", ~timer[x], user[x] = u PROVE Follows(x)'
    <3>1. req[r].by = x => req[r].list = chats[x]
      BY <1>0, <1>10, <2>1, <2>9 DEF Follows, Outcome
    <3>2. source'[u] \notin Slots
      BY <1>0, <2>7
    <3> QED
      BY <1>1, <2>5, <2>7, <2>9, <3>1, <3>2 DEF Follows
  <2>10. source' = [v \in Users |-> IF source[v] = r THEN source'[u] ELSE source[v]]
    BY <2>7
  <2> QED
    BY <1>5, <2>8, <2>9, <2>10
<1>11. source' = source \/ Spoilt(r) \/ Served(r)
  BY DEF Serve, Read, Truncate, Write, Fail
<1>12. Spoilt(r) => ShownInv'
  BY <1>6 DEF Spoilt
<1>13. (Read(r) => source' = source \/ Spoilt(r)) /\ (Fail(r) => Spoilt(r))
  BY DEF Read, Fail
<1> QED
  BY <1>7, <1>8, <1>9, <1>10, <1>11, <1>12, <1>13 DEF Serve

LEMMA StepShown == SessInv /\ ShownInv /\ [Next]_vars => ShownInv'
<1> SUFFICES ASSUME SessInv, ShownInv, [Next]_vars PROVE ShownInv'
  OBVIOUS
<1>i. /\ stage \in [Tabs -> Stages] /\ user \in [Tabs -> Users \cup {NoOne}]
      /\ chats \in [Tabs -> SUBSET Chats] /\ timer \in [Tabs -> BOOLEAN]
      /\ source \in [Users -> Tabs \cup Slots \cup {NoOne}]
      /\ \A s \in Tabs : TabOK(s)
      /\ NoOne \notin Users \cup Tabs \cup Slots /\ Tabs \cap Slots = {}
      /\ \A u \in Users : Settled(u)
      /\ \A x \in Tabs : stage[x] = "on" /\ ~timer[x] => Follows(x)
  BY NoOneAssumption DEF SessInv, ShownInv
(* A step that sends nothing, and after which only a tab that had nothing  *)
(* pending before has nothing pending.                                     *)
<1>1. ASSUME UNCHANGED <<file, req, source>>,
             \A x \in Tabs : stage'[x] = "on" /\ ~timer'[x] =>
               stage[x] = "on" /\ ~timer[x] /\ user'[x] = user[x] /\ chats'[x] = chats[x]
      PROVE  ShownInv'
  <2>1. \A u \in Users : Settled(u)'
    BY <1>i, <1>1 DEF Settled, UnderWay
  <2>2. ASSUME NEW x \in Tabs, stage'[x] = "on", ~timer'[x] PROVE Follows(x)'
    <3>1. user'[x] = user[x] /\ chats'[x] = chats[x] /\ Follows(x)
      BY <1>i, <1>1, <2>2
    <3> QED
      BY <1>1, <3>1 DEF Follows, Outcome, Loaded
  <2> QED
    BY <2>1, <2>2 DEF ShownInv
<1>2. ASSUME NEW t \in Tabs, LeaveServer(t) PROVE ShownInv'
  <2>1. stage' = [stage EXCEPT ![t] = "leaving"] /\ UNCHANGED <<file, user, chats, timer, req, source>>
    BY <1>2 DEF LeaveServer
  <2>2. \A x \in Tabs : stage'[x] = "on" => stage[x] = "on"
    BY <1>i, <2>1
  <2> QED
    BY <1>1, <2>1, <2>2
<1>3. ASSUME NEW t \in Tabs, GoOut(t) \/ GoToForm(t) \/ (\E u \in Users : SignIn(t, u)) \/ Enter(t)
      PROVE  ShownInv'
  <2>1. UNCHANGED <<file, timer, req, source>>
    BY <1>3 DEF GoOut, GoToForm, SignIn, Enter
  <2>2. \E st \in Stages \ {"on"} : stage' = [stage EXCEPT ![t] = st]
    BY <1>3 DEF GoOut, GoToForm, SignIn, Enter, Stages
  <2>3. \A x \in Tabs \ {t} : user'[x] = user[x] /\ chats'[x] = chats[x]
    <3>1. \E v : user' = user \/ user' = [user EXCEPT ![t] = v]
      BY <1>3 DEF GoOut, GoToForm, SignIn, Enter
    <3>2. \E v : chats' = chats \/ chats' = [chats EXCEPT ![t] = v]
      BY <1>3 DEF GoOut, GoToForm, SignIn, Enter
    <3> QED
      BY <1>i, <3>1, <3>2
  <2>4. stage'[t] # "on" /\ \A x \in Tabs \ {t} : stage'[x] = stage[x]
    BY <1>i, <2>2
  <2> QED
    BY <1>1, <2>1, <2>3, <2>4
<1>4. ASSUME NEW t \in Tabs, Edit(t) PROVE ShownInv'
  <2>1. timer' = [timer EXCEPT ![t] = TRUE] /\ UNCHANGED <<file, stage, user, chats, req, source>>
    BY <1>4 DEF Edit
  <2>2. timer'[t] /\ \A x \in Tabs \ {t} : timer'[x] = timer[x]
    BY <1>i, <2>1
  <2> QED
    BY <1>1, <2>1, <2>2
<1>5. ASSUME NEW t \in Tabs, Boot(t) \/ NewChat(t) PROVE ShownInv'
  <2>1. \E old : AddChat(t, old)
    BY <1>5 DEF Boot, NewChat
  <2>2. timer'[t] /\ \A x \in Tabs \ {t} : timer'[x] = timer[x] /\ chats'[x] = chats[x]
    BY <1>i, <2>1 DEF AddChat
  <2>3. /\ UNCHANGED <<file, user, req, source>>
        /\ \E st : stage' = stage \/ stage' = [stage EXCEPT ![t] = st]
    BY <1>5 DEF Boot, NewChat
  <2>4. \A x \in Tabs \ {t} : stage'[x] = stage[x]
    BY <1>i, <2>3
  <2> QED
    BY <1>1, <2>2, <2>3, <2>4
<1>6. ASSUME NEW t \in Tabs, Fire(t) PROVE ShownInv'
  <2>1. /\ Sent(t, Post(t)) \/ Lost(t)
        /\ timer' = [timer EXCEPT ![t] = FALSE] /\ UNCHANGED <<file, stage, user, chats, made>>
    BY <1>6 DEF Fire, SendSave
  <2>2. /\ \A x \in Tabs \ {t} : timer'[x] = timer[x]
        /\ stage[t] = "on" => user[t] \in Users
        /\ Told(Post(t), user[t]) = chats'[t] /\ Post(t).at # "open"
    BY <1>i, <2>1 DEF Told, Post, TabOK
  <2>3. Known \subseteq Known'
    BY <2>1 DEF Known
  <2> QED
    BY <2>1, <2>2, <2>3, PostFits, SentShown
<1>7. ASSUME NEW t \in Tabs, Reload(t) PROVE ShownInv'
  <2>1. /\ Sent(t, Post(t)) \/ Lost(t)
        /\ timer' = [timer EXCEPT ![t] = FALSE] /\ UNCHANGED <<file, made>>
        /\ chats' = [chats EXCEPT ![t] = {}] /\ user' = [user EXCEPT ![t] = cookie]
        /\ stage' = [stage EXCEPT ![t] = IF cookie = NoOne THEN "out" ELSE "boot"]
    BY <1>7 DEF Reload, SendSave
  <2>2. /\ \A x \in Tabs \ {t} : /\ stage'[x] = stage[x] /\ user'[x] = user[x]
                                 /\ chats'[x] = chats[x] /\ timer'[x] = timer[x]
        /\ stage'[t] # "on" /\ Post(t).at # "open"
    BY <1>i, <2>1 DEF Post
  <2>3. Known \subseteq Known'
    BY <2>1 DEF Known
  <2> QED
    BY <2>1, <2>2, <2>3, PostFits, SentShown
<1>8. ASSUME NEW t \in Tabs, NEW c \in Chats, Delete(t, c) PROVE ShownInv'
  <2>1. /\ stage[t] \in {"on", "leaving"} /\ c \in chats[t] /\ Drop(t, c)
        /\ Sent(t, DeleteOf(t, c)) \/ Lost(t)
        /\ UNCHANGED <<file, stage, user>>
    BY <1>8 DEF Delete
  <2>2. user[t] \in Users /\ chats[t] \in SUBSET Known /\ c \in Known
    BY <1>i, <2>1 DEF TabOK
  <2>3. CASE chats[t] = {c}
    <3>1. AddChat(t, {}) /\ {} \in SUBSET Known
      BY <2>1, <2>3 DEF Drop
    <3>2. /\ Grows(user[t]) /\ timer'[t]
          /\ \A x \in Tabs \ {t} : chats'[x] = chats[x] /\ timer'[x] = timer[x]
      BY <2>2, <3>1, ChatAdded
    <3>3. Known \subseteq Known'
      BY <2>2, <3>2, MadeGrows
    <3>4. DeleteOf(t, c).at # "open"
      BY DEF DeleteOf
    <3> QED
      BY <2>1, <2>2, <3>2, <3>3, <3>4, DeleteFits, SentShown
  <2>4. CASE chats[t] # {c}
    <3>1. chats' = [chats EXCEPT ![t] = chats[t] \ {c}] /\ UNCHANGED <<made, timer>>
      BY <2>1, <2>4 DEF Drop
    <3>2. chats'[t] = chats[t] \ {c} /\ \A x \in Tabs \ {t} : chats'[x] = chats[x]
      BY <1>i, <3>1
    <3>3. Known \subseteq Known'
      BY <3>1 DEF Known
    <3>4. DeleteOf(t, c).at # "open" /\ DeleteOf(t, c).id = c /\ c # 0
      BY <2>2, KnownIsChats DEF DeleteOf
    <3>5. ASSUME stage[t] = "on", ~timer[t], Clean(t, c) PROVE Told(DeleteOf(t, c), user[t]) = chats'[t]
      <4>1. source[user[t]] = t /\ Follows(t)
        BY <1>i, <3>4, <3>5 DEF Clean
      <4>2. file[user[t]] = chats[t]
        BY <4>1 DEF Follows
      <4>3. Loaded(user[t]) = chats[t]
        BY <1>i, <2>2, <4>2, KnownIsChats DEF Loaded
      <4> QED
        BY <3>2, <4>3 DEF Told, DeleteOf
    <3>6. stage'[t] = "on" /\ ~timer'[t] /\ Clean(t, DeleteOf(t, c).id)
            => Told(DeleteOf(t, c), user[t]) = chats'[t]
      BY <2>1, <3>1, <3>4, <3>5
    <3>7. Fits(t, DeleteOf(t, c))
      BY <2>2, DeleteFits
    <3> QED
      BY <2>1, <2>2, <3>1, <3>2, <3>3, <3>4, <3>6, <3>7, SentShown
  <2> QED
    BY <2>3, <2>4
<1>9. CASE Restart
  <2>1. /\ UNCHANGED <<file, stage, user, chats, timer>> /\ req' = [r \in Slots |-> NoRequest]
        /\ source' = [u \in Users |-> IF source[u] \in Slots THEN NoOne ELSE source[u]]
    BY <1>9 DEF Restart
  <2>2. \A u \in Users : UnderWay(u)' = {} /\ source'[u] \notin Slots
    BY <1>i, <2>1 DEF UnderWay, NoRequest
  <2>3. \A u \in Users : Settled(u)'
    BY <2>2 DEF Settled
  <2>4. ASSUME NEW x \in Tabs, stage'[x] = "on", ~timer'[x] PROVE Follows(x)'
    <3>1. user[x] \in Users /\ Follows(x)
      BY <1>i, <2>1, <2>4 DEF TabOK
    <3>2. source'[user[x]] = x => source[user[x]] = x
      BY <1>i, <2>1, <3>1
    <3> QED
      BY <2>1, <2>2, <3>1, <3>2 DEF Follows
  <2> QED
    BY <2>3, <2>4 DEF ShownInv
<1>10. CASE UNCHANGED vars
  BY <1>1, <1>10 DEF vars
<1> QED
  BY <1>2, <1>3, <1>4, <1>5, <1>6, <1>7, <1>8, <1>9, <1>10, ServerShown DEF Next, TabStep

LEMMA InitShown == Init => ShownInv
<1> SUFFICES ASSUME Init PROVE ShownInv
  OBVIOUS
<1>1. \A u \in Users : source[u] \notin Tabs \cup Slots
  BY NoOneAssumption DEF Init
<1>2. \A x \in Tabs : stage[x] # "on"
  BY DEF Init
<1> QED
  BY <1>1, <1>2 DEF ShownInv, Settled

(* Once a save is served, what is saved is what is shown (SavedIsShown),   *)
(* with any number of tabs, users and requests under way, in whatever order*)
(* they are served, lost or fail, and with restarts.                       *)
THEOREM SavedAsShown == Spec => []SavedIsShown
<1>1. ShownInv => SavedIsShown
  BY DEF ShownInv, SavedIsShown, Follows
<1> QED
  BY <1>1, InitTypes, StepTypes, InitShown, StepShown, PTL DEF Spec
=============================================================================
