------------------------------ MODULE Sessions ------------------------------
(***************************************************************************)
(* The saved chats: one file for each user (run.py /sessions) and the tabs *)
(* of a browser (index.html) that keep a list of the user's chats, post it *)
(* as a whole 1.5 s after a change and when they close, and ask the server *)
(* to take a deleted chat out.  The tabs share the browser's session       *)
(* cookie.                                                                 *)
(*                                                                         *)
(* A chat is a number; its name and messages are left out.  The requests   *)
(* are asynchronous and are served by threads: opening a file to write it  *)
(* truncates it, and what is read then is no JSON.  A request may be lost, *)
(* refused or fail, which nobody looks at.  The page that closes waits for *)
(* its last save, which browsers may cut short; the model need not wait.   *)
(***************************************************************************)
EXTENDS Integers, Sequences, FiniteSets

CONSTANTS Users, Tabs,
          Slots,       \* the requests that may be under way at one time
          NoOne,       \* no user: the cookie has none; no tab and no request
          MaxChats,    \* bound: chats ever made
          MaxDeletes   \* bound: chats ever deleted

ASSUME NoOneAssumption  == NoOne \notin Users \cup Tabs \cup Slots /\ Tabs \cap Slots = {}
ASSUME BoundsAssumption == MaxChats \in Nat /\ MaxDeletes \in Nat

VARIABLES
  cookie,   \* session["username"] in the browser's cookie
  file,     \* chat_sessions_<user>.json
  stage,    \* where a tab is, see Stages
  user,     \* currentUser of a tab
  chats,    \* chatSessions of a tab
  timer,    \* its saveTimer is set and saveDirty
  req,      \* the requests under way: POST /sessions, DELETE /sessions/<id>
  made,     \* history: who made each chat so far
  deleted,  \* history: the chats deleted in a tab
  echoed,   \* history: deleted chats that another list, save or DELETE still
            \* held, or whose own DELETE was lost or failed
  strayed,  \* history: a tab sent a list, or asked for one, that was not its user's
  carried,  \* history: a user signed in by the form over another user's list
  source    \* history: the tab whose list a user's file holds, the request that
            \* will make it so, or NoOne: see Clean and Served

vars == <<cookie, file, stage, user, chats, timer, req, made, deleted, echoed, strayed, carried,
          source>>

Chats  == 1 .. MaxChats
Stages == {"out", "leaving", "form", "entering", "switching", "boot", "on"}
Broken == {0}  \* a file that is no JSON

(* A request: the tab it is of, the user of its cookie, the list to write, *)
(* and the chat that a DELETE takes out, 0 for a POST.  It is "sent", and  *)
(* "ready" once it has its list, then "open" when the file is truncated.   *)
NoRequest == [at |-> "none", by |-> NoOne, as |-> NoOne, id |-> 0, list |-> {}]
Post(t)       == [at |-> "ready", by |-> t, as |-> cookie, id |-> 0, list |-> chats[t]]
DeleteOf(t, c) == [at |-> "sent", by |-> t, as |-> cookie, id |-> c, list |-> {}]

Init ==
  /\ cookie = NoOne
  /\ file = [u \in Users |-> {}]
  /\ stage = [t \in Tabs |-> "out"]
  /\ user = [t \in Tabs |-> NoOne]
  /\ chats = [t \in Tabs |-> {}]
  /\ timer = [t \in Tabs |-> FALSE]
  /\ req = [r \in Slots |-> NoRequest]
  /\ made = <<>>
  /\ deleted = {}
  /\ echoed = {}
  /\ strayed = FALSE
  /\ carried = FALSE
  /\ source = [u \in Users |-> NoOne]

-----------------------------------------------------------------------------
UnderWay(u) == {r \in Slots : req[r].at # "none" /\ req[r].as = u}

(* A request settles what the file of its user will be, if it is sent under*)
(* the cookie of the user the tab shows, no other request for the file is  *)
(* under way, and a DELETE finds the tab's own list in the file.           *)
Clean(t, id) ==
  /\ cookie = user[t]
  /\ UnderWay(cookie) = {}
  /\ id # 0 => source[cookie] = t

(* A request that is not answered: it is lost, or refused as the cookie has*)
(* no user.                                                                *)
Lost(t) ==
  /\ source' = [u \in Users |-> IF u = user[t] THEN NoOne ELSE source[u]]
  /\ UNCHANGED <<req, strayed>>

Sent(t, q) ==
  \E r \in Slots :
    /\ cookie # NoOne /\ req[r] = NoRequest
    /\ req' = [req EXCEPT ![r] = q]
    /\ source' = [u \in Users |-> IF u \notin {cookie, user[t]} THEN source[u]
                                  ELSE IF Clean(t, q.id) THEN r ELSE NoOne]
    /\ strayed' = (strayed \/ stage[t] \notin {"on", "leaving", "form"} \/ cookie # user[t])

(* Signing out, in the switch dialog too: the server forgets the user, the *)
(* tab is told later.                                                      *)
LeaveServer(t) ==
  /\ stage[t] = "on"
  /\ cookie' = NoOne
  /\ stage' = [stage EXCEPT ![t] = "leaving"]
  /\ UNCHANGED <<file, user, chats, timer, req, made, deleted, echoed, strayed, carried,
                 source>>

GoOut(t) ==
  /\ stage[t] = "leaving"
  /\ stage' = [stage EXCEPT ![t] = "out"]
  /\ user' = [user EXCEPT ![t] = NoOne]
  /\ chats' = [chats EXCEPT ![t] = {}]
  /\ UNCHANGED <<cookie, file, timer, req, made, deleted, echoed, strayed, carried,
                 source>>

(* The link of the switch dialog to the form: nobody is signed out and the *)
(* tab's list stays.                                                       *)
GoToForm(t) ==
  /\ stage[t] \in {"on", "leaving"}
  /\ stage' = [stage EXCEPT ![t] = "form"]
  /\ UNCHANGED <<cookie, file, user, chats, timer, req, made, deleted, echoed, strayed, carried,
                 source>>

(* The server signs a user in or registers one, from the form or from the  *)
(* switch dialog; the tab hears of it later.                               *)
SignIn(t, u) ==
  /\ stage[t] \in {"out", "form", "leaving"}
  /\ cookie' = u
  /\ stage' = [stage EXCEPT ![t] = IF @ = "leaving" THEN "switching" ELSE "entering"]
  /\ user' = [user EXCEPT ![t] = u]
  /\ carried' = (carried \/ (stage[t] = "form" /\ u # user[t] /\ chats[t] # {}))
  /\ UNCHANGED <<file, chats, timer, req, made, deleted, echoed, strayed, source>>

(* Mutant: the switch dialog keeps the old list.                           *)
EnterKeeps(t) ==
  /\ stage[t] \in {"entering", "switching"}
  /\ stage' = [stage EXCEPT ![t] = "boot"]
  /\ UNCHANGED <<cookie, file, user, chats, timer, req, made, deleted, echoed, strayed, carried,
                 source>>

(* The answer, and seven seconds of a loading screen.  The dialog clears   *)
(* the list; the form does not.                                            *)
Enter(t) ==
  /\ stage[t] \in {"entering", "switching"}
  /\ stage' = [stage EXCEPT ![t] = "boot"]
  /\ chats' = [chats EXCEPT ![t] = IF stage[t] = "switching" THEN {} ELSE @]
  /\ UNCHANGED <<cookie, file, user, timer, req, made, deleted, echoed, strayed, carried,
                 source>>

Other(t) == {s \in Tabs \ {t} : stage[s] # "out"}

(* Mutant: a new chat is not saved until something else is.                *)
AddChatUnsaved(t, old) ==
  /\ Len(made) < MaxChats
  /\ made' = Append(made, user[t])
  /\ chats' = [chats EXCEPT ![t] = old \cup {Len(made')}]
  /\ UNCHANGED timer

(* createSession, and the pending save that every new chat comes with.     *)
AddChat(t, old) ==
  /\ Len(made) < MaxChats
  /\ made' = Append(made, user[t])
  /\ chats' = [chats EXCEPT ![t] = old \cup {Len(made')}]
  /\ timer' = [timer EXCEPT ![t] = TRUE]

(* load_chat_sessions: no list for a file that is no JSON.                 *)
Loaded(u) == IF u = NoOne \/ file[u] = Broken THEN {} ELSE file[u]

(* bootApp: the list of the server, if it has one and answers, and a new   *)
(* chat.                                                                   *)
Boot(t) ==
  /\ stage[t] = "boot"
  /\ stage' = [stage EXCEPT ![t] = "on"]
  /\ \E loaded \in {Loaded(cookie), {}} :
       /\ AddChat(t, IF loaded = {} THEN chats[t] ELSE loaded)
       /\ echoed' = echoed \cup (loaded \cap deleted)
  /\ strayed' = (strayed \/ cookie \notin {user[t], NoOne})
  /\ UNCHANGED <<cookie, file, user, req, deleted, carried, source>>

NewChat(t) ==
  /\ stage[t] \in {"on", "leaving"}
  /\ AddChat(t, chats[t])
  /\ UNCHANGED <<cookie, file, stage, user, req, deleted, echoed, strayed, carried,
                 source>>

(* A rename, a message, or an answer that arrives late: scheduleSave.      *)
Edit(t) ==
  /\ ~timer[t]
  /\ timer' = [timer EXCEPT ![t] = TRUE]
  /\ UNCHANGED <<cookie, file, stage, user, chats, req, made, deleted, echoed, strayed, carried,
                 source>>

(* POST /sessions: whether it is saved is not looked at.                   *)
SendSave(t) == Sent(t, Post(t)) \/ Lost(t)

(* persistSessions, when the timer is over.                                *)
Fire(t) ==
  /\ timer[t]
  /\ timer' = [timer EXCEPT ![t] = FALSE]
  /\ SendSave(t)
  /\ UNCHANGED <<cookie, file, stage, user, chats, made, deleted, echoed, carried>>

(* beforeunload: the list is posted whatever the tab shows, and the page   *)
(* is loaded again, for the user of the cookie, if there is one.           *)
Reload(t) ==
  /\ SendSave(t)
  /\ timer' = [timer EXCEPT ![t] = FALSE]
  /\ chats' = [chats EXCEPT ![t] = {}]
  /\ user' = [user EXCEPT ![t] = cookie]
  /\ stage' = [stage EXCEPT ![t] = IF cookie = NoOne THEN "out" ELSE "boot"]
  /\ UNCHANGED <<cookie, file, made, deleted, echoed, carried>>

(* Mutant: no new chat is made when the last is deleted.                   *)
DropLast(t, c) == chats' = [chats EXCEPT ![t] = @ \ {c}] /\ UNCHANGED <<made, timer>>

(* The tab drops the chat, and makes a new one if it was the last.         *)
Drop(t, c) ==
  IF chats[t] = {c} THEN AddChat(t, {})
  ELSE chats' = [chats EXCEPT ![t] = @ \ {c}] /\ UNCHANGED <<made, timer>>

(* del-confirm: the chat is dropped and DELETE is sent; a pending save is  *)
(* neither cancelled nor awaited, nor is the DELETE.                       *)
Delete(t, c) ==
  /\ stage[t] \in {"on", "leaving"} /\ c \in chats[t] \ deleted
  /\ Cardinality(deleted) < MaxDeletes
  /\ Drop(t, c)
  /\ deleted' = deleted \cup {c}
  /\ LET held == (\E s \in Tabs \ {t} : c \in chats[s]) \/ \E r \in Slots : c \in req[r].list
     IN  \/ Sent(t, DeleteOf(t, c)) /\ echoed' = IF held THEN echoed \cup {c} ELSE echoed
         \/ Lost(t) /\ echoed' = echoed \cup {c}
  /\ UNCHANGED <<cookie, file, stage, user, carried>>

-----------------------------------------------------------------------------
(* The server.  Another thread may have the same file open for writing, or *)
(* have written it since it was truncated: the outcome is one list, or the *)
(* mixture of two.                                                         *)
Writers(u) == Cardinality({r \in Slots : req[r].at = "open" /\ req[r].as = u})

(* A request is over.  One that settles its user's file has done so, or    *)
(* will not.                                                               *)
Served(r) == source' = [u \in Users |-> IF source[u] = r THEN req[r].by ELSE source[u]]
Spoilt(r) == source' = [u \in Users |-> IF source[u] = r THEN NoOne ELSE source[u]]

(* Mutant: DELETE writes back the list it read.                            *)
ReadKeeps(r) ==
  /\ req[r].at = "sent"
  /\ req' = [req EXCEPT ![r].at = "ready", ![r].list = Loaded(req[r].as)]
  /\ UNCHANGED source
  /\ echoed' = echoed \cup (deleted \cap (Loaded(req[r].as) \ {req[r].id}))
  /\ UNCHANGED <<cookie, file, stage, user, chats, timer, made, deleted, strayed, carried>>

(* delete_session reads the file, for an empty list if that fails.         *)
Read(r) ==
  /\ req[r].at = "sent"
  /\ \E found \in {Loaded(req[r].as), {}} :
       /\ req' = [req EXCEPT ![r].at = "ready", ![r].list = found \ {req[r].id}]
       /\ IF found = Loaded(req[r].as) THEN UNCHANGED source ELSE Spoilt(r)
  /\ echoed' = echoed \cup (deleted \cap (Loaded(req[r].as) \ {req[r].id}))
  /\ UNCHANGED <<cookie, file, stage, user, chats, timer, made, deleted, strayed, carried>>

(* save_chat_sessions: open, which truncates, and write.                   *)
Truncate(r) ==
  /\ req[r].at = "ready"
  /\ file' = [file EXCEPT ![req[r].as] = Broken]
  /\ req' = [req EXCEPT ![r].at = "open"]
  /\ UNCHANGED <<cookie, stage, user, chats, timer, made, deleted, echoed, strayed, carried, source>>

Write(r) ==
  /\ req[r].at = "open"
  /\ \E out \in {req[r].list} \cup
              IF Writers(req[r].as) = 1 /\ file[req[r].as] = Broken THEN {} ELSE {Broken} :
       file' = [file EXCEPT ![req[r].as] = out]
  /\ req' = [req EXCEPT ![r] = NoRequest]
  /\ Served(r)
  /\ UNCHANGED <<cookie, stage, user, chats, timer, made, deleted, echoed, strayed, carried>>

(* The file cannot be opened, or not be written to the end: the exception  *)
(* is swallowed and the answer is the same.                                *)
Fail(r) ==
  /\ req[r].at \in {"ready", "open"}
  /\ \E out \in {file[req[r].as]} \cup IF req[r].at = "open" THEN {Broken} ELSE {} :
       file' = [file EXCEPT ![req[r].as] = out]
  /\ req' = [req EXCEPT ![r] = NoRequest]
  /\ Spoilt(r)
  /\ echoed' = echoed \cup ({req[r].id} \cap Chats)
  /\ UNCHANGED <<cookie, stage, user, chats, timer, made, deleted, strayed, carried>>

(* run.py is started again, with a new key for its cookies: what is under  *)
(* way is cut, and nobody is signed in.                                    *)
Restart ==
  /\ cookie' = NoOne
  /\ req' = [r \in Slots |-> NoRequest]
  /\ source' = [u \in Users |-> IF source[u] \in Slots THEN NoOne ELSE source[u]]
  /\ echoed' = echoed \cup ({req[r].id : r \in Slots} \cap Chats)
  /\ UNCHANGED <<file, stage, user, chats, timer, made, deleted, strayed, carried>>

TabStep(t) ==
  \/ LeaveServer(t) \/ GoOut(t) \/ GoToForm(t) \/ (\E u \in Users : SignIn(t, u))
  \/ Enter(t) \/ Boot(t)
  \/ NewChat(t) \/ Edit(t) \/ Fire(t) \/ Reload(t) \/ \E c \in Chats : Delete(t, c)

Serve(r) == Read(r) \/ Truncate(r) \/ Write(r) \/ Fail(r)

Next == Restart \/ (\E t \in Tabs : TabStep(t)) \/ \E r \in Slots : Serve(r)

Spec == Init /\ [][Next]_vars

-----------------------------------------------------------------------------
(* Type correctness.                                                       *)
SessTypeOK ==
  /\ cookie \in Users \cup {NoOne}
  /\ file \in [Users -> (SUBSET Chats) \cup {Broken}]
  /\ stage \in [Tabs -> Stages]
  /\ user \in [Tabs -> Users \cup {NoOne}]
  /\ chats \in [Tabs -> SUBSET Chats]
  /\ timer \in [Tabs -> BOOLEAN]
  /\ made \in Seq(Users)
  /\ deleted \cup echoed \subseteq Chats
  /\ source \in [Users -> Tabs \cup Slots \cup {NoOne}]
  /\ \A r \in Slots : /\ req[r].list \subseteq Chats
                      /\ req[r].at # "none" => req[r].as \in Users /\ req[r].by \in Tabs
  /\ \A t \in Tabs : stage[t] = "on" => chats[t] # {} /\ user[t] \in Users

(* Per-user isolation, as the documentation promises it: the file of a     *)
(* user, and the list of a tab that shows the user, hold no chat made by   *)
(* another, unless a tab sent or asked for a list while the cookie named   *)
(* another user than it showed, or before it had loaded its own.           *)
Own(u, list) == \A c \in list : made[c] = u
Isolated ==
  ~strayed =>
    /\ \A u \in Users : file[u] # Broken => Own(u, file[u])
    /\ \A t \in Tabs : stage[t] = "on" => Own(user[t], chats[t])

(* It holds but for one more cause: another user signed in, or was         *)
(* registered, through the form that the switch dialog leads to.           *)
IsolatedUnlessCarried == ~carried => Isolated

(* A deleted chat does not come back, unless its DELETE was lost, refused, *)
(* cut or failed; but for the lists that still held it: another tab's, a   *)
(* save's or another DELETE's under way, or one loaded before the DELETE   *)
(* was served; and for lists of the wrong user.                            *)
DeletedStaysDeleted ==
  \A c \in deleted \ echoed :
    ~strayed /\ ~carried /\ (\A r \in Slots : req[r].id # c)
      => /\ \A u \in Users : file[u] # Broken => c \notin file[u]
         /\ \A t \in Tabs : c \notin chats[t]

(* Once a save has been served, the file is what the tab shows whenever    *)
(* nothing is pending in it, through further saves and deletions, until    *)
(* one of them is lost, refused, cut or fails, is sent for another user, or*)
(* another request for the file is under way meanwhile; and again from the *)
(* next save on that meets none of these.                                  *)
SavedIsShown ==
  \A t \in Tabs :
    stage[t] = "on" /\ ~timer[t] /\ source[user[t]] = t => file[user[t]] = chats[t]
=============================================================================
