------------------------------- MODULE Sessions -------------------------------
(***************************************************************************)
(* Who may call the server: the security file, which --add-user commands   *)
(* rewrite beside the database, the copy of it a server loads when it      *)
(* starts, and the sessions the server keeps in memory.  A command and the *)
(* server are processes of their own, each of which may die between any    *)
(* two steps; the power may fail, and the save does not sync what it       *)
(* renames; the clock is the system's, which is also set back.             *)
(*                                                                         *)
(* Names are compared ignoring case, so a name here is a lower-case name.  *)
(* A stored password is the password its hash was made from, or one of     *)
(* Unreadable: no password, or no record of one.  A token is the number of *)
(* its login, for 32 random bytes are never issued twice.  One command     *)
(* runs at a time.                                                         *)
(***************************************************************************)
EXTENDS Naturals

CONSTANTS Users, Passwords,
          Unreadable,   \* stored passwords that nothing matches
          Roles,
          Commands,     \* what --add-user is asked: user, password, roles
          FirstFiles,   \* the users the file may have at first
          Blank,        \* the empty password
          Ttl,          \* seconds a session lasts
          MaxSeconds,   \* bound: the clock
          MaxLogins     \* bound: tokens issued

ASSUME BoundsAreNat == Ttl \in Nat /\ MaxSeconds \in Nat /\ MaxLogins \in Nat
ASSUME NobodyTypesARecord == Passwords \cap Unreadable = {}

Record == [password : Passwords \cup Unreadable, roles : SUBSET Roles]
Bank   == UNION {[us -> Record] : us \in SUBSET Users}

ASSUME FirstFilesAreUsers == FirstFiles \subseteq Bank
ASSUME CommandsNameUsers ==
    Commands \subseteq [user : Users, password : Passwords \cup {Blank}, roles : SUBSET Roles]

VARIABLES file,      \* the security file
          temp,      \* its sibling with the temporary name
          admin,     \* the command that runs: its step, the users it will save,
                     \* and which of them it was asked to create or update
          server,    \* the server: whether it runs, and the users it loaded
          sessions,  \* SessionStore.sessions: token -> user, roles, expiry
          clock,     \* now_unix
          issued,    \* number of tokens issued, by any run of the server
          dead,      \* history: tokens refused, revoked, or of an earlier run
          settled,   \* whether the live file is on the disk and not only cached
          known,     \* history: the users there were and those answered "saved"
          lost       \* history: the power failed before the live file had settled

answers  == <<known, lost>>
security == <<file, temp, admin, settled, answers>>
tokens   == <<sessions, issued, dead>>
sessionsVars == <<security, server, tokens, clock>>

Nobody  == <<>>
NoFile  == [kind |-> "none", users |-> Nobody]
Torn    == [kind |-> "torn", users |-> Nobody]
Whole(us) == [kind |-> "whole", users |-> us]
Asleep  == [pc |-> "idle", users |-> Nobody, whose |-> {}]
Down    == [up |-> FALSE, users |-> Nobody]

SessionsInit ==
    /\ \E us \in FirstFiles :
           /\ file = IF us = Nobody THEN NoFile ELSE Whole(us)
           /\ known = us
    /\ temp = NoFile
    /\ settled = TRUE
    /\ lost = FALSE
    /\ admin = Asleep
    /\ server = Down
    /\ sessions = Nobody
    /\ clock = 0
    /\ issued = 0
    /\ dead = {}

-------------------------------------------------------------------------------
(* --add-user: load, upsert_user, save.                                    *)

(* Mutant: the list is begun anew.                                         *)
Upsert_Alone(us, c) ==
    [u \in {c.user} |-> [password |-> c.password, roles |-> c.roles]]

Upsert(us, c) ==
    [u \in DOMAIN us \cup {c.user} |->
        IF u = c.user THEN [password |-> c.password, roles |-> c.roles] ELSE us[u]]

(* A file that cannot be read ends the command, an empty password too.     *)
StartCommand(c) ==
    /\ admin.pc = "idle"
    /\ file.kind # "torn" /\ c.password # Blank
    /\ admin' = [pc |-> "create", users |-> Upsert(file.users, c), whose |-> {c.user}]
    /\ UNCHANGED <<file, temp, settled, answers, server, tokens, clock>>

(* The command fails, or is killed, or is done.                            *)
EndCommand == admin' = Asleep

(* The users as they are once the command has answered.                    *)
Answered == [u \in DOMAIN known \cup admin.whose |->
                IF u \in admin.whose THEN admin.users[u] ELSE known[u]]

(* fs::write, in two steps: the file is emptied, then filled.              *)
CreateTemp ==
    /\ admin.pc = "create"
    /\ temp' = Torn
    /\ admin' = [admin EXCEPT !.pc = "write"]
    /\ UNCHANGED <<file, settled, answers, server, tokens, clock>>

WriteTemp ==
    /\ admin.pc = "write"
    /\ temp' = Whole(admin.users)
    /\ admin' = [admin EXCEPT !.pc = "rename"]
    /\ UNCHANGED <<file, settled, answers, server, tokens, clock>>

(* Mutant: the live file is emptied before it is replaced.                 *)
Rename_InPlace ==
    /\ admin.pc \in {"rename", "replace"}
    /\ IF admin.pc = "rename"
         THEN /\ file' = Torn
              /\ admin' = [admin EXCEPT !.pc = "replace"]
              /\ UNCHANGED <<temp, settled, known>>
         ELSE /\ file' = temp /\ temp' = NoFile /\ settled' = FALSE
              /\ known' = Answered /\ EndCommand
    /\ UNCHANGED <<lost, server, tokens, clock>>

(* The rename, and the answer that the user is saved.                      *)
Rename ==
    /\ admin.pc = "rename"
    /\ file' = temp
    /\ temp' = NoFile
    /\ settled' = FALSE
    /\ known' = Answered
    /\ EndCommand
    /\ UNCHANGED <<lost, server, tokens, clock>>

(* A step of the save fails, or the command is killed before it; only a    *)
(* failed rename removes the temporary file (if it can).                   *)
FailCommand ==
    /\ admin.pc # "idle"
    /\ EndCommand
    /\ temp' \in {temp} \cup (IF admin.pc = "rename" THEN {NoFile} ELSE {})
    /\ UNCHANGED <<file, settled, answers, server, tokens, clock>>

-------------------------------------------------------------------------------
(* The server.  It does not start from a file it cannot read; without      *)
(* users it starts only if told to, and then nobody logs in.               *)
StartServer ==
    /\ ~server.up /\ file.kind # "torn"
    /\ server' = [up |-> TRUE, users |-> file.users]
    /\ sessions' = Nobody
    /\ UNCHANGED <<security, issued, dead, clock>>

(* Mutant: the sessions are still there after a restart.                   *)
StopServer_KeepsSessions ==
    /\ server.up
    /\ server' = Down
    /\ dead' = dead \cup DOMAIN sessions
    /\ UNCHANGED <<security, sessions, issued, clock>>

(* It is stopped or dies, and its sessions with it.                        *)
StopServer ==
    /\ server.up
    /\ server' = Down
    /\ sessions' = Nobody
    /\ dead' = dead \cup DOMAIN sessions
    /\ UNCHANGED <<security, issued, clock>>

Verifies(stored, password) == stored = password /\ stored \notin Unreadable

Authentic(u, password) ==
    u \in DOMAIN server.users /\ Verifies(server.users[u].password, password)

(* POST /v1/login, when it is answered with a token.                       *)
Login(u, password) ==
    /\ server.up /\ issued < MaxLogins
    /\ Authentic(u, password)
    /\ issued' = issued + 1
    /\ sessions' = [t \in DOMAIN sessions \cup {issued'} |->
                       IF t = issued' THEN [user |-> u, roles |-> server.users[u].roles,
                                            expires |-> clock + Ttl]
                       ELSE sessions[t]]
    /\ UNCHANGED <<security, server, dead, clock>>

Live(t) == t \in DOMAIN sessions /\ clock < sessions[t].expires

Drop(t) == sessions' = [s \in DOMAIN sessions \ {t} |-> sessions[s]]

(* Mutant: an expired token is refused and stays in the table.             *)
Validate_Keeps(t) ==
    /\ server.up
    /\ ~Live(t) /\ dead' = dead \cup {t}
    /\ UNCHANGED <<security, server, sessions, issued, clock>>

(* SessionStore::validate, for a token that is refused: it is dropped on   *)
(* the way out.  One that is accepted changes nothing.                     *)
Validate(t) ==
    /\ server.up
    /\ ~Live(t) /\ dead' = dead \cup {t}
    /\ Drop(t)
    /\ UNCHANGED <<security, server, issued, clock>>

(* SessionStore::revoke, which no route calls so far.                      *)
Revoke(t) ==
    /\ server.up /\ t \in DOMAIN sessions
    /\ dead' = dead \cup {t}
    /\ Drop(t)
    /\ UNCHANGED <<security, server, issued, clock>>

(* The system writes back what it holds of the security file.              *)
Settle ==
    /\ ~settled /\ settled' = TRUE
    /\ UNCHANGED <<file, temp, admin, answers, server, tokens, clock>>

(* Every process dies; of a file that had not settled any part is left.    *)
PowerFailure ==
    /\ EndCommand
    /\ file' \in {file} \cup (IF settled THEN {} ELSE {Torn})
    /\ temp' \in {temp} \cup (IF temp = NoFile THEN {} ELSE {Torn})
    /\ lost' = (lost \/ ~settled)
    /\ settled' = TRUE
    /\ server' = Down /\ sessions' = Nobody
    /\ dead' = dead \cup DOMAIN sessions
    /\ UNCHANGED <<known, issued, clock>>

(* Time passes, or the system's clock is set.                              *)
SetClock(s) ==
    /\ s # clock
    /\ clock' = s
    /\ UNCHANGED <<security, server, tokens>>

SessionsNext ==
    \/ \E c \in Commands : StartCommand(c)
    \/ CreateTemp \/ WriteTemp \/ Rename \/ FailCommand
    \/ StartServer \/ StopServer
    \/ Settle \/ PowerFailure
    \/ \E u \in Users, password \in Passwords : Login(u, password)
    \/ \E t \in 1..issued : Validate(t) \/ Revoke(t)
    \/ \E s \in 0..MaxSeconds : SetClock(s)

SessionsSpec == SessionsInit /\ [][SessionsNext]_sessionsVars

-------------------------------------------------------------------------------
(* The properties.                                                         *)

File == [kind : {"none", "torn", "whole"}, users : Bank]

TypeOK ==
    /\ file \in File /\ temp \in File
    /\ admin \in [pc : {"idle", "create", "write", "rename"}, users : Bank, whose : SUBSET Users]
    /\ admin.whose \subseteq DOMAIN admin.users
    /\ server \in [up : BOOLEAN, users : Bank]
    /\ known \in Bank /\ settled \in BOOLEAN /\ lost \in BOOLEAN
    /\ clock \in 0..MaxSeconds /\ issued \in 0..MaxLogins
    /\ dead \subseteq 1..issued
    /\ DOMAIN sessions \subseteq 1..issued
    /\ \A t \in DOMAIN sessions :
           sessions[t] \in [user : Users, roles : SUBSET Roles, expires : Nat]

(* session.rs:3: a token that was refused once, was revoked, or belongs to *)
(* an earlier run of the server is never good again, wherever the clock is *)
(* set and however often the server starts.                                *)
DeadTokensStayDead == \A t \in dead : ~Live(t)

(* store.rs:62, "a half-written security file is a locked-out admin":      *)
(* whatever step a command fails or dies in, the next start of the server  *)
(* finds a file it can read, with all the users there were and every one   *)
(* a command has answered for, as it last said; a power failure does no    *)
(* harm either once the live file is on the disk.                          *)
NobodyIsLockedOut == ~lost => file.kind # "torn" /\ file.users = known
===============================================================================
