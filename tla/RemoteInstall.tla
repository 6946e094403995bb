--------------------------- MODULE RemoteInstall ---------------------------
(***************************************************************************)
(* A service node installed and operated over SSH: installRemoteServiceNode *)
(* of panel-backend/src/services/ssh/remote-install.ts, restartServiceNode *)
(* and rebootServer of ssh/metrics.ts, the dialog RemoteInstallDialog.tsx   *)
(* and the buttons of ActionPanel.tsx, all against one server.             *)
(*                                                                         *)
(* An install stands for the token it generates, so `host.env` and         *)
(* `host.token` name the install that wrote .env and the one whose token   *)
(* the container was created with.  The server is external: a command does *)
(* what its script says, wholly or until something in it fails.  Two facts *)
(* of those scripts carry the model: most of them end in `echo`, which     *)
(* hides a failure, and the container reads .env when it is created, not   *)
(* when it is restarted.                                                   *)
(***************************************************************************)
EXTENDS Naturals, Sequences

CONSTANTS Installs,    \* the installations of this server that are ever asked for
          MaxActions,  \* bound: restarts and reboots asked for in a run
          None         \* no token, no request, no command

ASSUME MaxActionsAssumption == MaxActions \in Nat
ASSUME NoneAssumption == None \notin Installs \cup {"docker", "clone", "env", "up"}

VARIABLES
    host,    \* the server
    pc,      \* the command each install waits for, or how it ended
    orphan,  \* a command that outlives its time-out, by install
    ui,      \* the installation dialog: its step, the install it is about
    rows,    \* tokens of the node rows of the panel
    act,     \* the action panel: the request under way, the name typed
    task,    \* the command of restartServiceNode or rebootServer under way
    asked,   \* restarts and reboots so far
    only     \* ghost: the install that has had the server to itself

vars == <<host, pc, orphan, ui, rows, act, task, asked, only>>

\* The commands of installRemoteServiceNode.  Those for the release file, the
\* utilities and the network are left out: their exit code is always 0, and a
\* failure shows as one of `clone` or `up`.
Commands == <<"ip", "docker", "clone", "env", "up", "health">>
Waiting == {Commands[k] : k \in 1..Len(Commands)}
Answers == {"success", "failure", "error"}
Tokens == Installs \cup {None}
Hosts == [on: BOOLEAN, docker: BOOLEAN, clone: BOOLEAN, env: Tokens, token: Tokens,
          run: BOOLEAN, data: BOOLEAN]

TypeOK == /\ host \in Hosts
          /\ pc \in [Installs -> {"idle", "lost"} \cup Waiting \cup Answers]
          /\ orphan \in [Installs -> {"docker", "clone", "env", "up", None}]
          /\ ui \in [step: {"closed", "form", "testing", "installing", "error", "success"},
                     req: Tokens]
          /\ rows \subseteq Installs
          /\ act \in [running: {"restart", "reboot", None}, typed: BOOLEAN]
          /\ task \in {None, "test", "ps", "restart", "wait", "sudo", "reboot"}
          /\ asked \in 0..MaxActions
          /\ only \in Tokens

\* A server without the suite, with or without docker.
Init == /\ host \in {h \in Hosts : /\ h.on /\ ~h.clone /\ ~h.run /\ ~h.data
                                   /\ h.env = None /\ h.token = None}
        /\ pc = [i \in Installs |-> "idle"]
        /\ orphan = [i \in Installs |-> None]
        /\ ui = [step |-> "closed", req |-> None]
        /\ rows = {}
        /\ act = [running |-> None, typed |-> FALSE]
        /\ task = None
        /\ asked = 0
        /\ only = None

Running == {i \in Installs : pc[i] \in Waiting}
Orphans == {i \in Installs : orphan[i] # None}
panel == <<act, task, asked>>
-----------------------------------------------------------------------------
(* The commands of an installation.                                        *)

\* A mutation: a directory is cloned anew even if it holds a clone.
CloneAnew(h) == [h EXCEPT !.clone = TRUE, !.env = None, !.data = FALSE]

\* Without .git the directory is removed, .env and the data with it.
Clone(h) == IF h.clone THEN h
            ELSE [h EXCEPT !.clone = TRUE, !.env = None, !.data = FALSE]

\* A node without AUTH_TOKEN refuses to start.
Up(h) == IF h.docker /\ h.clone
         THEN [h EXCEPT !.token = h.env, !.run = h.env # None, !.data = @ \/ h.env # None]
         ELSE h

\* The server after the script of the command `c` ran to its end.
Done(c, i, h) == CASE c = "docker" -> [h EXCEPT !.docker = TRUE]
                   [] c = "clone"  -> Clone(h)
                   [] c = "env"    -> IF h.clone THEN [h EXCEPT !.env = i] ELSE h
                   [] c = "up"     -> Up(h)
                   [] OTHER        -> h

\* The server after something in the script failed: a download, the disk, a port
\* that is taken when the container has been created anew but does not start.
Broken(c, h) ==
    {h} \cup CASE c = "clone" /\ ~h.clone -> {[h EXCEPT !.env = None, !.data = FALSE]}
               [] c = "env" /\ h.clone -> {[h EXCEPT !.env = None]}
               [] c = "up" /\ h.docker /\ h.clone -> {[h EXCEPT !.token = h.env, !.run = FALSE]}
               [] OTHER -> {}

\* The exit codes that tell a failure; the other scripts end in `echo`.
ExitsZero(c, h, broken) == /\ c \in {"ip", "clone", "health"} => ~broken
                           /\ c = "health" => h.run

\* A failure of the first command is thrown, and answered with 500; any other ends
\* the sequence with an answer that says so.
Ended(c) == IF c = "ip" THEN "error" ELSE "failure"
Following(c) == IF c = "health" THEN "success"
                ELSE Commands[1 + CHOOSE k \in 1..Len(Commands) : Commands[k] = c]

\* Ghost: another install has begun to create the container.
OnlyAfter(i) == only' = IF pc[i] = "up" /\ only # i THEN None ELSE only

Run(i) ==
    /\ pc[i] \in Waiting
    /\ host.on
    /\ \E broken \in BOOLEAN :
          /\ host' \in IF broken THEN Broken(pc[i], host) ELSE {Done(pc[i], i, host)}
          /\ pc' = [pc EXCEPT ![i] = IF ExitsZero(pc[i], host, broken) THEN Following(pc[i])
                                     ELSE Ended(pc[i])]
    /\ OnlyAfter(i)
    /\ UNCHANGED <<orphan, ui, rows, panel>>

\* A mutation: any command is taken to go on.
LeavesAny(c) == c

Leaves(c) == IF host.on /\ c \in {"docker", "clone", "env", "up"} THEN c ELSE None

\* A mutation: the long commands have no time-out.
TimeOutOfShort(i) ==
    /\ pc[i] \in Waiting \ {"docker", "up"}
    /\ pc' = [pc EXCEPT ![i] = Ended(pc[i])]
    /\ orphan' = [orphan EXCEPT ![i] = Leaves(pc[i])]
    /\ UNCHANGED <<host, ui, rows, panel, only>>

\* No connection, no answer in time, or a channel that closes without an exit code.
\* The script may go on at the server.
TimeOut(i) ==
    /\ pc[i] \in Waiting
    /\ pc' = [pc EXCEPT ![i] = Ended(pc[i])]
    /\ orphan' = [orphan EXCEPT ![i] = Leaves(pc[i])]
    /\ OnlyAfter(i)
    /\ UNCHANGED <<host, ui, rows, panel>>

\* What has become of a script nobody waits for: it ended, broke off or was killed.
OrphanEnds(i) ==
    /\ orphan[i] # None
    /\ host' \in {Done(orphan[i], i, host)} \cup Broken(orphan[i], host)
    /\ orphan' = [orphan EXCEPT ![i] = None]
    /\ UNCHANGED <<pc, ui, rows, panel, only>>

\* The panel's process dies: its requests end without an answer.
PanelDies ==
    /\ Running # {} \/ task # None
    /\ pc' = [i \in Installs |-> IF i \in Running THEN "lost" ELSE pc[i]]
    /\ orphan' = [i \in Installs |-> IF i \in Running THEN Leaves(pc[i]) ELSE orphan[i]]
    /\ only' = IF \E i \in Installs \ {only} : pc[i] = "up" THEN None ELSE only
    /\ task' = None
    /\ UNCHANGED <<host, ui, rows, act, asked>>
-----------------------------------------------------------------------------
(* The dialog.                                                             *)

Show(s) == ui' = [ui EXCEPT !.step = s]
OnlyDialog == UNCHANGED <<host, pc, orphan, rows, panel, only>>

\* The cross is there at every step; an install goes on without the dialog.
OpenOrClose == /\ ui' = [step |-> IF ui.step = "closed" THEN "form" ELSE "closed", req |-> None]
               /\ OnlyDialog

TestSsh == ui.step = "form" /\ Show("testing") /\ OnlyDialog

\* The connection, its script and whether docker is there: the form with what was
\* found, or the error.
TestAnswers == ui.step = "testing" /\ (Show("form") \/ Show("error")) /\ OnlyDialog

BackToForm == ui.step = "error" /\ Show("form") /\ OnlyDialog

\* The route takes the request, draws a token and waits for the first command.
Accept(i) == /\ pc[i] = "idle"
             /\ pc' = [pc EXCEPT ![i] = "ip"]
             /\ only' = IF \A j \in Installs : pc[j] = "idle" THEN i
                        ELSE IF only \in Running THEN None ELSE only

\* A request without an address or with a port out of range is refused at once.
Install(i) == /\ ui.step = "form"
              /\ \/ Accept(i) /\ ui' = [step |-> "installing", req |-> i]
                 \/ Show("error") /\ UNCHANGED <<pc, only>>
              /\ UNCHANGED <<host, orphan, rows, panel>>

\* The answer, none from a panel that died, or the time-out of ten minutes.
Answered == /\ ui.step = "installing"
            /\ \/ pc[ui.req] = "success" /\ Show("success")
               \/ pc[ui.req] # "success" /\ Show("error")
            /\ OnlyDialog

\* A second click before the answer adds a row with the same token.
AddAsNode == /\ ui.step = "success"
             /\ rows' = rows \cup {ui.req}
             /\ UNCHANGED <<host, pc, orphan, ui, panel, only>>
-----------------------------------------------------------------------------
(* Restart and reboot.                                                     *)

OnlyAction == UNCHANGED <<pc, orphan, ui, rows, only>>

\* A reboot is asked for after the name of the node was typed.
Ask(kind) ==
    /\ act.running = None /\ task = None
    /\ asked < MaxActions
    /\ kind = "reboot" => act.typed
    /\ act' = [act EXCEPT !.running = kind]
    /\ task' = IF kind = "restart" THEN "test" ELSE "sudo"
    /\ asked' = asked + 1
    /\ UNCHANGED host /\ OnlyAction

TypeName == /\ act.running = None /\ asked < MaxActions
            /\ act' = [act EXCEPT !.typed = ~@]
            /\ UNCHANGED <<host, task, asked>> /\ OnlyAction

Then(from, to) == task = from /\ task' = to /\ UNCHANGED <<act, asked>> /\ OnlyAction

\* The answer: success, failure or an exception, which keeps the typed name.
Ends(from) ==
    /\ task = from /\ task' = None
    /\ act' \in {[act EXCEPT !.running = None],
                 [running |-> None, typed |-> act.typed /\ act.running # "reboot"]}
    /\ UNCHANGED asked /\ OnlyAction

\* A mutation: the restart is an `up -d`, which creates the container from .env.
RestartUp == /\ host.on /\ host.token # None
             /\ host' = Up(host)
             /\ Then("restart", "wait")

\* docker compose restart: the container that exists, with the token it has.
Restart == /\ host.on /\ host.token # None
           /\ host' = [host EXCEPT !.run = TRUE]
           /\ Then("restart", "wait")

RestartServiceNode ==
    \/ host.on /\ host.clone /\ Then("test", "ps") /\ UNCHANGED host
    \/ host.on /\ Then("ps", "restart") /\ UNCHANGED host
    \/ Restart
    \/ \E t \in {"test", "ps", "restart", "wait"} : Ends(t) /\ UNCHANGED host

\* The server may go down although the command's answer never comes.
RebootServer ==
    \/ host.on /\ Then("sudo", "reboot") /\ UNCHANGED host
    \/ host.on /\ Ends("reboot") /\ host' = [host EXCEPT !.on = FALSE, !.run = FALSE]
    \/ \E t \in {"sudo", "reboot"} : Ends(t) /\ UNCHANGED host

\* What still ran on the server is gone; its containers are started again.
Boot == /\ ~host.on
        /\ host' = [host EXCEPT !.on = TRUE, !.run = host.token # None]
        /\ orphan' = [i \in Installs |-> None]
        /\ UNCHANGED <<pc, ui, rows, panel, only>>

\* The time-out of the browser's request; the panel goes on.
ActionTimesOut == /\ act.running # None
                  /\ act' = [act EXCEPT !.running = None]
                  /\ UNCHANGED <<host, task, asked>> /\ OnlyAction
-----------------------------------------------------------------------------
Next == \/ \E i \in Installs : Run(i) \/ TimeOut(i) \/ OrphanEnds(i) \/ Install(i)
        \/ OpenOrClose \/ TestSsh \/ TestAnswers \/ BackToForm \/ Answered \/ AddAsNode
        \/ Ask("restart") \/ Ask("reboot") \/ TypeName \/ RestartServiceNode \/ RebootServer
        \/ Boot \/ ActionTimesOut \/ PanelDies

\* The timers of the panel fire.  Nothing makes a command end.
Fairness == \A i \in Installs : WF_vars(TimeOut(i))

Spec == Init /\ [][Next]_vars /\ Fairness
-----------------------------------------------------------------------------
(* The first installation of a server, if no other ran beside it and until  *)
(* another begins to create the container, answers success only when the    *)
(* container was created with its token: whatever the scripts hid, and      *)
(* through restarts, reboots and later installs that fail before `up`, the  *)
(* row that the dialog adds keeps opening the node.                        *)
InstalledTokenWorks ==
    only # None /\ (pc[only] = "success" \/ only \in rows) => host.token = only

(* Re-installing over a node never removes the data directory of the node   *)
(* that runs there, not even by a command that outlives its time-out.       *)
DataSurvives == [][host.data => host'.data]_vars

(* Each install ends with an answer though any of its commands may hang.    *)
EveryInstallEnds == \A i \in Installs : pc[i] = "ip" ~> pc[i] \notin Waiting
=============================================================================
