------------------------ MODULE RemoteInstallProofs ------------------------
(***************************************************************************)
(* Proofs about RemoteInstall, for any number of installations, restarts   *)
(* and reboots.                                                            *)
(*                                                                         *)
(* InstalledTokenWorks says what the container's token is after a success. *)
(* For induction one needs to know what the first install finds (a server   *)
(* nobody has touched) and that it stays alone with it until it has ended,  *)
(* and that no command that could create the container outlives the        *)
(* time-out of another install without ending the claim.                   *)
(***************************************************************************)
EXTENDS RemoteInstall, TLAPS

Lines == {"ip", "docker", "clone", "env", "up", "health"}

NothingYet ==
    (\A i \in Installs : pc[i] = "idle") =>
        host.env = None /\ host.token = None /\ ~host.run /\ only = None

OrphansEnded == \A i \in Installs : orphan[i] # None => pc[i] \in {"failure", "error", "lost"}

SuccessIsShown ==
    /\ ui.step \in {"installing", "success"} => ui.req \in Installs
    /\ ui.step = "success" => pc[ui.req] = "success"
    /\ \A i \in rows : pc[i] = "success"

\* While the first install runs.
OnlyIsAlone ==
    only # None => /\ pc[only] # "idle"
                   /\ pc[only] \in Lines =>
                        /\ \A j \in Installs \ {only} : pc[j] = "idle"
                        /\ host.env \in {None, only} /\ host.token \in {None, only}
                        /\ host.run => host.token = only

\* And after it.
OnlyMadeContainer ==
    only # None => /\ \A j \in Installs \ {only} : orphan[j] # "up"
                   /\ pc[only] = "success" => host.token = only

DataIsCloned == host.data => host.clone

IInv == /\ TypeOK
        /\ NothingYet
        /\ OrphansEnded
        /\ SuccessIsShown
        /\ OnlyIsAlone
        /\ OnlyMadeContainer
        /\ DataIsCloned

Actions == [running: {"restart", "reboot", None}, typed: BOOLEAN]
-----------------------------------------------------------------------------
\* The six commands, in the order they are sent.
LEMMA LinesAreCommands == Waiting = Lines
  BY DEF Waiting, Commands, Lines

\* After each command but the last comes another one.
LEMMA FollowingIsNext ==
    ASSUME NEW c \in Lines
    PROVE  /\ Following(c) \in Lines \cup {"success"}
           /\ Following(c) = "success" => c = "health"
  <1>1. CASE c = "health"
    BY <1>1 DEF Following
  <1>2. CASE c # "health"
    <2> DEFINE k == CHOOSE n \in 1..Len(Commands) : Commands[n] = c
    <2>1. \E n \in 1..Len(Commands) : Commands[n] = c
      BY LinesAreCommands DEF Waiting
    <2>2. k \in 1..6 /\ Commands[k] = c
      BY <2>1 DEF Commands
    <2>3. k \in 1..5
      BY <1>2, <2>2 DEF Commands
    <2>4. Commands[1 + k] \in Lines
      BY <2>3 DEF Commands, Lines
    <2>5. Following(c) = Commands[1 + k]
      BY <1>2 DEF Following
    <2> QED
      BY <2>4, <2>5 DEF Lines
  <1> QED
    BY <1>1, <1>2

\* A script that ran to its end leaves a server of the model.
LEMMA DoneTyped ==
    ASSUME NEW h \in Hosts, NEW i \in Installs, NEW c \in Lines
    PROVE  Done(c, i, h) \in Hosts
  BY DEF Done, Clone, Up, Hosts, Tokens, Lines

\* So does one that broke off.
LEMMA BrokenTyped ==
    ASSUME NEW h \in Hosts, NEW c \in Lines, NEW g \in Broken(c, h)
    PROVE  g \in Hosts
  BY DEF Broken, Hosts, Tokens, Lines

\* What a script may do to .env, to the container and to the data, whether it ran to
\* its end or not.
LEMMA ScriptEffects ==
    ASSUME NEW h \in Hosts, NEW i \in Installs, NEW c \in Lines,
           NEW g \in {Done(c, i, h)} \cup Broken(c, h)
    PROVE  /\ g \in Hosts
           /\ g.env \in {h.env, None, i}
           /\ g.token = h.token \/ (c = "up" /\ g.token = h.env)
           /\ g.run => \/ h.run /\ g.token = h.token
                       \/ c = "up" /\ g.token = h.env /\ h.env # None
           /\ (h.data => h.clone) => (g.data => g.clone) /\ (h.data => g.data)
  <1>1. g \in Hosts
    BY DoneTyped, BrokenTyped
  <1>2. CASE g = Done(c, i, h)
    <2>1. g.env \in {h.env, None, i}
      BY <1>1, <1>2 DEF Done, Clone, Up, Hosts, Lines
    <2>2. g.token = h.token \/ (c = "up" /\ g.token = h.env)
      BY <1>1, <1>2 DEF Done, Clone, Up, Hosts, Lines
    <2>3. \/ (g.run <=> h.run) /\ g.token = h.token
          \/ c = "up" /\ g.token = h.env /\ (g.run <=> h.env # None)
      BY <1>1, <1>2 DEF Done, Clone, Up, Hosts, Lines
    <2>4. g.run => \/ h.run /\ g.token = h.token
                   \/ c = "up" /\ g.token = h.env /\ h.env # None
      <3>1. CASE (g.run <=> h.run) /\ g.token = h.token
        BY <3>1
      <3>2. CASE c = "up" /\ g.token = h.env /\ (g.run <=> h.env # None)
        BY <3>2
      <3> QED
        BY <2>3, <3>1, <3>2
    <2>5. (h.data => h.clone) => (g.data => g.clone) /\ (h.data => g.data)
      BY <1>1, <1>2 DEF Done, Clone, Up, Hosts, Lines
    <2> QED
      BY <1>1, <2>1, <2>2, <2>4, <2>5
  <1>3. CASE g \in Broken(c, h)
    <2>1. g.env \in {h.env, None, i}
      BY <1>1, <1>3 DEF Broken, Hosts, Lines
    <2>2. g.token = h.token \/ (c = "up" /\ g.token = h.env)
      BY <1>1, <1>3 DEF Broken, Hosts, Lines
    <2>3. ~g.run \/ ((g.run <=> h.run) /\ g.token = h.token)
      BY <1>1, <1>3 DEF Broken, Hosts, Lines
    <2>4. g.run => \/ h.run /\ g.token = h.token
                   \/ c = "up" /\ g.token = h.env /\ h.env # None
      <3>1. CASE ~g.run
        BY <3>1
      <3>2. CASE (g.run <=> h.run) /\ g.token = h.token
        BY <3>2
      <3> QED
        BY <2>3, <3>1, <3>2
    <2>5. (h.data => h.clone) => (g.data => g.clone) /\ (h.data => g.data)
      BY <1>1, <1>3 DEF Broken, Hosts, Lines
    <2> QED
      BY <1>1, <2>1, <2>2, <2>4, <2>5
  <1> QED
    BY <1>1, <1>2, <1>3

\* What may outlive its time-out is the command itself.
LEMMA LeavesTyped ==
    ASSUME NEW c
    PROVE  /\ Leaves(c) \in {"docker", "clone", "env", "up", None}
           /\ Leaves(c) = "up" => c = "up"
  BY NoneAssumption DEF Leaves

\* The end of an action leaves the panel well-formed.
LEMMA EndsTyped ==
    ASSUME act \in Actions, NEW from, Ends(from)
    PROVE  act' \in Actions
  <1>1. \A b \in BOOLEAN : [running |-> None, typed |-> b] \in Actions
    BY DEF Actions
  <1>2. (act.typed /\ act.running # "reboot") \in BOOLEAN
    OBVIOUS
  <1>3. [running |-> None, typed |-> act.typed /\ act.running # "reboot"] \in Actions
    BY <1>1, <1>2
  <1>4. [act EXCEPT !.running = None] \in Actions
    BY DEF Actions
  <1> QED
    BY <1>3, <1>4 DEF Ends

\* And so does typing.
LEMMA TypedTyped ==
    ASSUME act \in Actions, TypeName
    PROVE  act' \in Actions
  BY DEF Actions, TypeName

\* Nobody has been there.
LEMMA InitInductive == Init => IInv
  <1> SUFFICES ASSUME Init PROVE IInv
    OBVIOUS
  <1>1. TypeOK
    BY MaxActionsAssumption DEF Init, TypeOK, Hosts, Tokens
  <1> QED
    BY <1>1 DEF Init, IInv, NothingYet, OrphansEnded, SuccessIsShown, OnlyIsAlone,
                OnlyMadeContainer, DataIsCloned, Hosts, Lines

\* Only the last command can answer success, and only over a container that runs.
LEMMA RunInductive ==
    ASSUME IInv, NEW i \in Installs, Run(i)
    PROVE  IInv'
  <1>1. pc[i] \in Lines /\ host \in Hosts
    BY LinesAreCommands DEF IInv, TypeOK, Run
  <1>2. host' \in {Done(pc[i], i, host)} \cup Broken(pc[i], host)
    BY DEF Run
  <1>3. /\ host' \in Hosts
        /\ host'.env \in {host.env, None, i}
        /\ host'.token = host.token \/ (pc[i] = "up" /\ host'.token = host.env)
        /\ host'.run => \/ host.run /\ host'.token = host.token
                        \/ pc[i] = "up" /\ host'.token = host.env /\ host.env # None
        /\ (host.data => host.clone) => (host'.data => host'.clone) /\ (host.data => host'.data)
    BY <1>1, <1>2, ScriptEffects
  <1>4. PICK to \in (Lines \cup Answers) : 
            /\ pc' = [pc EXCEPT ![i] = to]
            /\ to = "success" => pc[i] = "health" /\ host.run
    <2>1. PICK broken \in BOOLEAN :
            pc' = [pc EXCEPT ![i] = IF ExitsZero(pc[i], host, broken) THEN Following(pc[i])
                                    ELSE Ended(pc[i])]
      BY DEF Run
    <2>2. CASE ExitsZero(pc[i], host, broken)
      <3>1. pc' = [pc EXCEPT ![i] = Following(pc[i])]
        BY <2>1, <2>2
      <3>2. /\ Following(pc[i]) \in Lines \cup {"success"}
            /\ Following(pc[i]) = "success" => pc[i] = "health"
        BY <1>1, FollowingIsNext
      <3>3. pc[i] = "health" => host.run
        BY <2>2 DEF ExitsZero
      <3>4. Following(pc[i]) \in Lines \cup Answers
        BY <3>2 DEF Answers
      <3> QED
        BY <3>1, <3>2, <3>3, <3>4
    <2>3. CASE ~ExitsZero(pc[i], host, broken)
      <3>1. pc' = [pc EXCEPT ![i] = Ended(pc[i])]
        BY <2>1, <2>3
      <3>2. Ended(pc[i]) \in Answers /\ Ended(pc[i]) # "success"
        BY DEF Ended, Answers
      <3> QED
        BY <3>1, <3>2
    <2> QED
      BY <2>2, <2>3
  <1> USE NoneAssumption, MaxActionsAssumption
      DEF IInv, TypeOK, Run, OnlyAfter, panel, Answers, Hosts, Tokens, Lines
  <1>5. TypeOK'
    <2>1. (pc \in [Installs -> {"idle", "lost"} \cup Waiting \cup Answers])'
      <3>1. to \in {"idle", "lost"} \cup Waiting \cup Answers
        BY LinesAreCommands
      <3> QED
        BY <1>4, <3>1
    <2>2. (only \in Tokens)'
      OBVIOUS
    <2>3. UNCHANGED <<orphan, ui, rows, act, task, asked>>
      OBVIOUS
    <2> QED
      BY <1>3, <2>1, <2>2, <2>3
  <1>6. NothingYet'
    BY <1>1, <1>3, <1>4 DEF NothingYet, OrphansEnded
  <1>7. OrphansEnded'
    BY <1>1, <1>3, <1>4 DEF OrphansEnded
  <1>8. SuccessIsShown'
    BY <1>1, <1>3, <1>4 DEF SuccessIsShown
  <1>9. OnlyIsAlone'
    BY <1>1, <1>3, <1>4 DEF NothingYet, OrphansEnded, OnlyIsAlone
  <1>10. OnlyMadeContainer'
    BY <1>1, <1>3, <1>4 DEF NothingYet, OrphansEnded, OnlyIsAlone, OnlyMadeContainer
  <1>11. DataIsCloned'
    BY <1>1, <1>3, <1>4 DEF DataIsCloned
  <1> QED
    BY <1>5, <1>6, <1>7, <1>8, <1>9, <1>10, <1>11

\* A script that goes on belongs to an install that has ended.
LEMMA TimeOutInductive ==
    ASSUME IInv, NEW i \in Installs, TimeOut(i)
    PROVE  IInv'
  <1>1. pc[i] \in Lines
    BY LinesAreCommands DEF TimeOut
  <1>2. Leaves(pc[i]) \in {"docker", "clone", "env", "up", None} /\ (Leaves(pc[i]) = "up" => pc[i] = "up")
    BY LeavesTyped
  <1>3. Ended(pc[i]) \in {"error", "failure"}
    BY DEF Ended
  <1> USE NoneAssumption, MaxActionsAssumption
      DEF IInv, TypeOK, TimeOut, OnlyAfter, panel, Hosts, Tokens, Lines
  <1>4. TypeOK'
    BY <1>1, <1>2, <1>3, LinesAreCommands DEF Answers
  <1>5. NothingYet'
    BY <1>1, <1>2, <1>3 DEF NothingYet, OrphansEnded
  <1>6. OrphansEnded'
    BY <1>1, <1>2, <1>3 DEF OrphansEnded
  <1>7. SuccessIsShown'
    BY <1>1, <1>2, <1>3 DEF SuccessIsShown
  <1>8. OnlyIsAlone'
    BY <1>1, <1>2, <1>3 DEF NothingYet, OrphansEnded, OnlyIsAlone
  <1>9. OnlyMadeContainer'
    BY <1>1, <1>2, <1>3 DEF NothingYet, OrphansEnded, OnlyIsAlone, OnlyMadeContainer
  <1>10. DataIsCloned'
    BY <1>1, <1>2, <1>3 DEF DataIsCloned
  <1> QED
    BY <1>4, <1>5, <1>6, <1>7, <1>8, <1>9, <1>10

\* It is not of the first install while that one runs, and does not make its container after.
LEMMA OrphanEndsInductive ==
    ASSUME IInv, NEW i \in Installs, OrphanEnds(i)
    PROVE  IInv'
  <1>1. orphan[i] \in Lines /\ host \in Hosts
    BY DEF IInv, TypeOK, OrphanEnds, Lines
  <1>2. host' \in {Done(orphan[i], i, host)} \cup Broken(orphan[i], host)
    BY DEF OrphanEnds
  <1>3. /\ host' \in Hosts
        /\ host'.env \in {host.env, None, i}
        /\ host'.token = host.token \/ (orphan[i] = "up" /\ host'.token = host.env)
        /\ host'.run => \/ host.run /\ host'.token = host.token
                        \/ orphan[i] = "up" /\ host'.token = host.env /\ host.env # None
        /\ (host.data => host.clone) => (host'.data => host'.clone) /\ (host.data => host'.data)
    BY <1>1, <1>2, ScriptEffects
  <1> USE NoneAssumption, MaxActionsAssumption
      DEF IInv, TypeOK, OrphanEnds, panel, Hosts, Tokens, Lines
  <1>4. TypeOK'
    BY <1>1, <1>3, LinesAreCommands DEF Answers
  <1>5. NothingYet'
    BY <1>1, <1>3 DEF NothingYet, OrphansEnded
  <1>6. OrphansEnded'
    BY <1>1, <1>3 DEF OrphansEnded
  <1>7. SuccessIsShown'
    BY <1>1, <1>3 DEF SuccessIsShown
  <1>8. OnlyIsAlone'
    BY <1>1, <1>3 DEF NothingYet, OrphansEnded, OnlyIsAlone
  <1>9. OnlyMadeContainer'
    BY <1>1, <1>3 DEF NothingYet, OrphansEnded, OnlyIsAlone, OnlyMadeContainer
  <1>10. DataIsCloned'
    BY <1>1, <1>3 DEF DataIsCloned
  <1> QED
    BY <1>4, <1>5, <1>6, <1>7, <1>8, <1>9, <1>10

\* As a time-out of every install at once.
LEMMA PanelDiesInductive ==
    ASSUME IInv, PanelDies
    PROVE  IInv'
  <1>1. Running = {i \in Installs : pc[i] \in Lines}
    BY LinesAreCommands DEF Running
  <1>2. \A i \in Installs : Leaves(pc[i]) \in {"docker", "clone", "env", "up", None}
    BY LeavesTyped
  <1>3. \A i \in Installs : Leaves(pc[i]) = "up" => pc[i] = "up"
    BY LeavesTyped
  <1>4. TypeOK'
    <2> USE NoneAssumption, MaxActionsAssumption DEF IInv, TypeOK, PanelDies, panel
    <2>1. (host \in Hosts)'
      BY <1>1, <1>2, <1>3 DEF Hosts
    <2>2. (pc \in [Installs -> {"idle", "lost"} \cup Waiting \cup Answers])'
      BY <1>1, <1>2, <1>3, LinesAreCommands DEF Answers, Lines
    <2>3. (orphan \in [Installs -> {"docker", "clone", "env", "up", None}])'
      <3>1. orphan' = [i \in Installs |-> IF i \in Running THEN Leaves(pc[i]) ELSE orphan[i]]
        OBVIOUS
      <3>2. \A i \in Installs : Leaves(pc[i]) \in {"docker", "clone", "env", "up", None}
        BY <1>2
      <3> HIDE DEF PanelDies
      <3> QED
        BY <3>1, <3>2
    <2>4. (ui \in [step: {"closed", "form", "testing", "installing", "error", "success"},
                  req: Tokens])'
      OBVIOUS
    <2>5. (rows \subseteq Installs)'
      OBVIOUS
    <2>6. (act \in Actions)'
      BY EndsTyped DEF Actions
    <2>7. (/\ task \in {None, "test", "ps", "restart", "wait", "sudo", "reboot"}
           /\ asked \in 0..MaxActions /\ only \in Tokens)'
      BY DEF Tokens
    <2> QED
      BY <2>1, <2>2, <2>3, <2>4, <2>5, <2>6, <2>7 DEF Actions
  <1> USE NoneAssumption, MaxActionsAssumption
      DEF IInv, TypeOK, PanelDies, panel, Hosts, Tokens, Lines
  <1>5. NothingYet'
    BY <1>1, <1>2, <1>3 DEF NothingYet, OrphansEnded
  <1>6. OrphansEnded'
    BY <1>1, <1>2, <1>3 DEF OrphansEnded
  <1>7. SuccessIsShown'
    BY <1>1, <1>2, <1>3 DEF SuccessIsShown
  <1>8. OnlyIsAlone'
    BY <1>1, <1>2, <1>3 DEF NothingYet, OrphansEnded, OnlyIsAlone
  <1>9. OnlyMadeContainer'
    BY <1>1, <1>2, <1>3 DEF NothingYet, OrphansEnded, OnlyIsAlone, OnlyMadeContainer
  <1>10. DataIsCloned'
    BY <1>1, <1>2, <1>3 DEF DataIsCloned
  <1> QED
    BY <1>4, <1>5, <1>6, <1>7, <1>8, <1>9, <1>10

\* The request that was shown is forgotten.
LEMMA OpenOrCloseInductive ==
    ASSUME IInv, OpenOrClose
    PROVE  IInv'
  <1> USE NoneAssumption, MaxActionsAssumption
      DEF IInv, TypeOK, OpenOrClose, OnlyDialog, panel, Hosts, Tokens, Lines
  <1>1. TypeOK'
    BY LinesAreCommands DEF Answers
  <1>2. NothingYet'
    BY DEF NothingYet, OrphansEnded
  <1>3. OrphansEnded'
    BY DEF OrphansEnded
  <1>4. SuccessIsShown'
    BY DEF SuccessIsShown
  <1>5. OnlyIsAlone'
    BY DEF NothingYet, OrphansEnded, OnlyIsAlone
  <1>6. OnlyMadeContainer'
    BY DEF NothingYet, OrphansEnded, OnlyIsAlone, OnlyMadeContainer
  <1>7. DataIsCloned'
    BY DEF DataIsCloned
  <1> QED
    BY <1>1, <1>2, <1>3, <1>4, <1>5, <1>6, <1>7

\* Only the dialog changes.
LEMMA TestSshInductive ==
    ASSUME IInv, TestSsh
    PROVE  IInv'
  <1> USE NoneAssumption, MaxActionsAssumption
      DEF IInv, TypeOK, TestSsh, Show, OnlyDialog, panel, Hosts, Tokens, Lines
  <1>1. TypeOK'
    BY LinesAreCommands DEF Answers
  <1>2. NothingYet'
    BY DEF NothingYet, OrphansEnded
  <1>3. OrphansEnded'
    BY DEF OrphansEnded
  <1>4. SuccessIsShown'
    BY DEF SuccessIsShown
  <1>5. OnlyIsAlone'
    BY DEF NothingYet, OrphansEnded, OnlyIsAlone
  <1>6. OnlyMadeContainer'
    BY DEF NothingYet, OrphansEnded, OnlyIsAlone, OnlyMadeContainer
  <1>7. DataIsCloned'
    BY DEF DataIsCloned
  <1> QED
    BY <1>1, <1>2, <1>3, <1>4, <1>5, <1>6, <1>7

\* Only the dialog changes.
LEMMA TestAnswersInductive ==
    ASSUME IInv, TestAnswers
    PROVE  IInv'
  <1> USE NoneAssumption, MaxActionsAssumption
      DEF IInv, TypeOK, TestAnswers, Show, OnlyDialog, panel, Hosts, Tokens, Lines
  <1>1. TypeOK'
    BY LinesAreCommands DEF Answers
  <1>2. NothingYet'
    BY DEF NothingYet, OrphansEnded
  <1>3. OrphansEnded'
    BY DEF OrphansEnded
  <1>4. SuccessIsShown'
    BY DEF SuccessIsShown
  <1>5. OnlyIsAlone'
    BY DEF NothingYet, OrphansEnded, OnlyIsAlone
  <1>6. OnlyMadeContainer'
    BY DEF NothingYet, OrphansEnded, OnlyIsAlone, OnlyMadeContainer
  <1>7. DataIsCloned'
    BY DEF DataIsCloned
  <1> QED
    BY <1>1, <1>2, <1>3, <1>4, <1>5, <1>6, <1>7

\* Only the dialog changes.
LEMMA BackToFormInductive ==
    ASSUME IInv, BackToForm
    PROVE  IInv'
  <1> USE NoneAssumption, MaxActionsAssumption
      DEF IInv, TypeOK, BackToForm, Show, OnlyDialog, panel, Hosts, Tokens, Lines
  <1>1. TypeOK'
    BY LinesAreCommands DEF Answers
  <1>2. NothingYet'
    BY DEF NothingYet, OrphansEnded
  <1>3. OrphansEnded'
    BY DEF OrphansEnded
  <1>4. SuccessIsShown'
    BY DEF SuccessIsShown
  <1>5. OnlyIsAlone'
    BY DEF NothingYet, OrphansEnded, OnlyIsAlone
  <1>6. OnlyMadeContainer'
    BY DEF NothingYet, OrphansEnded, OnlyIsAlone, OnlyMadeContainer
  <1>7. DataIsCloned'
    BY DEF DataIsCloned
  <1> QED
    BY <1>1, <1>2, <1>3, <1>4, <1>5, <1>6, <1>7

\* The first request finds the server untouched; a second one ends the first one's claim to be alone.
LEMMA InstallInductive ==
    ASSUME IInv, NEW i \in Installs, Install(i)
    PROVE  IInv'
  <1>1. Running = {j \in Installs : pc[j] \in Lines}
    BY LinesAreCommands DEF Running
  <1> USE NoneAssumption, MaxActionsAssumption
      DEF IInv, TypeOK, Install, Accept, Show, panel, Hosts, Tokens, Lines
  <1>2. TypeOK'
    BY <1>1, LinesAreCommands DEF Answers
  <1>3. NothingYet'
    BY <1>1 DEF NothingYet, OrphansEnded
  <1>4. OrphansEnded'
    BY <1>1 DEF OrphansEnded
  <1>5. SuccessIsShown'
    BY <1>1 DEF SuccessIsShown
  <1>6. OnlyIsAlone'
    BY <1>1 DEF NothingYet, OrphansEnded, OnlyIsAlone
  <1>7. OnlyMadeContainer'
    BY <1>1 DEF NothingYet, OrphansEnded, OnlyIsAlone, OnlyMadeContainer
  <1>8. DataIsCloned'
    BY <1>1 DEF DataIsCloned
  <1> QED
    BY <1>2, <1>3, <1>4, <1>5, <1>6, <1>7, <1>8

\* Success is shown of an install that answered it.
LEMMA AnsweredInductive ==
    ASSUME IInv, Answered
    PROVE  IInv'
  <1> USE NoneAssumption, MaxActionsAssumption
      DEF IInv, TypeOK, Answered, Show, OnlyDialog, panel, Hosts, Tokens, Lines
  <1>1. TypeOK'
    BY LinesAreCommands DEF Answers
  <1>2. NothingYet'
    BY DEF NothingYet, OrphansEnded
  <1>3. OrphansEnded'
    BY DEF OrphansEnded
  <1>4. SuccessIsShown'
    BY DEF SuccessIsShown
  <1>5. OnlyIsAlone'
    BY DEF NothingYet, OrphansEnded, OnlyIsAlone
  <1>6. OnlyMadeContainer'
    BY DEF NothingYet, OrphansEnded, OnlyIsAlone, OnlyMadeContainer
  <1>7. DataIsCloned'
    BY DEF DataIsCloned
  <1> QED
    BY <1>1, <1>2, <1>3, <1>4, <1>5, <1>6, <1>7

\* The row is that of the success shown.
LEMMA AddAsNodeInductive ==
    ASSUME IInv, AddAsNode
    PROVE  IInv'
  <1>1. TypeOK'
    <2> USE NoneAssumption, MaxActionsAssumption DEF IInv, TypeOK, AddAsNode, panel
    <2>1. (host \in Hosts)'
      BY DEF Hosts
    <2>2. (pc \in [Installs -> {"idle", "lost"} \cup Waiting \cup Answers])'
      BY LinesAreCommands DEF Answers, Lines
    <2>3. (orphan \in [Installs -> {"docker", "clone", "env", "up", None}])'
      OBVIOUS
    <2>4. (ui \in [step: {"closed", "form", "testing", "installing", "error", "success"},
                  req: Tokens])'
      OBVIOUS
    <2>5. (rows \subseteq Installs)'
      BY DEF SuccessIsShown
    <2>6. (act \in Actions)'
      BY EndsTyped DEF Actions
    <2>7. (/\ task \in {None, "test", "ps", "restart", "wait", "sudo", "reboot"}
           /\ asked \in 0..MaxActions /\ only \in Tokens)'
      BY DEF Tokens
    <2> QED
      BY <2>1, <2>2, <2>3, <2>4, <2>5, <2>6, <2>7 DEF Actions
  <1> USE NoneAssumption, MaxActionsAssumption
      DEF IInv, TypeOK, AddAsNode, panel, Hosts, Tokens, Lines
  <1>2. NothingYet'
    BY DEF NothingYet, OrphansEnded
  <1>3. OrphansEnded'
    BY DEF OrphansEnded
  <1>4. SuccessIsShown'
    BY DEF SuccessIsShown
  <1>5. OnlyIsAlone'
    BY DEF NothingYet, OrphansEnded, OnlyIsAlone
  <1>6. OnlyMadeContainer'
    BY DEF NothingYet, OrphansEnded, OnlyIsAlone, OnlyMadeContainer
  <1>7. DataIsCloned'
    BY DEF DataIsCloned
  <1> QED
    BY <1>1, <1>2, <1>3, <1>4, <1>5, <1>6, <1>7

\* Only the panel's action changes.
LEMMA AskInductive ==
    ASSUME IInv, NEW kind \in {"restart", "reboot"}, Ask(kind)
    PROVE  IInv'
  <1> USE NoneAssumption, MaxActionsAssumption
      DEF IInv, TypeOK, Ask, OnlyAction, Hosts, Tokens, Lines
  <1>1. TypeOK'
    BY LinesAreCommands DEF Answers
  <1>2. NothingYet'
    BY DEF NothingYet, OrphansEnded
  <1>3. OrphansEnded'
    BY DEF OrphansEnded
  <1>4. SuccessIsShown'
    BY DEF SuccessIsShown
  <1>5. OnlyIsAlone'
    BY DEF NothingYet, OrphansEnded, OnlyIsAlone
  <1>6. OnlyMadeContainer'
    BY DEF NothingYet, OrphansEnded, OnlyIsAlone, OnlyMadeContainer
  <1>7. DataIsCloned'
    BY DEF DataIsCloned
  <1> QED
    BY <1>1, <1>2, <1>3, <1>4, <1>5, <1>6, <1>7

\* Only the panel's action changes.
LEMMA TypeNameInductive ==
    ASSUME IInv, TypeName
    PROVE  IInv'
  <1>1. TypeOK'
    <2> USE NoneAssumption, MaxActionsAssumption DEF IInv, TypeOK, TypeName, OnlyAction
    <2>1. (host \in Hosts)'
      BY DEF Hosts
    <2>2. (pc \in [Installs -> {"idle", "lost"} \cup Waiting \cup Answers])'
      BY LinesAreCommands DEF Answers, Lines
    <2>3. (orphan \in [Installs -> {"docker", "clone", "env", "up", None}])'
      OBVIOUS
    <2>4. (ui \in [step: {"closed", "form", "testing", "installing", "error", "success"},
                  req: Tokens])'
      OBVIOUS
    <2>5. (rows \subseteq Installs)'
      OBVIOUS
    <2>6. (act \in Actions)'
      BY TypedTyped DEF Actions
    <2>7. (/\ task \in {None, "test", "ps", "restart", "wait", "sudo", "reboot"}
           /\ asked \in 0..MaxActions /\ only \in Tokens)'
      BY DEF Tokens
    <2> QED
      BY <2>1, <2>2, <2>3, <2>4, <2>5, <2>6, <2>7 DEF Actions
  <1> USE NoneAssumption, MaxActionsAssumption
      DEF IInv, TypeOK, TypeName, OnlyAction, Hosts, Tokens, Lines
  <1>2. NothingYet'
    BY DEF NothingYet, OrphansEnded
  <1>3. OrphansEnded'
    BY DEF OrphansEnded
  <1>4. SuccessIsShown'
    BY DEF SuccessIsShown
  <1>5. OnlyIsAlone'
    BY DEF NothingYet, OrphansEnded, OnlyIsAlone
  <1>6. OnlyMadeContainer'
    BY DEF NothingYet, OrphansEnded, OnlyIsAlone, OnlyMadeContainer
  <1>7. DataIsCloned'
    BY DEF DataIsCloned
  <1> QED
    BY <1>1, <1>2, <1>3, <1>4, <1>5, <1>6, <1>7

\* The container is restarted with the token it has.
LEMMA RestartServiceNodeInductive ==
    ASSUME IInv, RestartServiceNode
    PROVE  IInv'
  <1>1. TypeOK'
    <2> USE NoneAssumption, MaxActionsAssumption DEF IInv, TypeOK, RestartServiceNode, Restart, Then, Ends, OnlyAction
    <2>1. (host \in Hosts)'
      BY DEF Hosts
    <2>2. (pc \in [Installs -> {"idle", "lost"} \cup Waiting \cup Answers])'
      BY LinesAreCommands DEF Answers, Lines
    <2>3. (orphan \in [Installs -> {"docker", "clone", "env", "up", None}])'
      OBVIOUS
    <2>4. (ui \in [step: {"closed", "form", "testing", "installing", "error", "success"},
                  req: Tokens])'
      OBVIOUS
    <2>5. (rows \subseteq Installs)'
      OBVIOUS
    <2>6. (act \in Actions)'
      BY EndsTyped DEF Actions
    <2>7. (/\ task \in {None, "test", "ps", "restart", "wait", "sudo", "reboot"}
           /\ asked \in 0..MaxActions /\ only \in Tokens)'
      BY DEF Tokens
    <2> QED
      BY <2>1, <2>2, <2>3, <2>4, <2>5, <2>6, <2>7 DEF Actions
  <1> USE NoneAssumption, MaxActionsAssumption
      DEF IInv, TypeOK, RestartServiceNode, Restart, Then, Ends, OnlyAction, Hosts, Tokens, Lines
  <1>2. NothingYet'
    BY DEF NothingYet, OrphansEnded
  <1>3. OrphansEnded'
    BY DEF OrphansEnded
  <1>4. SuccessIsShown'
    BY DEF SuccessIsShown
  <1>5. OnlyIsAlone'
    BY DEF NothingYet, OrphansEnded, OnlyIsAlone
  <1>6. OnlyMadeContainer'
    BY DEF NothingYet, OrphansEnded, OnlyIsAlone, OnlyMadeContainer
  <1>7. DataIsCloned'
    BY DEF DataIsCloned
  <1> QED
    BY <1>1, <1>2, <1>3, <1>4, <1>5, <1>6, <1>7

\* The server goes down with what it has.
LEMMA RebootServerInductive ==
    ASSUME IInv, RebootServer
    PROVE  IInv'
  <1>1. /\ UNCHANGED <<pc, orphan, ui, rows, only>>
        /\ host' \in {host, [host EXCEPT !.on = FALSE, !.run = FALSE]}
    BY DEF RebootServer, Then, Ends, OnlyAction
  <1>2. /\ host'.env = host.env /\ host'.token = host.token
        /\ host'.run => host.run
    BY <1>1 DEF IInv, TypeOK, Hosts
  <1>3. TypeOK'
    <2> USE NoneAssumption, MaxActionsAssumption DEF IInv, TypeOK, RebootServer, Then, Ends, OnlyAction
    <2>1. (host \in Hosts)'
      BY <1>1, <1>2 DEF Hosts
    <2>2. (pc \in [Installs -> {"idle", "lost"} \cup Waiting \cup Answers])'
      BY <1>1, <1>2, LinesAreCommands DEF Answers, Lines
    <2>3. (orphan \in [Installs -> {"docker", "clone", "env", "up", None}])'
      BY <1>1, <1>2
    <2>4. (ui \in [step: {"closed", "form", "testing", "installing", "error", "success"},
                  req: Tokens])'
      OBVIOUS
    <2>5. (rows \subseteq Installs)'
      OBVIOUS
    <2>6. (act \in Actions)'
      BY EndsTyped DEF Actions
    <2>7. (/\ task \in {None, "test", "ps", "restart", "wait", "sudo", "reboot"}
           /\ asked \in 0..MaxActions /\ only \in Tokens)'
      BY DEF Tokens
    <2> QED
      BY <2>1, <2>2, <2>3, <2>4, <2>5, <2>6, <2>7 DEF Actions
  <1> USE NoneAssumption, MaxActionsAssumption
      DEF IInv, TypeOK, RebootServer, Then, Ends, OnlyAction, Hosts, Tokens, Lines
  <1>4. NothingYet'
    BY <1>1, <1>2 DEF NothingYet, OrphansEnded
  <1>5. OrphansEnded'
    BY <1>1, <1>2 DEF OrphansEnded
  <1>6. SuccessIsShown'
    BY <1>1, <1>2 DEF SuccessIsShown
  <1>7. OnlyIsAlone'
    BY <1>1, <1>2 DEF NothingYet, OrphansEnded, OnlyIsAlone
  <1>8. OnlyMadeContainer'
    BY <1>1, <1>2 DEF NothingYet, OrphansEnded, OnlyIsAlone, OnlyMadeContainer
  <1>9. DataIsCloned'
    BY <1>1, <1>2 DEF DataIsCloned
  <1> QED
    BY <1>3, <1>4, <1>5, <1>6, <1>7, <1>8, <1>9

\* Its container comes back with the token it has.
LEMMA BootInductive ==
    ASSUME IInv, Boot
    PROVE  IInv'
  <1> USE NoneAssumption, MaxActionsAssumption
      DEF IInv, TypeOK, Boot, panel, Hosts, Tokens, Lines
  <1>1. TypeOK'
    <2>1. (host \in Hosts)'
      BY DEF Hosts
    <2>2. (orphan \in [Installs -> {"docker", "clone", "env", "up", None}])'
      OBVIOUS
    <2>3. UNCHANGED <<pc, ui, rows, act, task, asked, only>>
      OBVIOUS
    <2> QED
      BY <2>1, <2>2, <2>3
  <1>2. NothingYet'
    BY DEF NothingYet, OrphansEnded
  <1>3. OrphansEnded'
    BY DEF OrphansEnded
  <1>4. SuccessIsShown'
    BY DEF SuccessIsShown
  <1>5. OnlyIsAlone'
    BY DEF NothingYet, OrphansEnded, OnlyIsAlone
  <1>6. OnlyMadeContainer'
    BY DEF NothingYet, OrphansEnded, OnlyIsAlone, OnlyMadeContainer
  <1>7. DataIsCloned'
    BY DEF DataIsCloned
  <1> QED
    BY <1>1, <1>2, <1>3, <1>4, <1>5, <1>6, <1>7

\* Only the panel's action changes.
LEMMA ActionTimesOutInductive ==
    ASSUME IInv, ActionTimesOut
    PROVE  IInv'
  <1> USE NoneAssumption, MaxActionsAssumption
      DEF IInv, TypeOK, ActionTimesOut, OnlyAction, Hosts, Tokens, Lines
  <1>1. TypeOK'
    BY LinesAreCommands DEF Answers
  <1>2. NothingYet'
    BY DEF NothingYet, OrphansEnded
  <1>3. OrphansEnded'
    BY DEF OrphansEnded
  <1>4. SuccessIsShown'
    BY DEF SuccessIsShown
  <1>5. OnlyIsAlone'
    BY DEF NothingYet, OrphansEnded, OnlyIsAlone
  <1>6. OnlyMadeContainer'
    BY DEF NothingYet, OrphansEnded, OnlyIsAlone, OnlyMadeContainer
  <1>7. DataIsCloned'
    BY DEF DataIsCloned
  <1> QED
    BY <1>1, <1>2, <1>3, <1>4, <1>5, <1>6, <1>7

\* A stuttering step changes none of the variables the invariant reads.
LEMMA StutteringInductive ==
    ASSUME IInv, UNCHANGED vars
    PROVE  IInv'
  BY DEF IInv, TypeOK, vars, panel, NothingYet, OrphansEnded, SuccessIsShown, OnlyIsAlone,
         OnlyMadeContainer, DataIsCloned

\* IInv holds in every reachable state.
LEMMA Inductive == Spec => []IInv
  <1>1. IInv /\ [Next]_vars => IInv'
    BY RunInductive, TimeOutInductive, OrphanEndsInductive, PanelDiesInductive,
       OpenOrCloseInductive, TestSshInductive, TestAnswersInductive,
       BackToFormInductive, InstallInductive, AnsweredInductive, AddAsNodeInductive,
       AskInductive, TypeNameInductive, RestartServiceNodeInductive,
       RebootServerInductive, BootInductive, ActionTimesOutInductive,
       StutteringInductive
       DEF Next
  <1> QED
    BY <1>1, InitInductive, PTL DEF Spec

\* The server, the installs, the dialog, the action panel and the counters have the
\* values RemoteInstall.TypeOK names (remote-install.ts, RemoteInstallDialog.tsx,
\* ActionPanel.tsx).
THEOREM TypeCorrect == Spec => []TypeOK
  <1>1. IInv => TypeOK
    BY DEF IInv
  <1> QED
    BY <1>1, Inductive, PTL

\* installRemoteServiceNode answers success, and the dialog adds a row, only over a
\* container that has this install's token, as long as it had the server to itself.
THEOREM FirstInstallIsServed == Spec => []InstalledTokenWorks
  <1>1. IInv => InstalledTokenWorks
    BY DEF IInv, InstalledTokenWorks, SuccessIsShown, OnlyMadeContainer
  <1> QED
    BY <1>1, Inductive, PTL

\* The clone script (remote-install.ts 314-327) removes a directory only if it holds no
\* clone, and where data is there is one: no command, waited for or not, loses it.
THEOREM NodeDataSurvives == Spec => DataSurvives
  <1>1. IInv /\ [Next]_vars => [host.data => host'.data]_vars
    <2> SUFFICES ASSUME IInv, Next PROVE host.data => host'.data
      OBVIOUS
    <2>1. ASSUME NEW i \in Installs, Run(i) \/ OrphanEnds(i) PROVE host.data => host'.data
      <3>1. PICK c \in Lines : host' \in {Done(c, i, host)} \cup Broken(c, host)
        BY <2>1, LinesAreCommands DEF Run, OrphanEnds, IInv, TypeOK, Lines
      <3> QED
        BY <3>1, ScriptEffects DEF IInv, TypeOK, DataIsCloned
    <2>2. CASE Boot \/ RestartServiceNode \/ RebootServer
      BY <2>2 DEF Boot, RestartServiceNode, Restart, RebootServer, Then, Ends, IInv, TypeOK, Hosts
    <2>3. ASSUME NEW i \in Installs, TimeOut(i) \/ Install(i) PROVE host' = host
      BY <2>3 DEF TimeOut, Install
    <2>4. CASE \/ OpenOrClose \/ TestSsh \/ TestAnswers \/ BackToForm \/ Answered \/ AddAsNode
               \/ Ask("restart") \/ Ask("reboot") \/ TypeName \/ ActionTimesOut \/ PanelDies
      BY <2>4 DEF OpenOrClose, TestSsh, TestAnswers, BackToForm, Answered, AddAsNode, Ask,
                  TypeName, ActionTimesOut, PanelDies, OnlyDialog
    <2> QED
      BY <2>1, <2>2, <2>3, <2>4 DEF Next
  <1> QED
    BY <1>1, Inductive, PTL DEF Spec, DataSurvives
=============================================================================
