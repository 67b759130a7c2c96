----------------------------- MODULE ServiceMode -----------------------------
(***************************************************************************)
(* cloudflared without arguments: config.FileManager watches the           *)
(* configuration file and sends what it reads to AppService.actionLoop,    *)
(* which has overwatch.AppManager start, replace and stop a forwarder and  *)
(* a DNS resolver, each in a goroutine of its own.                         *)
(***************************************************************************)
EXTENDS Integers, Sequences, FiniteSets

CONSTANTS Configs,     \* what the file may say
          MaxWrites,   \* changes of the file (bound)
          EnvFails     \* listening may fail for reasons of the machine

Names == {"forwarder", "resolver"}

(* config.Root: for each service the Hash() of its settings, 0 without it. *)
ASSUME ConfigsAssumption == Configs \subseteq [Names -> 0..2]
Bad == [n \in Names |-> -1]    \* a file that cannot be parsed

VARIABLES
    file, watched, event,   \* the file: a Config or Bad; fsnotify: is it
                            \* watched, is a Write event pending
    mgr, cfg,               \* FileManager's goroutine, the Config it has read
    todo, applied,          \* actionLoop: what is left of the Config it handles;
                            \* the last one done
    services,               \* AppManager.services: an index of inst, or 0
    inst,                   \* every service ever started
    stop,                   \* shutdownC: "open", "closed"; actionLoop: "stopping", "done"
    writes                  \* so far (bound)

fileVars == <<file, watched, event, writes>>
serviceVars == <<services, inst>>
modeVars == <<fileVars, mgr, cfg, todo, applied, serviceVars, stop>>

Nothing == [n \in Names |-> 0]
NoTodo == [cfg |-> Nothing, add |-> {}, prune |-> FALSE]

ServiceInit ==
    /\ file \in Configs \cup {Bad} /\ watched = TRUE /\ event = FALSE /\ writes = 0
    /\ mgr = "start" /\ cfg = Nothing
    /\ todo = NoTodo /\ applied = Nothing
    /\ services = [n \in Names |-> 0] /\ inst = <<>>
    /\ stop = "open"

-----------------------------------------------------------------------------
(* FileManager.GetConfig: a file that cannot be read ends Start, and is    *)
(* ignored later.  An empty file is an empty Config.                       *)
ReadConfig ==
    /\ mgr \in {"start", "read"}
    /\ IF file = Bad
       THEN mgr' = (IF mgr = "start" THEN "exited" ELSE "watch") /\ UNCHANGED cfg
       ELSE mgr' = "send" /\ cfg' = file
    /\ UNCHANGED <<fileVars, todo, applied, serviceVars, stop>>

LosesEventBug ==
    /\ mgr = "watch" /\ event
    /\ event' = FALSE /\ mgr' = "watch"
    /\ UNCHANGED <<file, watched, writes, cfg, todo, applied, serviceVars, stop>>

(* File.Start: only a Write makes the file be read again.                  *)
WatcherItemDidChange ==
    /\ mgr = "watch" /\ event
    /\ event' = FALSE /\ mgr' = "read"
    /\ UNCHANGED <<file, watched, writes, cfg, todo, applied, serviceVars, stop>>

(* ConfigDidUpdate hands over the Config when actionLoop is at its select. *)
Idle == ~todo.prune
ConfigDidUpdate ==
    /\ mgr = "send" /\ Idle /\ stop \in {"open", "closed"}
    /\ mgr' = "watch"
    /\ todo' = [cfg |-> cfg, add |-> {n \in Names : cfg[n] # 0}, prune |-> TRUE]
    /\ UNCHANGED <<fileVars, cfg, applied, serviceVars, stop>>

-----------------------------------------------------------------------------
Live(i) == inst[i].state \in {"serving", "stopping"}

(* Shutdown: a forwarder's channel has room for the one signal it gets; a  *)
(* resolver's has not, so that its Run must be there to receive.           *)
CanShutdown(i) == inst[i].name = "resolver" => inst[i].state = "serving"

DropsSignalBug(i) ==
    IF inst[i].state = "serving" THEN [inst EXCEPT ![i].signal = TRUE] ELSE inst

Signalled(i) ==
    IF inst[i].name = "resolver" THEN [inst EXCEPT ![i].state = "stopping"]
    ELSE [inst EXCEPT ![i].signal = TRUE]

New(n, hash) == [name |-> n, hash |-> hash, state |-> "starting", signal |-> FALSE]

(* NextAdd: the forwarders come before the resolver.                       *)
NextAdd == IF "forwarder" \in todo.add THEN "forwarder" ELSE "resolver"

(* AppManager.Add: nothing for the same Hash, even if that service is not  *)
(* running any more; otherwise the old one is told to stop, not waited     *)
(* for, and the new one is started.                                        *)
Add ==
    LET n == NextAdd
        i == services[n]
    IN
    /\ todo.add # {}
    /\ todo' = [todo EXCEPT !.add = @ \ {n}]
    /\ IF i # 0 /\ inst[i].hash = todo.cfg[n] THEN UNCHANGED serviceVars
       ELSE /\ i # 0 => CanShutdown(i)
            /\ inst' = Append(IF i # 0 THEN Signalled(i) ELSE inst, New(n, todo.cfg[n]))
            /\ services' = [services EXCEPT ![n] = Len(inst) + 1]
    /\ UNCHANGED <<fileVars, mgr, cfg, applied, stop>>

KeepsRemovedBug ==
    /\ todo.prune /\ todo.add = {}
    /\ todo' = NoTodo /\ applied' = todo.cfg
    /\ UNCHANGED <<fileVars, mgr, cfg, serviceVars, stop>>

(* The end of handleConfigUpdate: services that are not in the Config are  *)
(* removed, one Shutdown after the other.                                  *)
Remove ==
    LET gone == {n \in Names : services[n] # 0 /\ todo.cfg[n] = 0} IN
    /\ todo.prune /\ todo.add = {}
    /\ \/ /\ gone = {} /\ todo' = NoTodo /\ applied' = todo.cfg
          /\ UNCHANGED serviceVars
       \/ \E n \in gone :
             /\ CanShutdown(services[n])
             /\ inst' = Signalled(services[n])
             /\ services' = [services EXCEPT ![n] = 0]
             /\ UNCHANGED <<todo, applied>>
    /\ UNCHANGED <<fileVars, mgr, cfg, stop>>

(* actionLoop sees shutdownC (the stop of a Windows service): all services *)
(* are shut down, one that does not receive blocks the others.             *)
ActionLoopShutdown ==
    /\ Idle /\ stop \in {"closed", "stopping"}
    /\ \/ \E n \in Names : /\ services[n] # 0 /\ CanShutdown(services[n])
                           /\ inst' = Signalled(services[n])
                           /\ services' = [services EXCEPT ![n] = 0]
                           /\ stop' = "stopping"
       \/ /\ \A n \in Names : services[n] = 0
          /\ stop' = "done" /\ UNCHANGED serviceVars
    /\ UNCHANGED <<fileVars, mgr, cfg, todo, applied>>

-----------------------------------------------------------------------------
(* Run: the forwarder's net.Listen, the resolver's CreateListener and      *)
(* Start.  Both versions of a service have the same address, the name of a *)
(* forwarder being its address.                                            *)
Taken(i) == \E j \in 1..Len(inst) : inst[j].name = inst[i].name /\ Live(j)
MayFail(i) == Taken(i) \/ EnvFails
Listen(i) ==
    /\ inst[i].state = "starting"
    /\ \/ ~Taken(i) /\ inst' = [inst EXCEPT ![i].state = "serving"]
       \/ MayFail(i) /\ inst' = [inst EXCEPT ![i].state = "failed"]
    /\ UNCHANGED <<fileVars, mgr, cfg, todo, applied, services, stop>>

(* Serve returns on its signal, or when Accept fails; the resolver's Stop. *)
Stops(i) ==
    /\ \/ inst[i].signal /\ inst[i].state = "serving"
       \/ inst[i].state = "stopping"
    /\ inst' = [inst EXCEPT ![i].state = "stopped"]
    /\ UNCHANGED <<fileVars, mgr, cfg, todo, applied, services, stop>>

AcceptFails(i) ==
    /\ EnvFails /\ inst[i].name = "forwarder" /\ inst[i].state = "serving"
    /\ inst' = [inst EXCEPT ![i].state = "failed"]
    /\ UNCHANGED <<fileVars, mgr, cfg, todo, applied, services, stop>>

-----------------------------------------------------------------------------
(* The environment: the file is written in place, perhaps when it is not   *)
(* complete, or replaced by another file, and then fsnotify has lost it.   *)
WriteFile ==
    /\ writes < MaxWrites /\ writes' = writes + 1
    /\ file' \in Configs \cup {Bad}
    /\ event' = (event \/ watched)
    /\ UNCHANGED <<watched, mgr, cfg, todo, applied, serviceVars, stop>>
ReplaceFile ==
    /\ writes < MaxWrites /\ writes' = writes + 1
    /\ file' \in Configs /\ watched' = FALSE
    /\ UNCHANGED <<event, mgr, cfg, todo, applied, serviceVars, stop>>
StopService ==
    /\ stop = "open" /\ mgr # "exited" /\ stop' = "closed"
    /\ UNCHANGED <<fileVars, mgr, cfg, todo, applied, serviceVars>>

Loop == Add \/ Remove \/ ActionLoopShutdown
Manager == ReadConfig \/ WatcherItemDidChange \/ ConfigDidUpdate
ServiceNext ==
    \/ Manager \/ Loop \/ WriteFile \/ ReplaceFile \/ StopService
    \/ \E i \in 1..Len(inst) : Listen(i) \/ Stops(i) \/ AcceptFails(i)

(* Every goroutine runs.                                                   *)
ServiceFairness ==
    /\ WF_modeVars(Manager) /\ WF_modeVars(Loop)
    /\ WF_modeVars(\E i \in 1..Len(inst) : Listen(i) \/ Stops(i))

ServiceSpec == ServiceInit /\ [][ServiceNext]_modeVars /\ ServiceFairness

-----------------------------------------------------------------------------
(* actionLoop waits for a resolver that has failed to take its signal.     *)
Blocked == \E n \in Names : services[n] # 0 /\ inst[services[n]].state = "failed"
                            /\ n = "resolver"

(***************************************************************************)
(* A service that was removed or replaced does not go on serving, even if  *)
(* it was told to stop before it had started to listen.                    *)
(***************************************************************************)
RemovedServicesStop ==
    <>[](\A i \in 1..Len(inst) : services[inst[i].name] # i => ~Live(i))

(* AppManager has the services of a Config, and no others.                 *)
Follows(c) ==
    \A n \in Names : IF c[n] = 0 THEN services[n] = 0
                     ELSE services[n] # 0 /\ inst[services[n]].hash = c[n]

(***************************************************************************)
(* The last change of the watched file is applied, service by service,     *)
(* unless it cannot be read, the service is stopped, or the loop hangs on  *)
(* a failed resolver.                                                      *)
(***************************************************************************)
LastWriteApplied ==
    <>[](\/ applied = file /\ Follows(file)
         \/ file = Bad \/ ~watched
         \/ mgr = "exited" \/ stop # "open" \/ Blocked)

(***************************************************************************)
(* The services converge on the last configuration: it is applied, and     *)
(* what it removed or replaced stops.                                      *)
(***************************************************************************)
ServicesConverge == LastWriteApplied /\ RemovedServicesStop
=============================================================================
