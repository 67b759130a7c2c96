------------------------------- MODULE Process -------------------------------
(***************************************************************************)
(* cmd/cloudflared/tunnel: StartServer brings up the DNS proxy, the        *)
(* updater, the metrics server and the tunnel daemon, each in a goroutine  *)
(* that sends its result to the unbuffered errC, and waitToShutdown takes  *)
(* them down again.                                                        *)
(***************************************************************************)
EXTENDS Updater

VARIABLES
    flags,      \* dns: --proxy-dns and how it fares; tunnel; grace: --grace-period
    main,       \* StartServer's goroutine
    exit,       \* its result, "none" while it runs
    g,          \* the goroutines: "off", "run", "send" on errC, "done", "stuck"
    dnsReady,   \* dnsReadySignal is closed
    ctx,        \* of the server: "live" or "cancelled"
    graceC      \* graceShutdownC: "open" or "closed"

bootVars == <<flags, main, exit>>
procVars == <<updaterVars, bootVars, g, dnsReady, ctx, graceC>>

Goroutines == {"dns", "updater", "metrics", "daemon"}

(* runDNSProxyServer: a port or a number out of range, upstreams that      *)
(* cannot be used, listening fails, or all is well.                        *)
DNSFlags == {"off", "badport", "badupstream", "nolisten", "ok"}

(* --grace-period: none, one that is kept, or one over MaxGracePeriod;     *)
(* without a tunnel it is not looked at.                                   *)
GracePeriods == {"zero", "some", "too long"}

ProcessInit ==
    /\ UpdaterInit
    /\ flags \in {f \in [dns : DNSFlags, tunnel : BOOLEAN, grace : GracePeriods] :
                     IF f.tunnel THEN TRUE ELSE f.dns # "off" /\ f.grace = "zero"}
    /\ main = "dns" /\ exit = "none"
    /\ g = [x \in Goroutines |-> "off"] /\ dnsReady = FALSE
    /\ ctx = "live" /\ graceC = "open"

Alive == exit = "none"
Start(x, next) == g' = [g EXCEPT ![x] = "run"] /\ main' = next

-----------------------------------------------------------------------------
StartDNS ==
    /\ Alive /\ main = "dns"
    /\ IF flags.dns = "off" THEN main' = "updater" /\ UNCHANGED g
       ELSE Start("dns", "dnsReady")
    /\ UNCHANGED <<updaterVars, flags, exit, dnsReady, ctx, graceC>>
WaitDNSReady ==
    /\ Alive /\ main = "dnsReady" /\ dnsReady /\ main' = "updater"
    /\ UNCHANGED <<updaterVars, flags, exit, g, dnsReady, ctx, graceC>>

(* dnsProxyStandAlone needs nothing else, and has no grace period.         *)
StartUpdater ==
    /\ Alive /\ main = "updater"
    /\ Start("updater", IF flags.tunnel THEN "prepare" ELSE "wait")
    /\ UNCHANGED <<updaterVars, flags, exit, dnsReady, ctx, graceC>>

(* prepareTunnelConfig, NewOrchestrator and the metrics listener: an error *)
(* ends StartServer, whatever it has started, and a grace period that is   *)
(* too long is one.                                                        *)
PrepareTunnelConfig ==
    /\ Alive /\ main = "prepare"
    /\ \/ /\ flags.grace # "too long"
          /\ Start("metrics", "daemon") /\ UNCHANGED <<exit, ctx>>
       \/ exit' = "error" /\ ctx' = "cancelled" /\ UNCHANGED <<main, g>>
    /\ UNCHANGED <<updaterVars, flags, dnsReady, graceC>>

(* StartServer asks for the grace period again when the daemon already     *)
(* runs, and would return its error without waitToShutdown; after          *)
(* PrepareTunnelConfig there is none.                                      *)
StartDaemon ==
    /\ Alive /\ main = "daemon" /\ Start("daemon", "wait")
    /\ UNCHANGED <<updaterVars, flags, exit, dnsReady, ctx, graceC>>

-----------------------------------------------------------------------------
(* runDNSProxyServer.  Its early checks do not close dnsReadySignal, and   *)
(* without a listener to stop it panics.                                   *)
RunDNSProxyServer ==
    /\ Alive /\ g["dns"] = "run"
    /\ \/ /\ flags.dns = "badport"
          /\ g' = [g EXCEPT !["dns"] = "send"] /\ UNCHANGED <<dnsReady, exit>>
       \/ /\ flags.dns = "badupstream" /\ dnsReady' = TRUE
          /\ exit' = "panic" /\ UNCHANGED g
       \/ /\ flags.dns = "nolisten" /\ dnsReady' = TRUE
          /\ g' = [g EXCEPT !["dns"] = "send"] /\ UNCHANGED exit
       \/ /\ flags.dns = "ok" /\ ~dnsReady /\ dnsReady' = TRUE
          /\ UNCHANGED <<g, exit>>
       \/ /\ flags.dns = "ok" /\ dnsReady /\ ctx = "cancelled"
          /\ g' = [g EXCEPT !["dns"] = "send"] /\ UNCHANGED <<dnsReady, exit>>
    /\ UNCHANGED <<updaterVars, flags, main, ctx, graceC>>

(* AutoUpdater.Run returns with an update, or sees the context when it is  *)
(* at its select.                                                          *)
RunUpdater ==
    /\ Alive /\ g["updater"] = "run"
    /\ \/ UpdaterStep /\ UNCHANGED g
       \/ /\ step = "updated" \/ (step = "wait" /\ ctx = "cancelled")
          /\ g' = [g EXCEPT !["updater"] = "send"] /\ UNCHANGED updaterVars
    /\ UNCHANGED <<bootVars, dnsReady, ctx, graceC>>

(* ServeMetrics looks at nothing but the context, even if Serve failed.    *)
ServeMetrics ==
    /\ Alive /\ g["metrics"] = "run" /\ ctx = "cancelled"
    /\ g' = [g EXCEPT !["metrics"] = "send"]
    /\ UNCHANGED <<updaterVars, bootVars, dnsReady, ctx, graceC>>

(* StartTunnelDaemon ends by itself, after graceShutdownC or the context   *)
(* (module Supervisor).                                                    *)
DaemonReturns ==
    /\ Alive /\ g["daemon"] = "run"
    /\ g' = [g EXCEPT !["daemon"] = "send"]
    /\ UNCHANGED <<updaterVars, bootVars, dnsReady, ctx, graceC>>

(* Unless the signal met the first connection: when that one has ended     *)
(* with no error before Run sees graceShutdownC, Run waits for tunnels     *)
(* that it never started, whatever becomes of the context                  *)
(* (Supervisor!NeverStarted).                                              *)
DaemonNeverStarted ==
    /\ Alive /\ g["daemon"] = "run" /\ graceC = "closed"
    /\ g' = [g EXCEPT !["daemon"] = "stuck"]
    /\ UNCHANGED <<updaterVars, bootVars, dnsReady, ctx, graceC>>

-----------------------------------------------------------------------------
(* A receive from errC.                                                    *)
Receives(x) == g[x] = "send" /\ g' = [g EXCEPT ![x] = "done"]

(* waitToShutdown: the first error, or the grace period, which a component *)
(* that ends cuts short; then the context is cancelled.                    *)
FirstError ==
    /\ Alive /\ main = "wait"
    /\ \E x \in Goroutines : Receives(x)
    /\ main' = "discard" /\ ctx' = "cancelled"
    /\ UNCHANGED <<updaterVars, flags, exit, dnsReady, graceC>>
GraceShutdown ==
    /\ Alive /\ main = "wait" /\ graceC = "closed"
    /\ IF flags.grace # "zero" /\ flags.tunnel THEN main' = "grace" /\ UNCHANGED ctx
       ELSE main' = "discard" /\ ctx' = "cancelled"
    /\ UNCHANGED <<updaterVars, flags, exit, g, dnsReady, graceC>>
GraceEnds ==
    /\ Alive /\ main = "grace"
    /\ UNCHANGED g \/ \E x \in Goroutines : Receives(x)
    /\ main' = "discard" /\ ctx' = "cancelled"
    /\ UNCHANGED <<updaterVars, flags, exit, dnsReady, graceC>>

NoDiscardBug ==
    /\ Alive /\ main = "discard" /\ exit = "started"
    /\ UNCHANGED procVars

(* The goroutine that empties errC while wg.Wait waits for the others.     *)
DiscardErrors ==
    /\ Alive /\ main = "discard" /\ \E x \in Goroutines : Receives(x)
    /\ UNCHANGED <<updaterVars, bootVars, dnsReady, ctx, graceC>>

WaitGroupWait ==
    /\ Alive /\ main = "discard"
    /\ \A x \in Goroutines : g[x] \in {"off", "done"}
    /\ exit' = "returned"
    /\ UNCHANGED <<updaterVars, flags, main, g, dnsReady, ctx, graceC>>

-----------------------------------------------------------------------------
(* The environment.  waitForSignal, or the stop of a Windows service.      *)
WaitForSignal ==
    /\ Alive /\ graceC = "open" /\ graceC' = "closed"
    /\ UNCHANGED <<updaterVars, bootVars, g, dnsReady, ctx>>
Release ==
    /\ NewRelease /\ UNCHANGED <<bootVars, g, dnsReady, ctx, graceC>>
Killed ==
    /\ Alive /\ exit' = "killed"
    /\ UNCHANGED <<updaterVars, flags, main, g, dnsReady, ctx, graceC>>

(* A service manager, or a person, runs what is at the path again.         *)
Rerun ==
    /\ ~Alive /\ target \in Versions
    /\ running' = target /\ step' = "check"
    /\ UNCHANGED <<fsVars, release, updateDisabled, flags>>
    /\ main' = "dns" /\ exit' = "none" /\ g' = [x \in Goroutines |-> "off"]
    /\ dnsReady' = FALSE /\ ctx' = "live" /\ graceC' = "open"

Boot == StartDNS \/ WaitDNSReady \/ StartUpdater \/ PrepareTunnelConfig \/ StartDaemon
WaitToShutdown == FirstError \/ GraceShutdown \/ GraceEnds \/ DiscardErrors \/ WaitGroupWait
ProcessNext ==
    \/ Boot \/ RunDNSProxyServer \/ RunUpdater \/ ServeMetrics \/ DaemonReturns
    \/ DaemonNeverStarted \/ WaitToShutdown \/ WaitForSignal \/ Release \/ Killed \/ Rerun

(* Goroutines run; file operations, downloads and the grace period end;    *)
(* components do what the context asks of them; the updater, once the      *)
(* context is cancelled, chooses it rather than the ticker in the end.     *)
ProcessFairness ==
    /\ WF_procVars(Boot) /\ WF_procVars(RunDNSProxyServer)
    /\ WF_procVars(RunUpdater)
    /\ SF_procVars(RunUpdater /\ g'["updater"] = "send")
    /\ WF_procVars(ServeMetrics)
    /\ WF_procVars(DaemonReturns /\ ctx = "cancelled")
    /\ WF_procVars(WaitToShutdown)

ProcessSpec == ProcessInit /\ [][ProcessNext]_procVars /\ ProcessFairness

-----------------------------------------------------------------------------
(* StartServer waits for a DNS proxy that has already given up.            *)
StuckInStartup == main = "dnsReady" /\ flags.dns = "badport"

(* wg.Wait waits for a daemon that does not return, and for nothing else.  *)
WaitsForDaemon ==
    /\ main = "discard" /\ g["daemon"] = "stuck"
    /\ \A x \in Goroutines \ {"daemon"} : g[x] \in {"off", "done"}

(***************************************************************************)
(* A signal or the end of any component brings the process down: neither   *)
(* the unbuffered errC nor the wait group leave it hanging, but for the    *)
(* two waits that the code itself gets into, and there every other         *)
(* component has come down.                                                *)
(***************************************************************************)
ShutdownCompletes ==
    (Alive /\ (graceC = "closed" \/ \E x \in Goroutines : g[x] = "send"))
        ~> (~Alive \/ StuckInStartup \/ WaitsForDaemon)

(***************************************************************************)
(* AutoUpdater: once another version is in place the process ends, so that *)
(* it is that version which runs next, or has come down but for a daemon   *)
(* that a signal caught before its first connection.                       *)
(***************************************************************************)
UpdateTakesEffect ==
    (Alive /\ target \in Versions /\ target # running)
        ~> (~Alive \/ target = running \/ WaitsForDaemon)
=============================================================================
