------------------------------- MODULE MCHost -------------------------------
(***************************************************************************)
(* Small instances of what surrounds the field: the life loop, the hub and *)
(* its sessions, the two clients, the C bridge, the query parser, the      *)
(* journal on disk and the governance bridge.  They share no state, so     *)
(* each is explored by itself: the scenario names the one that moves, and  *)
(* the others stay as they begin.                                          *)
(***************************************************************************)
EXTENDS LifeLoop, NetHub, SdkClients, Bridge, LqlParser, FieldJournal, Governance

VARIABLE scenario

hostVars == <<scenario, lifeVars, hubVars, tsVars, rsVars, bridgeVars, query, journalVars, govVars>>

MCMeasures == {NoMetrics, [sleep |-> 2, low |-> TRUE], [sleep |-> 3, low |-> TRUE]}
MCTrsAdjust == {-1, 1}
MCAwakenAdjust == {0, 1}

\* a reservation, one that changes the world, a commit, and a mutation at the last generation
GovernanceBody(kind, before, after, worlds, reservation, operation) ==
    [kind |-> kind, before |-> before, after |-> after,
     worldBefore |-> worlds[1], worldAfter |-> worlds[2],
     reservation |-> reservation, operation |-> operation]
MCOffered ==
    {GovernanceBody("reserve", 0, 0, <<"w", "w">>, "r", "o"),
     GovernanceBody("reserve", 0, 0, <<"w", "v">>, "r", "o"),
     GovernanceBody("commit", 0, 1, <<"w", "v">>, "r", "o"),
     GovernanceBody("mutate", 1, 1, <<"v", "w">>, Zero, Zero)}

Scenarios == {"life", "reflect", "hub", "ts", "rust", "bridge", "lql", "journal", "govern"}

MCInit ==
    /\ scenario \in Scenarios
    /\ LifeInit /\ HubInit /\ TsInit /\ RsInit /\ BridgeInit /\ LqlInit /\ JournalInit /\ GovInit
    /\ scenario # "life" => loop.sinceDream = 0 /\ loop.sincePhase = 0
    /\ scenario # "lql" => query.cmd = "COMMIT"

Stays(vars, moving) == IF scenario \in moving THEN TRUE ELSE UNCHANGED vars

MCNext ==
    /\ UNCHANGED scenario
    /\ \/ scenario = "life" /\ (Iterate \/ DreamNow)
       \/ /\ scenario = "reflect" /\ (Iterate \/ TuneReflex)
          /\ loop'.metrics = NoMetrics /\ ~Pending(loop')
       \/ scenario = "hub" /\ HubNext
       \/ scenario = "ts" /\ TsNext
       \/ scenario = "rust" /\ RsNext
       \/ scenario = "bridge" /\ BridgeNext
       \/ scenario = "lql" /\ LqlNext
       \/ scenario = "journal" /\ JournalNext
       \/ scenario = "govern" /\ GovNext
    /\ Stays(lifeVars, {"life", "reflect"}) /\ Stays(hubVars, {"hub"}) /\ Stays(tsVars, {"ts"})
    /\ Stays(rsVars, {"rust"}) /\ Stays(bridgeVars, {"bridge"}) /\ Stays(query, {"lql"})
    /\ Stays(journalVars, {"journal"}) /\ Stays(govVars, {"govern"})

\* the life loop is a task of the runtime: it never stops iterating
LifeFair == WF_lifeVars(scenario = "life" /\ Iterate)

\* the runtime runs every task that can go on, the life loop never stops
\* publishing, and the senders waiting for room in a queue are served in order
\* (tokio's mpsc), so that neither pump can starve the other
InHub == scenario = "hub"
HubFair ==
    /\ WF_hubVars(InHub /\ Publish) /\ WF_hubVars(InHub /\ PublishMetrics)
    /\ WF_hubVars(InHub /\ Handle)
    /\ \A c \in Client :
         /\ WF_hubVars(InHub /\ Start(c)) /\ WF_hubVars(InHub /\ PumpEvent(c))
         /\ SF_hubVars(InHub /\ HandOver(c)) /\ SF_hubVars(InHub /\ PumpMetrics(c))
         /\ WF_hubVars(InHub /\ Send(c)) /\ WF_hubVars(InHub /\ Leave(c))
         /\ WF_hubVars(InHub /\ Unlist(c))

\* the connection task runs when it can, and the server can be reached again and again
InRust == scenario = "rust"
RsFair ==
    /\ SF_rsVars(InRust /\ Connected) /\ WF_rsVars(InRust /\ Delay) /\ WF_rsVars(InRust /\ Noticed)
    /\ SF_rsVars(InRust /\ Notified) /\ WF_rsVars(InRust /\ Drain)
    /\ WF_rsVars(InRust /\ SendCommand) /\ WF_rsVars(InRust /\ SendFails)

MCSpec == MCInit /\ [][MCNext]_hostVars /\ LifeFair /\ HubFair /\ RsFair

-----------------------------------------------------------------------------
(* The TypeScript client on a network where every attempt to connect succeeds *)

QuietInit == MCInit /\ scenario = "ts"
QuietNext ==
    /\ TsCalm
    /\ UNCHANGED <<scenario, lifeVars, hubVars, rsVars, bridgeVars, query, journalVars, govVars>>
QuietSpec == QuietInit /\ [][QuietNext]_hostVars /\ WF_tsVars(OpenCurrent) /\ WF_tsVars(OpenOlder)
=============================================================================
