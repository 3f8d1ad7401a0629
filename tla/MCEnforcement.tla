--------------------------- MODULE MCEnforcement ---------------------------
(* Enforcement on two configurations and two user maps that give, take and *)
(* move access between an explicit console and one found another way.      *)
EXTENDS Enforcement, TLC

CONSTANTS alice, staff, con, vm

Anyone == [type |-> "exec", rw |-> {}, ro |-> {}]
Restricted == [type |-> "exec", rw |-> {}, ro |-> {staff}]
OwnSocket == [type |-> "qemu_unix", rw |-> {alice}, ro |-> {}]

MCUsers == {alice}
MCGroups == {staff}
MCNames == {con, vm}

PatternCfg ==
    [consoles |-> con :> Anyone, patterns |-> vm :> OwnSocket, default |-> None]
DefaultCfg ==
    [consoles |-> con :> Restricted, patterns |-> <<>>, default |-> Restricted]
MCEmptyCfg ==
    [consoles |-> <<>>, patterns |-> <<>>, default |-> None]

MemberMap == [users |-> alice :> {staff}, groups |-> staff :> "read_write"]
LoneMap == [users |-> alice :> {}, groups |-> staff :> "read_write"]
MCEmptyMap == [users |-> <<>>, groups |-> <<>>]

MCCfgs == {PatternCfg, DefaultCfg}
MCMaps == {MemberMap, LoneMap}

\* What the next steps depend on: lost and reload only record the past.
Present == <<monCfg, monMap, handlers, workerRules, push, midway,
             sessionVars, killVars, live>>
=============================================================================
