------------------------------ MODULE MCDaemon ------------------------------
(* Two connections, under three settings: only readers and the requests of a *)
(* tenant are short, and a client may leave; only the bytes of frames are;   *)
(* nothing is, and a deadline may pass.                                      *)
EXTENDS Daemon
CONSTANTS c1, c2, t1, t2
MCBytes == [c \in Conns |-> IF c = c1 THEN 2 ELSE 1]
MCQuanta == [c \in Conns |-> IF c = c1 THEN 1 ELSE 2]
TwoTenants == [c \in Conns |-> IF c = c2 THEN t2 ELSE t1]
OneTenant == [c \in Conns |-> t1]
Setting(connections, queued, tenant, bytes, of) ==
    [connections |-> connections, queued |-> queued, tenant |-> tenant, bytes |-> bytes, of |-> of,
     leavers |-> {}, hasty |-> {}]
MCSettings ==
    {[Setting(1, 2, 1, 3, OneTenant) EXCEPT !.leavers = {c2}],
     Setting(2, 2, 1, 2, TwoTenants),
     [Setting(2, 2, 1, 3, TwoTenants) EXCEPT !.hasty = {c2}]}
=============================================================================
