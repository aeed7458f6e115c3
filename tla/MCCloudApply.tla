---- MODULE MCCloudApply ----
EXTENDS CloudApply

K(rec, homes, apply, writable, was, runs) ==
  [rec |-> rec, homes |-> homes, apply |-> apply, writable |-> writable,
   stored |-> was, running |-> runs]
Inst == {"instance"}

Dynamic  == K("yes", Inst, "dynamic", TRUE, "old", "old")
Default  == K("yes", Inst, "dynamic", TRUE, "unset", "old")
InEffect == K("yes", Inst, "dynamic", TRUE, "unset", "new")
Static   == K("yes", Inst, "static", TRUE, "old", "old")
Pending  == K("yes", Inst, "static", TRUE, "new", "old")
Reverted == K("yes", Inst, "static", TRUE, "old", "new")
InBoth   == K("yes", Scopes, "dynamic", TRUE, "old", "old")
Cluster  == K("yes", {"cluster"}, "dynamic", TRUE, "old", "old")
Reboots  == K("yes", {"cluster"}, "static", TRUE, "old", "old")
Locked   == K("yes", Inst, "dynamic", FALSE, "old", "old")
Odd      == K("yes", Inst, "other", TRUE, "old", "old")
Wrong    == K("malformed", Inst, "dynamic", TRUE, "old", "old")
Unknown  == K("yes", {}, "dynamic", TRUE, "unset", "old")
Other    == K("no", Inst, "dynamic", TRUE, "old", "old")

Mixed == <<Dynamic, Default, InEffect, Static, Pending, Reverted, InBoth,
           Cluster, Reboots, Locked, Odd, Wrong, Unknown, Other>>
TwoOf == UNION {{<<Mixed[i], Mixed[j]>> : j \in i .. 14} : i \in 1 .. 14}

T(aurora, writer, own) == [aurora |-> aurora, writer |-> writer, own |-> own]
MCTopologies == {T(FALSE, FALSE, Inst), T(TRUE, TRUE, Scopes),
                 T(TRUE, FALSE, Scopes), T(TRUE, TRUE, Inst), T(FALSE, FALSE, {})}
====
