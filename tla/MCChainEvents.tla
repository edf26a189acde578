--------------------------- MODULE MCChainEvents ----------------------------
EXTENDS ChainEvents

CONSTANTS c1, c2, a, b, l1

Ask(c, p, n, unlocks, punish, dispose) ==
    [key |-> [channel |-> c, delegator |-> p], nonce |-> n, unlocks |-> unlocks,
     punishes |-> punish, disposes |-> dispose]

\* One delegator with a balance proof only.
ProofOnly == { Ask(c1, a, 1, {}, {}, {}) }

\* A proof, and a newer one.
NewerProof == { Ask(c1, a, 1, {}, {}, {}), Ask(c1, a, 2, {}, {}, {}) }

\* A proof, a lock to unlock and one to punish for.
OneAll == { Ask(c1, a, 1, {l1}, {l1}, {}) }

\* A proof and a lock that is disposed of (for SuccessIsUpdated).
DisposedLock == { Ask(c1, a, 1, {l1}, {}, {l1}) }

\* No proof: a lock to punish for.
PunishOnly == { Ask(c1, a, 0, {}, {l1}, {}) }

\* Nothing to execute but a dispose: what starts, and when.
DisposeOnly == { Ask(c1, a, 0, {}, {}, {l1}) }

\* A punish on each of two channels.
TwoChannels == { Ask(c1, a, 0, {}, {l1}, {}), Ask(c2, a, 0, {}, {l1}, {}) }
=============================================================================
