---------------------------- MODULE MCBundleExchange ---------------------------
(***************************************************************************)
(* A trace for BundleExchange: an action whose ancestors are within the    *)
(* depth or not, as the walk takes its two parents; a record with two      *)
(* versions, a delegation, a digest that two steps name with two formats,  *)
(* and a stream of origins that another trace shares, where one comes      *)
(* again under another signature.                                          *)
(***************************************************************************)
EXTENDS BundleExchange, TLC

CONSTANTS i1, i2, i3, digest

Record(q) == [kind |-> "record", value |-> q]

Native(source, record, parents) ==
    [source |-> source, record |-> record, native |-> "n", span |-> record,
     parents |-> {Record(parents[n]) : n \in DOMAIN parents},
     named |-> [n \in DOMAIN parents |-> Record(parents[n])],
     agent |-> "agent", offers |-> {}, accept |-> Nothing, attachments |-> <<>>]

Ref(format, bytes) == [digest |-> digest, format |-> format, bytes |-> bytes]

\* The hash of p is above that of q, its name below.
Bodies ==
    1 :> [Native("s", "z", <<>>) EXCEPT !.attachments = <<Ref("text", 2)>>] @@
    2 :> Native("s", "q", <<"x">>) @@
    3 :> Native("s", "x", <<"z">>) @@
    4 :> [Native("s", "p", <<"z">>) EXCEPT
            !.offers = {[id |-> "d", child_source |-> "t", child_agent |-> "agent", scope |-> "all"]}] @@
    5 :> [Native("s", "action", <<"p", "q">>) EXCEPT !.attachments = <<Ref("data", 2)>>] @@
    6 :> Native("s", "p", <<>>) @@
    7 :> [Native("t", "remote", <<>>) EXCEPT
            !.accept = [id |-> "d", scope |-> "all",
                        parent |-> [source |-> "s", record |-> "p", hash |-> 4]]]

Origin(hash, seq, prev, step) ==
    [hash |-> hash, stream |-> "o", seq |-> seq, prev |-> prev, step |-> step, signature |-> "key"]

Foreign == Origin("o1", 1, "zero", 99)
Last4 == Origin("o4", 4, "o3", 98)
Second == Origin("o2", 2, "o1", 4)
SignedAgain == [Second EXCEPT !.signature = "none"]

Attestations == {Foreign, Second, SignedAgain, Origin("o3", 3, "o2", 1), Last4}
Others == {SignedAgain, Last4}

Batches ==
    i1 :> [rows |-> <<5, 3, 4>>, origins |-> {Foreign, Second}, artifacts |-> {}] @@
    i2 :> [rows |-> <<2, 1>>, origins |-> {Origin("o3", 3, "o2", 1)},
           artifacts |-> {[digest |-> digest, format |-> "text"]}] @@
    i3 :> [rows |-> <<7, 6, 5>>, origins |-> {}, artifacts |-> {[digest |-> digest, format |-> "data"]}]

Lengths == digest :> 2

Ask(source, record, depth, nodes) ==
    [source |-> source, record |-> record, max_depth |-> depth, max_nodes |-> nodes]

Asked == {Ask("s", "action", 2, 9), Ask("s", "action", 3, 9), Ask("t", "remote", 2, 2)}

===============================================================================
