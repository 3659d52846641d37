--------------------------- MODULE MCStoreStartup ---------------------------
(* Small instance: two pods, two capabilities with one item each, one of them with
   schedules. *)
EXTENDS StoreStartup

CONSTANTS admission, watcher, v1, v2

MCPod == {admission, watcher}
MCName == {<<"foo">>, <<"baz">>}
MCScheduled == {<<"foo">>}
MCItem == {<<"x">>}
MCValue == {v1, v2}
MCFailing == {<<"store", "apply">>}

\* One capability's name begins with another's.
MCOverlapping == {<<"foo">>, <<"foo", "-", "bar">>}
=============================================================================
