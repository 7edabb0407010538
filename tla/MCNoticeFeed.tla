---------------------------- MODULE MCNoticeFeed ----------------------------
(* Small instances of NoticeFeed.                                          *)
EXTENDS NoticeFeed, TLC

AdminOrParent == {"admin", "parent"}

notice(t, a, c) == [title |-> t, target_audience |-> a, current |-> c]

\* For teachers, for everyone but not yet listed, and one that is refused.
Submitted == {notice("x", "teachers", TRUE), notice("y", None, FALSE),
              notice(None, None, TRUE)}
=============================================================================
