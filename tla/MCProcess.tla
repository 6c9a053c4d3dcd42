----------------------------- MODULE MCProcess -----------------------------
(* Small instances of module Process.                                      *)
EXTENDS Process

MCSleepMs == {1}
MCWaitFew == {AnyChild, 3}

============================================================================
