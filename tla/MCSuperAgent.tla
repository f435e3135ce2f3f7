---------------------------- MODULE MCSuperAgent ----------------------------
(* Chat messages share a thread, and so do the messages of the mailbox.    *)
EXTENDS SuperAgent
CONSTANTS m1, m2, t1, t2
OneMail == <<m1>>
TwoMails == <<m1, m2>>
NoMail == <<>>
MCThread == [e \in Events |-> IF e \in Chat THEN t1 ELSE t2]
=============================================================================
