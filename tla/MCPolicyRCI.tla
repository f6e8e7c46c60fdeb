---------------------------- MODULE MCPolicyRCI ----------------------------
EXTENDS PolicyRCI

CONSTANTS r1, r2, r3, p

(* A creation, a listing, and a third request of any kind; saved or not.   *)
SomeAsked == {f \in [Requests -> Args] : f[r1].op = "create" /\ f[r3].op = "list"}
=============================================================================
