-------------------------- MODULE MCRetentionHistory --------------------------
EXTENDS RetentionHistory

Policy(n, days, d, w, m, smart) ==
  [count |-> n, age_days |-> days,
   gfs |-> [daily |-> d, weekly |-> w, monthly |-> m], smart_last |-> smart]

MCPolicies ==
  {Policy(n, days, d, w, m, smart) :
     n \in {0, 1, 2}, days \in {0, 2}, d \in {0, 2}, w \in {0, 1},
     m \in {0, 2}, smart \in BOOLEAN}
=============================================================================
