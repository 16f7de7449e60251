---- MODULE MCAuditTrail ----
EXTENDS AuditTrail, TLC
CONSTANTS e1, e2
=============================
