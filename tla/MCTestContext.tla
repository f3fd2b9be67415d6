---- MODULE MCTestContext ----
EXTENDS TestContext, TLC

WorkerSymmetry == Permutations(Workers)
====
