------------------------------ MODULE MCDelivery ------------------------------
\* Model values for module Delivery; the workers are interchangeable.
EXTENDS Delivery, TLC

WorkerSymmetry == Permutations(Workers)
=============================================================================
