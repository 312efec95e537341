\* A genesis key and another one, a clock with three values.
CONSTANTS
    root = root
    alice = alice
    Identity <- Everyone
    Genesis <- Roots
    Lifetime <- Days
    Never = Never
    Forged <- Forgeries
    NoVouch = NoVouch
    MaxTime = 2
    MaxVouches = 2
    MaxVerdicts = 2
SPECIFICATION Spec
INVARIANTS TypeOK AdmissionIsEarned RefusalsAreFinal
