\* Two profiles, two requests that may race for the same pair.
CONSTANTS
    Profiles = {a, b}
    Requests = {r1, r2}
SPECIFICATION Spec
INVARIANTS TypeOK AnswersMatchRows ShownCountsAreRight
