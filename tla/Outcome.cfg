\* Two workers on a template and a mail that share a key, no restart.
SPECIFICATION LiveSpec
CONSTANTS
    TemplateId = {1}
    MaxMail = 1
    MaxBody = 3
    Variations = 1
    Worker = {w1, w2}
    MayCrash = FALSE
INVARIANT InProgressHasWorker
PROPERTIES
    FlagWrongByOverlap
    InProgressEnds
