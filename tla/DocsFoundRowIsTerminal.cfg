CONSTANTS
    w1 = w1
    w2 = w2
    w3 = w3
    t1 = t1
    Writers <- MCWriters
    Tasks <- MCTasks
    SubmissionIds <- MCSubmissionIds
    MaxRetries = 1
SPECIFICATION Spec
PROPERTIES FoundRowIsTerminal
