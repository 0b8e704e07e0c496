SPECIFICATION FairSpec
CONSTANTS
    None = None
    Owner <- MCOwner
    Name <- MCName
    ClassMethodsOf <- MCClassMethodsOf
    Programs <- MCPrograms
INVARIANTS CacheCurrent AnswersFresh NothingLeaks DispatchOrder
PROPERTY Terminates
